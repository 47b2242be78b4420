------------------------- MODULE PublishedPost_proofs -------------------------
(* Proofs about PublishedPost, for any posts, intents, workers, editors and    *)
(* bounds.                                                                     *)
EXTENDS PublishedPost, FiniteSetTheorems, SequenceTheorems, WellFoundedInduction, TLAPS

-----------------------------------------------------------------------------
(* What the operators of the model return. *)

\* Min of two numbers.
LEMMA MinOfTwo ==
  ASSUME NEW a \in Int, NEW b \in Int
  PROVE  Min({a, b}) = IF a <= b THEN a ELSE b
  <1>1. \E x \in {a, b} : \A y \in {a, b} : x =< y
    OBVIOUS
  <1>2. Min({a, b}) \in {a, b} /\ \A y \in {a, b} : Min({a, b}) =< y
    BY <1>1 DEF Min
  <1> QED BY <1>2

\* A set of places in a sequence has a first one.
LEMMA FirstPlace ==
  ASSUME NEW n \in Nat, NEW I \in SUBSET (1..n), I # {}
  PROVE  Min(I) \in I
  <1> DEFINE Below(x) == {y \in I : y < x}
             T == {Below(x) : x \in I}
  <1>1. IsWellFoundedOn(StrictSubsetOrdering(I), SUBSET I)
    <2>1. IsFiniteSet(I)
      <3>1. IsFiniteSet(1..n)
        BY FS_Interval
      <3> QED BY <3>1, FS_Subset
    <2> QED BY <2>1, FS_StrictSubsetOrderingWellFounded, FS_FiniteSubsetsOfFinite
  <1>2. T \subseteq SUBSET I /\ T # {}
    <2>1. \A x \in I : Below(x) \in SUBSET I
      OBVIOUS
    <2>2. \E x \in I : Below(x) \in T
      OBVIOUS
    <2> QED BY <2>1, <2>2
  <1>3. PICK t \in T : \A u \in T : <<u, t>> \notin StrictSubsetOrdering(I)
    BY <1>1, <1>2, WFMin
  <1>4. PICK x \in I : t = Below(x)
    BY <1>3
  <1>5. ASSUME NEW y \in I, y < x PROVE FALSE
    <2>1. Below(y) \subseteq Below(x) /\ Below(y) # Below(x) /\ Below(y) \in T
      <3>1. y \in Below(x) /\ y \notin Below(y)
        BY <1>5
      <3>2. \A z \in Below(y) : z \in Below(x)
        BY <1>5
      <3> QED BY <3>1, <3>2
    <2> QED BY <1>2, <1>3, <1>4, <2>1 DEF StrictSubsetOrdering
  <1>6. \A y \in I : x =< y
    BY <1>5
  <1> QED BY <1>6 DEF Min

\* The elements of a sequence that is taken apart and put together again.
LEMMA ElementsOf ==
  ASSUME NEW S, NEW s \in Seq(S)
  PROVE  ToSet(s) = {s[i] : i \in 1..Len(s)} /\ ToSet(s) \subseteq S
  BY DEF ToSet

\* The confirmed message moves to the end: the same messages, in another order.
LEMMA MovedLast ==
  ASSUME NEW S, NEW s \in Seq(S), NEW h \in ToSet(s)
  PROVE  LET t == Append(RemoveFirst(s, h), h)
         IN  t \in Seq(S) /\ t # <<>> /\ ToSet(t) = ToSet(s) /\ Last(t) = h
  <1> DEFINE I == {i \in 1..Len(s) : s[i] = h}
             k == Min(I)
             front == SubSeq(s, 1, k - 1)
             back == SubSeq(s, k + 1, Len(s))
             t == Append(front \o back, h)
  <1>1. Len(s) \in Nat /\ h \in S /\ I # {} /\ I \in SUBSET (1..Len(s))
    BY ElementsOf
  <1>2. k \in 1..Len(s) /\ s[k] = h
    BY <1>1, FirstPlace
  <1>3. RemoveFirst(s, h) = front \o back
    BY <1>1 DEF RemoveFirst, RemoveAt, SelectInSeq
  <1> HIDE DEF k
  <1>4. front \in Seq(S) /\ Len(front) = k - 1 /\ \A i \in 1..(k - 1) : front[i] = s[i]
    BY <1>2, SubSeqProperties
  <1>5. back \in Seq(S) /\ Len(back) = Len(s) - k /\ \A i \in 1..(Len(s) - k) : back[i] = s[k + i]
    BY <1>2, SubSeqProperties
  <1> HIDE DEF front, back
  <1>6. /\ front \o back \in Seq(S) /\ Len(front \o back) = Len(s) - 1
        /\ \A i \in 1..(Len(s) - 1) :
              (front \o back)[i] = IF i < k THEN s[i] ELSE s[i + 1]
    <2>1. /\ front \o back \in Seq(S) /\ Len(front \o back) = Len(front) + Len(back)
          /\ \A i \in 1..(Len(front) + Len(back)) :
                (front \o back)[i] = IF i <= Len(front) THEN front[i] ELSE back[i - Len(front)]
      BY <1>4, <1>5, ConcatProperties
    <2> QED BY <2>1, <1>2, <1>4, <1>5
  <1> DEFINE f == front \o back
  <1> HIDE DEF f
  <1>7. /\ t \in Seq(S) /\ Len(t) = Len(s) /\ t[Len(s)] = h
        /\ \A i \in 1..(Len(s) - 1) : t[i] = IF i < k THEN s[i] ELSE s[i + 1]
    BY <1>1, <1>2, <1>6, AppendProperties DEF f
  <1> HIDE DEF t
  <1>8. ToSet(t) = ToSet(s)
    <2>1. ASSUME NEW i \in 1..Len(s) PROVE t[i] \in ToSet(s)
      <3>1. CASE i = Len(s)
        BY <1>7, <3>1
      <3>2. CASE i # Len(s)
        <4>1. i \in 1..(Len(s) - 1) /\ i + 1 \in 1..Len(s)
          BY <1>1, <3>2
        <4> QED BY <1>7, <4>1, ElementsOf
      <3> QED BY <3>1, <3>2
    <2>2. ASSUME NEW i \in 1..Len(s) PROVE s[i] \in ToSet(t)
      <3>0. ToSet(t) = {t[j] : j \in 1..Len(s)}
        BY <1>7, ElementsOf
      <3>1. CASE i = k
        <4>1. Len(s) \in 1..Len(s)
          BY <1>2
        <4> QED BY <1>2, <1>7, <3>0, <3>1, <4>1
      <3>2. CASE i < k
        <4>1. i \in 1..(Len(s) - 1) /\ t[i] = s[i]
          BY <1>2, <1>7, <3>2
        <4> QED BY <3>0, <4>1
      <3>3. CASE i > k
        <4>1. i - 1 \in 1..(Len(s) - 1) /\ i - 1 \in 1..Len(s) /\ ~(i - 1 < k) /\ i - 1 + 1 = i
          BY <1>2, <3>3
        <4>2. t[i - 1] = s[i]
          BY <1>7, <4>1
        <4> QED BY <3>0, <4>1, <4>2
      <3> QED BY <1>2, <3>1, <3>2, <3>3
    <2>3. ToSet(t) = {t[j] : j \in 1..Len(s)} /\ ToSet(s) = {s[j] : j \in 1..Len(s)}
      BY <1>7, ElementsOf
    <2> QED BY <2>1, <2>2, <2>3
  <1>9. t # <<>> /\ Last(t) = h
    BY <1>2, <1>7 DEF Last
  <1>10. t = Append(RemoveFirst(s, h), h)
    BY <1>3 DEF t
  <1> QED BY <1>7, <1>8, <1>9, <1>10

\* Reading a sequence backwards neither adds nor loses anything.
LEMMA Reversed ==
  ASSUME NEW S, NEW s \in Seq(S)
  PROVE  Reverse(s) \in Seq(S) /\ ToSet(Reverse(s)) = ToSet(s)
  <1>1. Len(s) \in Nat /\ \A i \in 1..Len(s) : s[i] \in S
    OBVIOUS
  <1> DEFINE n == Len(s)
             r == [i \in 1..n |-> s[(n - i) + 1]]
  <1>2. Reverse(s) = r
    BY DEF Reverse
  <1>3. \A i \in 1..n : (n - i) + 1 \in 1..n /\ (n - ((n - i) + 1)) + 1 = i
    BY <1>1
  <1>4. r \in [1..n -> S]
    BY <1>1, <1>3
  <1>5. r \in Seq(S) /\ DOMAIN r = 1..n
    BY <1>1, <1>4, SeqDef
  <1>6. ToSet(s) = {s[i] : i \in 1..n} /\ ToSet(r) = {r[i] : i \in 1..n}
    BY <1>1, <1>5 DEF ToSet
  <1>7. \A i \in 1..n : r[i] \in ToSet(s)
    BY <1>3, <1>6
  <1>8. \A i \in 1..n : s[i] \in ToSet(r)
    <2> SUFFICES ASSUME NEW i \in 1..n PROVE s[i] = r[(n - i) + 1]
      BY <1>3, <1>6
    <2> QED BY <1>3
  <1>9. ToSet(r) = ToSet(s)
    <2>1. ToSet(r) \subseteq ToSet(s)
      BY <1>6, <1>7
    <2>2. ToSet(s) \subseteq ToSet(r)
      BY <1>6, <1>8
    <2> QED BY <2>1, <2>2
  <1> HIDE DEF r
  <1> QED BY <1>2, <1>5, <1>9

-----------------------------------------------------------------------------
(* The posts. *)

\* Every post has messages, and none of them belongs to another post.
LEMMA Posted ==
  /\ Len(Posts) \in Nat /\ Pubs = 1..Len(Posts) /\ 0 \notin Pubs /\ IsFiniteSet(Pubs)
  /\ Messages \subseteq Nat
  /\ \A p \in Pubs : /\ Posts[p] \in Seq(Messages) /\ MessagesOf(p) = ToSet(Posts[p])
                     /\ MessagesOf(p) \subseteq Messages /\ MessagesOf(p) # {}
  /\ \A p, q \in Pubs : \A m \in MessagesOf(p) : m \in MessagesOf(q) => p = q
  <1>1. Len(Posts) \in Nat /\ Pubs = 1..Len(Posts) /\ Posts \in Seq(Seq(Nat) \ {<<>>})
    BY PublishedPostAssumption, LenProperties DEF Pubs
  <1>2. 0 \notin Pubs /\ IsFiniteSet(Pubs)
    BY <1>1, FS_Interval
  <1>3. \A p \in Pubs : Posts[p] \in Seq(Nat) /\ Posts[p] # <<>>
    BY <1>1
  <1>4. ASSUME NEW p \in Pubs
        PROVE  /\ ToSet(Posts[p]) \subseteq Messages /\ ToSet(Posts[p]) \subseteq Nat
               /\ ToSet(Posts[p]) # {}
    <2>1. Len(Posts[p]) \in Nat \ {0} /\ ToSet(Posts[p]) = {Posts[p][i] : i \in 1..Len(Posts[p])}
      BY <1>3, EmptySeq, ElementsOf
    <2>2. 1 \in 1..Len(Posts[p])
      BY <2>1
    <2>3. ToSet(Posts[p]) \subseteq Nat
      BY <1>3, ElementsOf
    <2> QED BY <2>1, <2>2, <2>3 DEF Messages
  <1>5. Messages \subseteq Nat
    BY <1>4 DEF Messages
  <1>6. ASSUME NEW p \in Pubs PROVE Posts[p] \in Seq(Messages)
    <2>1. DOMAIN Posts[p] = 1..Len(Posts[p]) /\ Posts[p] \in [1..Len(Posts[p]) -> Nat]
          /\ Len(Posts[p]) \in Nat
      BY <1>3, LenProperties
    <2>2. Posts[p] \in [1..Len(Posts[p]) -> Messages]
      BY <1>3, <1>4, <2>1, ElementsOf
    <2> QED BY <2>1, <2>2, SeqDef
  <1>7. \A p, q \in Pubs : \A m \in MessagesOf(p) : m \in MessagesOf(q) => p = q
    BY PublishedPostAssumption DEF Pubs, MessagesOf
  <1> QED BY <1>1, <1>2, <1>4, <1>5, <1>6, <1>7 DEF MessagesOf

\* A batch ends at a publication, or it is short.
LEMMA Batches ==
  ASSUME NEW cursor \in 0..Len(Posts)
  PROVE  LET batch == BatchAfter(cursor)
         IN  batch \in Seq(Pubs) /\ (Len(batch) < BatchSize \/ Last(batch) \in 0..Len(Posts))
  <1> DEFINE n == Min({BatchSize, Len(Posts) - cursor})
             batch == BatchAfter(cursor)
  <1>1. BatchSize \in Nat \ {0} /\ Len(Posts) \in Nat /\ Pubs = 1..Len(Posts)
    BY Posted, PublishedPostAssumption
  <1>2. n \in Nat /\ n <= BatchSize /\ n <= Len(Posts) - cursor
    BY <1>1, MinOfTwo
  <1> HIDE DEF n
  <1>3. batch = [i \in 1..n |-> cursor + i]
    BY DEF BatchAfter, n
  <1>4. batch \in [1..n -> Pubs]
    BY <1>1, <1>2, <1>3
  <1>5. batch \in Seq(Pubs) /\ Len(batch) = n
    BY <1>2, <1>4, SeqDef
  <1>6. n = BatchSize => batch[n] \in Pubs
    BY <1>1, <1>4
  <1> QED BY <1>1, <1>2, <1>5, <1>6 DEF Last

\* The views worker's batch consists of publications.
LEMMA Queues ==
  ASSUME NEW S \in SUBSET Pubs
  PROVE  SetToSeq(S) \in Seq(Pubs)
  <1>1. IsFiniteSet(S)
    BY Posted, FS_Subset
  <1>2. PICK n \in Nat : ExistsBijection(1..n, S)
    BY <1>1, FS_NatBijection
  <1>3. Cardinality(S) = n
    BY <1>2, FS_CountingElements
  <1>4. PICK f \in [1..n -> S] : IsInjective(f)
    BY <1>2 DEF ExistsBijection, Bijection, Injection
  <1>5. SetToSeq(S) \in [1..n -> S]
    BY <1>3, <1>4 DEF SetToSeq
  <1>6. SetToSeq(S) \in [1..n -> Pubs]
    BY <1>5
  <1> QED BY <1>6, SeqDef

-----------------------------------------------------------------------------
(* Types, with what workers and edits remember. *)

Results == Resolved \cup {"unknown"}

WorkerRows ==
    [pc : {"loop", "leased", "next", "call", "mark", "report", "release"},
     cursor : 0..Len(Posts), todo : Seq(Pubs), revision : 0..(MaxEdits + 1), mixed : BOOLEAN,
     ids : Seq(Messages), next : Nat \ {0}, result : {"none"} \cup Results, own : BOOLEAN]

\* Whoever visits a publication has one, and knows its messages once it has read them.
Visits(m) ==
    /\ m.pc # "loop" => m.todo # <<>>
    /\ m.pc \in {"next", "call", "mark", "report"} => ToSet(m.ids) = MessagesOf(Head(m.todo))
    /\ m.pc \in {"call", "mark"} => m.next <= Len(m.ids)
    /\ m.pc = "mark" => m.result \in Results

WorkersTyped == w \in [Workers -> WorkerRows] /\ \A x \in Workers : Visits(w[x])

EditRows ==
    [pc : {"idle", "edit", "persist"}, of : Pubs \cup {0}, revision : 0..(MaxEdits + 1),
     intent : [seconds : Nat, views : Nat], todo : Seq(Messages), hit : Nat, tag : 0..MaxEdits]

Active(e) == ed[e].pc # "idle"

\* What an edit remembers: it belongs to a publication, and if it would still be stored it
\* is later than the edit that was stored last.
Remembers(m, pubs, begun) ==
    m.pc # "idle" =>
      /\ m.of \in Pubs /\ m.intent \in Intents /\ m.tag \in 1..begun
      /\ ToSet(m.todo) \subseteq MessagesOf(m.of)
      /\ m.pc = "persist" => m.hit \in MessagesOf(m.of)
      /\ m.revision <= pubs[m.of].revision
      /\ m.revision = pubs[m.of].revision => Last(pubs[m.of].text) < m.tag

EditsTyped == ed \in [Editors -> EditRows] /\ \A e \in Editors : Remembers(ed[e], pub, edits)

\* Revisions are counted no faster than edits.
PubSound(b, p, begun) ==
    /\ b \in Publication /\ ToSet(b.ids) = MessagesOf(p) /\ b.text # <<>>
    /\ b.revision <= Last(b.text) + 1 /\ Last(b.text) <= begun

PubsTyped == pub \in [Pubs -> Publication] /\ \A p \in Pubs : PubSound(pub[p], p, edits)

Rows == [state : {"none"} \cup Ambiguous \cup Resolved, revision : 0..(MaxEdits + 1)]

LedgerTyped ==
    /\ lease \in [Pubs -> [by : Workers \cup {"nobody"}, live : BOOLEAN]]
    /\ row \in [Messages -> Rows] /\ \A m \in Messages : row[m].state = "none" => row[m] = NoRow
    /\ calls \in [Messages -> Nat] /\ reports \in [Pubs -> Nat]

WorldTyped ==
    /\ gone \subseteq Messages
    /\ shown \in [Messages -> 0..MaxEdits] /\ \A m \in Messages : shown[m] <= edits
    /\ queue \in Seq(Pubs)
    /\ edits \in 0..MaxEdits /\ unstored \subseteq 1..MaxEdits
    /\ faults \in 0..MaxFaults

TypeInv == PubsTyped /\ LedgerTyped /\ WorkersTyped /\ EditsTyped /\ WorldTyped

\* What TypeInv says of a worker that visits a publication.
LEMMA AtWork ==
  ASSUME TypeInv, NEW x \in Workers
  PROVE  /\ w[x] \in WorkerRows /\ Visits(w[x])
         /\ w[x].pc # "loop" \/ w[x].todo # <<>> =>
               /\ Job(x) \in Pubs /\ pub[Job(x)] \in Publication /\ Tail(w[x].todo) \in Seq(Pubs)
               /\ ToSet(pub[Job(x)].ids) = MessagesOf(Job(x))
         /\ w[x].pc \in {"call", "mark"} \/ MessagesLeft(x) =>
               MessageAt(x) \in MessagesOf(Job(x)) /\ MessageAt(x) \in Messages
  <1>1. w[x] \in WorkerRows /\ Visits(w[x])
    BY DEF TypeInv, WorkersTyped
  <1>2. ASSUME w[x].pc # "loop" \/ w[x].todo # <<>>
        PROVE  /\ Job(x) \in Pubs /\ pub[Job(x)] \in Publication /\ Tail(w[x].todo) \in Seq(Pubs)
               /\ ToSet(pub[Job(x)].ids) = MessagesOf(Job(x))
    <2>1. w[x].todo \in Seq(Pubs) /\ w[x].todo # <<>>
      BY <1>1, <1>2 DEF WorkerRows, Visits
    <2>2. Job(x) \in Pubs /\ Tail(w[x].todo) \in Seq(Pubs)
      BY <2>1, HeadTailProperties DEF Job
    <2> QED BY <2>2 DEF TypeInv, PubsTyped, PubSound
  <1>3. ASSUME w[x].pc \in {"call", "mark"} \/ MessagesLeft(x)
        PROVE  MessageAt(x) \in MessagesOf(Job(x)) /\ MessageAt(x) \in Messages
    <2>1. w[x].pc \in {"next", "call", "mark"} /\ w[x].next <= Len(w[x].ids)
      BY <1>1, <1>3 DEF MessagesLeft, Visits
    <2>2. w[x].ids \in Seq(Messages) /\ w[x].next \in Nat \ {0} /\ Len(w[x].ids) \in Nat
      BY <1>1 DEF WorkerRows
    <2>3. w[x].next \in 1..Len(w[x].ids)
      BY <2>1, <2>2
    <2>4. MessageAt(x) \in ToSet(w[x].ids)
      BY <2>2, <2>3, ElementsOf DEF MessageAt
    <2>5. ToSet(w[x].ids) = MessagesOf(Job(x)) /\ ToSet(w[x].ids) \subseteq Messages
      BY <1>1, <2>1, <2>2, ElementsOf DEF Visits, Job
    <2> QED BY <2>4, <2>5
  <1> QED BY <1>1, <1>2, <1>3

\* A worker writes its own memory only.
LEMMA Replaces ==
  ASSUME TypeInv, NEW x \in Workers, NEW next \in WorkerRows, Visits(next),
         w' = [w EXCEPT ![x] = next]
  PROVE  WorkersTyped'
  BY DEF TypeInv, WorkersTyped

\* The memory of a worker that rests or leaves.
LEMMA Rests ==
  /\ MaxEdits \in Nat /\ MaxFaults \in Nat
  /\ RestingWorker \in WorkerRows /\ Visits(RestingWorker)
  /\ NoEdit \in EditRows /\ NoRow \in Rows
  <1>1. MaxEdits \in Nat /\ MaxFaults \in Nat /\ Len(Posts) \in Nat
    BY Posted, PublishedPostAssumption
  <1>2. RestingWorker \in WorkerRows
    BY <1>1, EmptySeq DEF RestingWorker, WorkerRows
  <1> QED BY <1>1, <1>2, EmptySeq DEF RestingWorker, Visits, NoEdit, EditRows, NoRow, Rows

LEMMA Leaves ==
  ASSUME TypeInv, NEW x \in Workers, w[x].pc # "loop", Leave(x)
  PROVE  WorkersTyped' /\ w'[x].pc = "release"
  <1> DEFINE next == [RestingWorker EXCEPT !.pc = "release", !.todo = w[x].todo,
                                           !.cursor = w[x].cursor]
  <1>1. w[x] \in WorkerRows /\ w[x].todo # <<>>
    BY AtWork DEF Visits
  <1>2. next \in WorkerRows /\ next.pc = "release" /\ next.todo = w[x].todo
    BY <1>1, Rests DEF WorkerRows
  <1>3. w' = [w EXCEPT ![x] = next]
    BY DEF Leave
  <1> HIDE DEF next
  <1>4. Visits(next)
    BY <1>1, <1>2 DEF Visits
  <1> QED BY <1>2, <1>3, <1>4, Replaces DEF TypeInv, WorkersTyped

\* The memory of every worker stays sound, whatever one of them does.
LEMMA WorkerStep ==
  ASSUME TypeInv, NEW x \in Workers, Work(x) \/ MarkFails(x) \/ Die(x) \/ Cancel(x)
  PROVE  WorkersTyped'
  <1> DEFINE m == w[x]
  <1>0. /\ m \in WorkerRows /\ Visits(m) /\ w \in [Workers -> WorkerRows]
        /\ Len(Posts) \in Nat /\ 0 \in 0..Len(Posts)
    BY AtWork, Posted DEF TypeInv, WorkersTyped
  <1>1. CASE Select(x)
    <2> DEFINE batch == BatchAfter(m.cursor)
               cursor == IF Len(batch) < BatchSize THEN 0 ELSE Last(batch)
               next == [m EXCEPT !.todo = batch, !.cursor = cursor]
    <2>1. m.cursor \in 0..Len(Posts)
      BY <1>0 DEF WorkerRows
    <2>2. batch \in Seq(Pubs) /\ cursor \in 0..Len(Posts)
      BY <1>0, <2>1, Batches
    <2>3. w' = [w EXCEPT ![x] = next] /\ m.pc = "loop"
      BY <1>1 DEF Select
    <2> HIDE DEF batch, cursor
    <2>4. next \in WorkerRows /\ next.pc = m.pc
      BY <1>0, <2>2 DEF WorkerRows
    <2> HIDE DEF next
    <2> QED BY <2>3, <2>4, Replaces DEF Visits
  <1>2. CASE Acquire(x)
    <2> DEFINE next == [m EXCEPT !.pc = "leased"]
    <2>1. w' = [w EXCEPT ![x] = next] /\ m.todo # <<>>
      BY <1>2 DEF Acquire, Goto
    <2>2. next \in WorkerRows /\ next.pc = "leased" /\ next.todo = m.todo
      BY <1>0 DEF WorkerRows
    <2> HIDE DEF next
    <2> QED BY <2>1, <2>2, Replaces DEF Visits
  <1>3. CASE Busy(x)
    <2> DEFINE next == [m EXCEPT !.todo = Tail(m.todo)]
    <2>1. w' = [w EXCEPT ![x] = next] /\ m.pc = "loop" /\ Tail(m.todo) \in Seq(Pubs)
      BY <1>3, AtWork DEF Busy
    <2>2. next \in WorkerRows /\ next.pc = "loop"
      BY <1>0, <2>1 DEF WorkerRows
    <2> HIDE DEF next
    <2> QED BY <2>1, <2>2, Replaces DEF Visits
  <1>4. CASE Read(x)
    <2>1. CASE Eligible(Job(x))
      <3> DEFINE b == pub[Job(x)]
                 next == [m EXCEPT !.pc = "next", !.revision = b.revision,
                                   !.mixed = Mixed(b.intent), !.ids = b.ids]
      <3>1. w' = [w EXCEPT ![x] = next] /\ m.pc = "leased"
        BY <1>4, <2>1 DEF Read
      <3>2. b \in Publication /\ ToSet(b.ids) = MessagesOf(Head(m.todo)) /\ m.todo # <<>>
        BY <1>0, <3>1, AtWork DEF Job, Visits
      <3>3. Mixed(b.intent) \in BOOLEAN /\ b.revision \in 0..(MaxEdits + 1) /\ b.ids \in Seq(Messages)
        BY <3>2, Rests DEF Mixed, Publication
      <3>4. next \in WorkerRows /\ next.pc = "next" /\ next.todo = m.todo /\ next.ids = b.ids
        BY <1>0, <3>3 DEF WorkerRows
      <3> HIDE DEF next
      <3> QED BY <3>1, <3>2, <3>4, Replaces DEF Visits
    <2>2. CASE ~Eligible(Job(x))
      BY <1>4, <2>2, Leaves DEF Read
    <2> QED BY <2>1, <2>2
  <1>5. CASE Refuse(x)
    BY <1>5, Leaves DEF Refuse, MessagesLeft
  <1>6. CASE Skip(x)
    <2> DEFINE place == m.next + 1
               next == [m EXCEPT !.next = place]
    <2>1. w' = [w EXCEPT ![x] = next] /\ m.pc = "next"
      BY <1>6 DEF Skip, MessagesLeft
    <2>3. place \in Nat \ {0}
      BY <1>0 DEF WorkerRows
    <2> HIDE DEF place
    <2>2. next \in WorkerRows /\ next.pc = "next" /\ next.todo = m.todo /\ next.ids = m.ids
      BY <1>0, <2>1, <2>3 DEF WorkerRows
    <2> HIDE DEF next
    <2> QED BY <1>0, <2>1, <2>2, Replaces DEF Visits
  <1>7. CASE Reserve(x)
    <2> DEFINE next == [m EXCEPT !.pc = "call"]
    <2>1. w' = [w EXCEPT ![x] = next] /\ m.pc = "next" /\ m.next <= Len(m.ids)
      BY <1>7 DEF Reserve, MessagesLeft, Goto
    <2>2. /\ next \in WorkerRows /\ next.pc = "call" /\ next.todo = m.todo /\ next.ids = m.ids
          /\ next.next = m.next
      BY <1>0 DEF WorkerRows
    <2> HIDE DEF next
    <2> QED BY <1>0, <2>1, <2>2, Replaces DEF Visits
  <1>8. CASE Delete(x)
    <2>1. PICK result \in Results : w' = [w EXCEPT ![x].pc = "mark", ![x].result = result]
      BY <1>8 DEF Delete, Results
    <2> DEFINE next == [m EXCEPT !.pc = "mark", !.result = result]
    <2>2. w' = [w EXCEPT ![x] = next] /\ m.pc = "call"
      BY <1>8, <2>1 DEF Delete
    <2>3. /\ next \in WorkerRows /\ next.pc = "mark" /\ next.todo = m.todo /\ next.ids = m.ids
          /\ next.next = m.next /\ next.result = result
      BY <1>0 DEF WorkerRows
    <2> HIDE DEF next
    <2> QED BY <1>0, <2>2, <2>3, Replaces DEF Visits
  <1>9. CASE Mark(x)
    <2>1. CASE m.result = "unknown"
      BY <1>9, <2>1, Leaves DEF Mark
    <2>2. CASE m.result # "unknown"
      <3> DEFINE own == m.own \/ m.result = "succeeded"
                 place == m.next + 1
                 next == [m EXCEPT !.pc = "next", !.next = place, !.result = "none", !.own = own]
      <3>1. w' = [w EXCEPT ![x] = next] /\ m.pc = "mark"
        BY <1>9, <2>2 DEF Mark
      <3>2. own \in BOOLEAN /\ place \in Nat \ {0}
        BY <1>0 DEF WorkerRows
      <3> HIDE DEF own, place
      <3>3. next \in WorkerRows /\ next.pc = "next" /\ next.todo = m.todo /\ next.ids = m.ids
        BY <1>0, <3>2 DEF WorkerRows
      <3> HIDE DEF next
      <3> QED BY <1>0, <3>1, <3>3, Replaces DEF Visits
    <2> QED BY <2>1, <2>2
  <1>10. CASE MarkFails(x)
    BY <1>10, Leaves DEF MarkFails
  <1>11. CASE MarkDeleted(x)
    <2>1. m.pc = "next" /\ (Leave(x) \/ w' = [w EXCEPT ![x].pc = "report"])
      BY <1>11 DEF MarkDeleted, Goto
    <2>2. CASE Leave(x)
      BY <2>1, <2>2, Leaves
    <2>3. CASE ~Leave(x)
      <3> DEFINE next == [m EXCEPT !.pc = "report"]
      <3>1. w' = [w EXCEPT ![x] = next]
        BY <2>1, <2>3
      <3>2. next \in WorkerRows /\ next.pc = "report" /\ next.todo = m.todo /\ next.ids = m.ids
        BY <1>0 DEF WorkerRows
      <3> HIDE DEF next
      <3> QED BY <1>0, <2>1, <3>1, <3>2, Replaces DEF Visits
    <2> QED BY <2>2, <2>3
  <1>12. CASE Report(x)
    BY <1>12, Leaves DEF Report
  <1>13. CASE Release(x)
    <2> DEFINE next == [RestingWorker EXCEPT !.cursor = m.cursor, !.todo = Tail(m.todo)]
    <2>1. w' = [w EXCEPT ![x] = next] /\ Tail(m.todo) \in Seq(Pubs)
      BY <1>13, AtWork DEF Release
    <2>2. next \in WorkerRows /\ next.pc = "loop"
      BY <1>0, <2>1, Rests DEF WorkerRows, RestingWorker
    <2> HIDE DEF next
    <2> QED BY <2>1, <2>2, Replaces DEF Visits
  <1>14. CASE Die(x) \/ Cancel(x)
    BY <1>14, Rests, Replaces DEF Die, Cancel
  <1> QED BY <1>1, <1>2, <1>3, <1>4, <1>5, <1>6, <1>7, <1>8, <1>9, <1>10, <1>11, <1>12, <1>13, <1>14
          DEF Work

-----------------------------------------------------------------------------
(* Edits and what they store. *)

\* The history of a publication ends with an edit.
LEMMA LastText ==
  ASSUME NEW b \in Publication, b.text # <<>>
  PROVE  Last(b.text) \in 0..MaxEdits /\ Last(b.text) \in Int
  <1>1. b.text \in Seq(0..MaxEdits)
    BY DEF Publication
  <1>2. Len(b.text) \in 1..Len(b.text)
    BY <1>1, EmptySeq
  <1>3. Last(b.text) \in 0..MaxEdits
    BY <1>1, <1>2, ElementOfSeq DEF Last
  <1> QED BY <1>3, Rests

\* A stored edit leaves the publication sound, its history ending with it.
LEMMA EditedPost ==
  ASSUME TypeInv, NEW e \in Editors, ed[e].pc = "persist",
         pub[ed[e].of].revision = ed[e].revision
  PROVE  LET p == ed[e].of
             b == Edited(pub[p], e)
         IN  /\ p \in Pubs /\ PubSound(b, p, edits)
             /\ b.revision = pub[p].revision + 1
             /\ Last(b.text) = ed[e].tag /\ Last(b.ids) = ed[e].hit
  <1> DEFINE m == ed[e]
             p == m.of
             old == pub[p]
             b == Retimed(old, m.intent)
             ids == Append(RemoveFirst(old.ids, m.hit), m.hit)
             text == Append(old.text, m.tag)
             watched == m.intent.views > 0
             revision == old.revision + 1
             new == [b EXCEPT !.revision = revision, !.ids = ids, !.intent = m.intent,
                              !.watched = watched, !.text = text]
  <1>1. m \in EditRows /\ Remembers(m, pub, edits) /\ m.pc # "idle" /\ edits \in 0..MaxEdits
    BY DEF TypeInv, EditsTyped, WorldTyped
  <1>2. /\ p \in Pubs /\ m.intent \in Intents /\ m.tag \in 1..edits /\ m.hit \in MessagesOf(p)
        /\ m.revision = old.revision /\ Last(old.text) < m.tag
    BY <1>1 DEF Remembers
  <1>3. old \in Publication /\ PubSound(old, p, edits)
    BY <1>2 DEF TypeInv, PubsTyped
  <1>4. /\ b \in Publication /\ b.ids = old.ids /\ b.text = old.text /\ b.revision = old.revision
    BY <1>3 DEF Retimed, Publication
  <1>5. new = Edited(old, e)
    BY <1>4 DEF Edited
  <1>6. m.intent.views \in Nat /\ watched \in BOOLEAN
    BY <1>2, PublishedPostAssumption
  <1>7. ids \in Seq(Messages) /\ ToSet(ids) = MessagesOf(p) /\ Last(ids) = m.hit
    <2>1. old.ids \in Seq(Messages) /\ m.hit \in ToSet(old.ids)
      BY <1>2, <1>3 DEF PubSound, Publication
    <2> QED BY <1>3, <2>1, MovedLast DEF PubSound
  <1>8. text \in Seq(0..MaxEdits) /\ text # <<>> /\ Last(text) = m.tag
    <2>1. old.text \in Seq(0..MaxEdits) /\ m.tag \in 0..MaxEdits
      BY <1>1, <1>3 DEF Publication, EditRows
    <2>2. /\ text \in Seq(0..MaxEdits) /\ Len(text) = Len(old.text) + 1
          /\ text[Len(old.text) + 1] = m.tag
      BY <2>1, AppendProperties
    <2>3. text # <<>>
      <3>1. Len(old.text) \in Nat
        BY <2>1
      <3>2. Len(text) # 0
        BY <2>2, <3>1
      <3> QED BY <2>2, <3>2, EmptySeq
    <2> QED BY <2>2, <2>3 DEF Last
  <1>9. revision \in 1..(MaxEdits + 1) /\ revision <= m.tag + 1
    <2>1. old.revision \in 1..(MaxEdits + 1) /\ old.revision <= Last(old.text) + 1
      BY <1>3 DEF PubSound, Publication
    <2>3. Last(old.text) \in 0..MaxEdits
      BY <1>3, LastText DEF PubSound
    <2> QED BY <1>1, <1>2, <2>1, <2>3, Rests
  <1> HIDE DEF ids, text, watched, revision, b, old
  <1>10. /\ new \in Publication /\ new.ids = ids /\ new.text = text /\ new.revision = revision
    BY <1>2, <1>4, <1>6, <1>7, <1>8, <1>9 DEF Publication
  <1> HIDE DEF new
  <1>11. PubSound(new, p, edits)
    BY <1>1, <1>2, <1>7, <1>8, <1>9, <1>10 DEF PubSound
  <1> QED BY <1>2, <1>5, <1>7, <1>8, <1>10, <1>11 DEF old, revision

\* An edit that goes on writes its own memory only.
LEMMA Remembering ==
  ASSUME TypeInv, NEW e \in Editors, NEW next \in EditRows,
         Remembers(next, pub, edits), ed' = [ed EXCEPT ![e] = next], UNCHANGED <<pub, edits>>
  PROVE  EditsTyped' /\ PubsTyped'
  BY DEF TypeInv, EditsTyped, PubsTyped

\* Giving up.
LEMMA GivesUp ==
  ASSUME TypeInv, NEW e \in Editors, GiveUp(e), ed[e].pc # "idle", UNCHANGED <<pub, edits>>
  PROVE  EditsTyped' /\ PubsTyped' /\ unstored' \subseteq 1..MaxEdits
  <1>1. NoEdit \in EditRows /\ Remembers(NoEdit, pub, edits)
    BY Rests DEF Remembers, NoEdit
  <1>2. ed[e].tag \in 1..MaxEdits
    BY DEF TypeInv, EditsTyped, WorldTyped, Remembers, EditRows
  <1> QED BY <1>1, <1>2, Remembering DEF GiveUp, TypeInv, WorldTyped

\* Publications and the memory of edits stay sound, whatever an edit does.
LEMMA EditStep ==
  ASSUME TypeInv, NEW e \in Editors, Edit(e)
  PROVE  PubsTyped' /\ EditsTyped' /\ WorldTyped'
  <1> DEFINE m == ed[e]
  <1>0. /\ m \in EditRows /\ Remembers(m, pub, edits) /\ edits \in 0..MaxEdits /\ MaxEdits \in Nat
        /\ MaxFaults \in Nat /\ faults \in 0..MaxFaults
    BY Rests DEF TypeInv, EditsTyped, WorldTyped
  <1>1. CASE Preflight(e)
    <2>1. PICK p \in Pubs, intent \in Payloads :
            ed' = [ed EXCEPT ![e] = [pc |-> "edit", of |-> p, revision |-> pub[p].revision,
                                     intent |-> intent, todo |-> Reverse(pub[p].ids),
                                     hit |-> 0, tag |-> edits + 1]]
      BY <1>1 DEF Preflight
    <2> DEFINE todo == Reverse(pub[p].ids)
               tag == edits + 1
               next == [pc |-> "edit", of |-> p, revision |-> pub[p].revision,
                        intent |-> intent, todo |-> todo, hit |-> 0, tag |-> tag]
    <2>2. pub[p] \in Publication /\ PubSound(pub[p], p, edits)
      BY DEF TypeInv, PubsTyped
    <2>3. todo \in Seq(Messages) /\ ToSet(todo) = MessagesOf(p)
      BY <2>2, Reversed DEF Publication, PubSound
    <2>4. tag \in 1..MaxEdits /\ edits' = tag /\ tag > edits
      BY <1>0, <1>1 DEF Preflight
    <2>5. intent \in Intents /\ intent \in [seconds : Nat, views : Nat]
      BY PublishedPostAssumption DEF Payloads
    <2>6. pub[p].revision \in 1..(MaxEdits + 1) /\ Last(pub[p].text) <= edits
      BY <2>2 DEF Publication, PubSound
    <2>7. Last(pub[p].text) \in Int
      BY <2>2, LastText DEF PubSound
    <2>8. ed' = [ed EXCEPT ![e] = next]
      BY <2>1
    <2> HIDE DEF todo, tag
    <2>14. /\ next.pc = "edit" /\ next.of = p /\ next.revision = pub[p].revision
           /\ next.intent = intent /\ next.todo = todo /\ next.tag = tag
      OBVIOUS
    <2>15. next \in EditRows
      BY <1>0, <2>3, <2>4, <2>5, <2>6 DEF EditRows
    <2> HIDE DEF next
    <2>16. Remembers(next, pub, tag)
      <3>1. pub[p].revision <= pub[p].revision /\ tag \in 1..tag /\ Last(pub[p].text) < tag
        BY <1>0, <2>4, <2>6, <2>7
      <3> QED BY <2>3, <2>5, <2>14, <3>1 DEF Remembers
    <2>9. next \in EditRows /\ Remembers(next, pub, tag)
      BY <2>15, <2>16
    <2>10. ASSUME NEW f \in Editors PROVE Remembers(ed'[f], pub', edits')
      <3>1. CASE f = e
        BY <1>1, <2>4, <2>8, <2>9, <3>1 DEF Preflight, TypeInv, EditsTyped
      <3>2. CASE f # e
        <4>1. ed'[f] = ed[f] /\ Remembers(ed[f], pub, edits) /\ ed[f] \in EditRows
          BY <2>8, <3>2 DEF TypeInv, EditsTyped
        <4>2. ed[f].tag \in 1..edits => ed[f].tag \in 1..tag
          BY <1>0, <2>4
        <4> QED BY <1>1, <2>4, <4>1, <4>2 DEF Preflight, Remembers
      <3> QED BY <3>1, <3>2
    <2>11. EditsTyped'
      BY <2>8, <2>9, <2>10 DEF TypeInv, EditsTyped
    <2>12. PubsTyped'
      <3>1. ASSUME NEW q \in Pubs PROVE PubSound(pub[q], q, tag)
        <4>1. PubSound(pub[q], q, edits) /\ pub[q] \in Publication
          BY DEF TypeInv, PubsTyped
        <4>4. Last(pub[q].text) \in 0..MaxEdits
          BY <4>1, LastText DEF PubSound
        <4> QED BY <1>0, <2>4, <4>1, <4>4 DEF PubSound
      <3> QED BY <1>1, <2>4, <3>1 DEF Preflight, TypeInv, PubsTyped
    <2>13. WorldTyped'
      <3>1. \A n \in Messages : shown[n] <= edits'
        BY <1>0, <2>4 DEF TypeInv, WorldTyped
      <3> QED BY <1>1, <2>4, <3>1 DEF Preflight, TypeInv, WorldTyped
    <2> QED BY <2>11, <2>12, <2>13
  <1>2. CASE Confirm(e)
    <2> DEFINE n == Head(m.todo)
               next == [m EXCEPT !.pc = "persist", !.hit = n]
    <2>1. /\ ed' = [ed EXCEPT ![e] = next] /\ m.pc = "edit" /\ m.todo # <<>>
          /\ shown' = [shown EXCEPT ![n] = m.tag] /\ UNCHANGED <<pub, edits>>
      BY <1>2 DEF Confirm
    <2>2. m.of \in Pubs /\ n \in MessagesOf(m.of) /\ n \in Messages /\ n \in Nat /\ m.tag \in 1..edits
      <3>1. m.todo \in Seq(Messages) /\ ToSet(m.todo) \subseteq MessagesOf(m.of) /\ m.of \in Pubs
            /\ m.tag \in 1..edits
        BY <1>0, <2>1 DEF EditRows, Remembers
      <3>2. n = m.todo[1] /\ 1 \in 1..Len(m.todo)
        BY <2>1, <3>1, EmptySeq
      <3>3. n \in ToSet(m.todo)
        BY <3>1, <3>2, ElementsOf
      <3> QED BY <3>1, <3>3, Posted
    <2> HIDE DEF n
    <2>3. /\ next \in EditRows /\ next.pc = "persist" /\ next.of = m.of /\ next.intent = m.intent
          /\ next.tag = m.tag /\ next.todo = m.todo /\ next.hit = n /\ next.revision = m.revision
      BY <1>0, <2>2 DEF EditRows
    <2> HIDE DEF next
    <2>4. Remembers(next, pub, edits)
      BY <1>0, <2>1, <2>2, <2>3 DEF Remembers
    <2>5. WorldTyped'
      <3>1. m.tag \in 0..MaxEdits /\ m.tag <= edits
        BY <1>0, <2>2
      <3>2. shown' \in [Messages -> 0..MaxEdits] /\ \A k \in Messages : shown'[k] <= edits
        BY <2>1, <2>2, <3>1 DEF TypeInv, WorldTyped
      <3> QED BY <1>2, <3>2 DEF Confirm, TypeInv, WorldTyped
    <2> QED BY <2>1, <2>3, <2>4, <2>5, Remembering
  <1>3. CASE TryNext(e)
    <2> DEFINE rest == Tail(m.todo)
               next == [m EXCEPT !.todo = rest]
    <2>1. ed' = [ed EXCEPT ![e] = next] /\ m.pc = "edit" /\ m.todo # <<>> /\ UNCHANGED <<pub, edits>>
      BY <1>3 DEF TryNext
    <2>2. rest \in Seq(Messages) /\ ToSet(rest) \subseteq ToSet(m.todo)
      <3>1. m.todo \in Seq(Messages)
        BY <1>0 DEF EditRows
      <3>2. /\ rest \in Seq(Messages) /\ Len(rest) = Len(m.todo) - 1
            /\ \A i \in 1..Len(rest) : rest[i] = m.todo[i + 1]
        BY <2>1, <3>1, HeadTailProperties
      <3>5. ToSet(rest) = {rest[i] : i \in 1..Len(rest)}
        BY <3>2, ElementsOf
      <3>6. ToSet(m.todo) = {m.todo[i] : i \in 1..Len(m.todo)}
        BY <3>1, ElementsOf
      <3>7. Len(m.todo) \in Nat
        BY <3>1
      <3>3. ToSet(rest) = {rest[i] : i \in 1..Len(rest)} /\ Len(m.todo) \in Nat
            /\ ToSet(m.todo) = {m.todo[i] : i \in 1..Len(m.todo)}
        BY <3>5, <3>6, <3>7
      <3>4. \A i \in 1..Len(rest) : i + 1 \in 1..Len(m.todo)
        BY <3>2, <3>3
      <3> QED BY <3>2, <3>3, <3>4
    <2> HIDE DEF rest
    <2>3. /\ next \in EditRows /\ next.pc = "edit" /\ next.of = m.of /\ next.intent = m.intent
          /\ next.tag = m.tag /\ next.todo = rest /\ next.revision = m.revision
      BY <1>0, <2>1, <2>2 DEF EditRows
    <2> HIDE DEF next
    <2>4. Remembers(next, pub, edits)
      BY <1>0, <2>1, <2>2, <2>3 DEF Remembers
    <2>5. WorldTyped'
      BY <1>3 DEF TryNext, TypeInv, WorldTyped
    <2> QED BY <2>1, <2>3, <2>4, <2>5, Remembering
  <1>4. CASE Unclear(e)
    <2>1. EditsTyped' /\ PubsTyped' /\ unstored' \subseteq 1..MaxEdits
      BY <1>4, GivesUp DEF Unclear
    <2>2. m.tag \in 1..edits
      BY <1>0, <1>4 DEF Unclear, Remembers
    <2>3. shown' \in [Messages -> 0..MaxEdits] /\ \A n \in Messages : shown'[n] <= edits
      BY SMTT(30), <1>0, <1>4, <2>2 DEF Unclear, TypeInv, WorldTyped
    <2> QED BY <1>0, <1>4, <2>1, <2>3 DEF Unclear, TypeInv, WorldTyped
  <1>5. CASE NoneLeft(e)
    BY <1>5, GivesUp DEF NoneLeft, TypeInv, WorldTyped
  <1>6. CASE Conflict(e)
    BY <1>6, GivesUp DEF Conflict, TypeInv, WorldTyped
  <1>7. CASE Lose(e)
    BY <1>0, <1>7, GivesUp DEF Lose, TypeInv, WorldTyped
  <1>8. CASE Persist(e)
    <2> DEFINE p == m.of
               new == Edited(pub[p], e)
    <2>1. /\ p \in Pubs /\ PubSound(new, p, edits) /\ new.revision = pub[p].revision + 1
      BY <1>8, EditedPost DEF Persist
    <2>2. /\ pub' = [pub EXCEPT ![p] = new] /\ ed' = [ed EXCEPT ![e] = NoEdit] /\ UNCHANGED edits
      BY <1>8 DEF Persist
    <2> HIDE DEF new
    <2>3. PubsTyped'
      BY <2>1, <2>2 DEF TypeInv, PubsTyped, PubSound
    <2>4. ASSUME NEW f \in Editors PROVE Remembers(ed'[f], pub', edits)
      <3>1. CASE f = e
        BY <2>2, <3>1 DEF TypeInv, EditsTyped, Remembers, NoEdit
      <3>2. CASE f # e
        <4>1. ed'[f] = ed[f] /\ Remembers(ed[f], pub, edits) /\ ed[f] \in EditRows
          BY <2>2, <3>2 DEF TypeInv, EditsTyped
        <4>2. CASE ed[f].pc = "idle"
          BY <4>1, <4>2 DEF Remembers
        <4>3. CASE ed[f].pc # "idle" /\ ed[f].of # p
          <5>1. pub'[ed[f].of] = pub[ed[f].of]
            BY <2>2, <4>1, <4>3 DEF TypeInv, PubsTyped, Remembers
          <5> QED BY <4>1, <5>1 DEF Remembers
        <4>4. CASE ed[f].pc # "idle" /\ ed[f].of = p
          <5>1. /\ pub'[p] = new /\ pub[p].revision \in Int /\ ed[f].revision \in Int
                /\ ed[f].revision <= pub[p].revision
            BY <2>1, <2>2, <4>1, <4>4 DEF TypeInv, PubsTyped, Remembers, Publication, EditRows
          <5>2. ed[f].revision <= pub'[p].revision /\ ed[f].revision # pub'[p].revision
            BY <2>1, <5>1
          <5> QED BY <4>1, <4>4, <5>2 DEF Remembers
        <4> QED BY <4>2, <4>3, <4>4
      <3> QED BY <3>1, <3>2
    <2>5. EditsTyped'
      BY <2>2, <2>4, Rests DEF TypeInv, EditsTyped
    <2>6. WorldTyped'
      BY <1>8 DEF Persist, TypeInv, WorldTyped
    <2> QED BY <2>3, <2>5, <2>6
  <1> QED BY <1>1, <1>2, <1>3, <1>4, <1>5, <1>6, <1>7, <1>8 DEF Edit

-----------------------------------------------------------------------------
(* The invariant of types. *)

\* A step that changes neither revisions, messages nor history leaves edits as they are.
LEMMA SamePosts ==
  ASSUME TypeInv, NEW p \in Pubs, NEW b \in Publication, pub' = [pub EXCEPT ![p] = b],
         b.ids = pub[p].ids, b.text = pub[p].text, b.revision = pub[p].revision,
         UNCHANGED <<ed, edits>>
  PROVE  PubsTyped' /\ EditsTyped'
  <1>1. /\ pub \in [Pubs -> Publication] /\ \A q \in Pubs : PubSound(pub[q], q, edits)
        /\ ed \in [Editors -> EditRows] /\ \A e \in Editors : Remembers(ed[e], pub, edits)
    BY DEF TypeInv, PubsTyped, EditsTyped
  <1>2. \A q \in Pubs : /\ pub'[q].revision = pub[q].revision /\ pub'[q].text = pub[q].text
                        /\ pub'[q].ids = pub[q].ids /\ pub'[q] \in Publication
    BY <1>1
  <1>3. PubsTyped'
    BY <1>1, <1>2 DEF PubsTyped, PubSound
  <1>4. ASSUME NEW e \in Editors PROVE Remembers(ed[e], pub', edits)
    BY <1>1, <1>2 DEF Remembers
  <1> QED BY <1>1, <1>3, <1>4 DEF EditsTyped

\* The row of a message is written by the worker that stands at it.
LEMMA RowWritten ==
  ASSUME TypeInv, NEW m \in Messages, NEW next \in Rows, next.state # "none",
         row' = [row EXCEPT ![m] = next]
  PROVE  row' \in [Messages -> Rows] /\ \A n \in Messages : row'[n].state = "none" => row'[n] = NoRow
  BY DEF TypeInv, LedgerTyped

\* Leases, ledger and counters stay typed, whatever a worker does.
LEMMA LedgerStep ==
  ASSUME TypeInv, NEW x \in Workers, Work(x) \/ MarkFails(x) \/ Die(x) \/ Cancel(x)
  PROVE  LedgerTyped' /\ PubsTyped' /\ EditsTyped' /\ WorldTyped'
  <1> DEFINE m == w[x]
             n == MessageAt(x)
  <1>0. /\ m \in WorkerRows /\ Visits(m) /\ MaxFaults \in Nat /\ MaxEdits \in Nat
        /\ m.pc # "loop" \/ m.todo # <<>> => Job(x) \in Pubs
        /\ m.pc \in {"call", "mark"} \/ MessagesLeft(x) => n \in Messages /\ row[n] \in Rows
    BY AtWork, Rests DEF TypeInv, LedgerTyped
  <1> HIDE DEF n
  <1>1. CASE UNCHANGED <<lease, row, calls, reports>> /\ UNCHANGED <<pub, gone, shown, queue, editing>>
             /\ (UNCHANGED faults \/ faults' \in 0..MaxFaults)
    BY <1>1 DEF editing, TypeInv, LedgerTyped, PubsTyped, EditsTyped, WorldTyped
  <1>2. CASE Select(x) \/ Busy(x) \/ Read(x) \/ Refuse(x) \/ Skip(x)
    BY <1>1, <1>2 DEF Select, Busy, Read, Refuse, Skip
  <1>3. CASE MarkFails(x) \/ Die(x)
    <2>1. faults' \in 0..MaxFaults
      BY <1>0, <1>3 DEF MarkFails, Die, TypeInv, WorldTyped
    <2> QED BY <1>1, <1>3, <2>1 DEF MarkFails, Die
  <1>4. CASE Acquire(x) \/ Release(x)
    <2>1. PICK l \in [by : Workers \cup {"nobody"}, live : BOOLEAN] :
             lease' = lease \/ lease' = [lease EXCEPT ![Job(x)] = l]
      <3>1. [by |-> x, live |-> TRUE] \in [by : Workers \cup {"nobody"}, live : BOOLEAN]
        OBVIOUS
      <3>2. NoLease \in [by : Workers \cup {"nobody"}, live : BOOLEAN]
        BY DEF NoLease
      <3> QED BY <1>4, <3>1, <3>2 DEF Acquire, Release
    <2>2. lease' \in [Pubs -> [by : Workers \cup {"nobody"}, live : BOOLEAN]]
      BY <2>1 DEF TypeInv, LedgerTyped
    <2> QED BY <1>4, <2>2 DEF Acquire, Release, editing, TypeInv, LedgerTyped, PubsTyped,
                              EditsTyped, WorldTyped
  <1>5. CASE Reserve(x)
    <2> DEFINE next == [state |-> "reserved", revision |-> m.revision]
    <2>1. n \in Messages /\ next \in Rows /\ next.state # "none" /\ row' = [row EXCEPT ![n] = next]
      BY <1>0, <1>5 DEF Reserve, WorkerRows, Rows, Ambiguous, n
    <2> HIDE DEF next
    <2>2. row' \in [Messages -> Rows] /\ \A k \in Messages : row'[k].state = "none" => row'[k] = NoRow
      BY <2>1, RowWritten
    <2> QED BY <1>5, <2>2 DEF Reserve, editing, TypeInv, LedgerTyped, PubsTyped, EditsTyped, WorldTyped
  <1>6. CASE Delete(x)
    <2>1. n \in Messages /\ gone' \subseteq Messages
      BY <1>0, <1>6 DEF Delete, Deletes, TypeInv, WorldTyped, n
    <2>2. calls' \in [Messages -> Nat]
      BY <1>6, <2>1 DEF Delete, TypeInv, LedgerTyped, n
    <2> QED BY <1>6, <2>1, <2>2 DEF Delete, editing, TypeInv, LedgerTyped, PubsTyped, EditsTyped,
                                     WorldTyped
  <1>7. CASE Mark(x)
    <2> DEFINE next == [row[n] EXCEPT !.state = m.result]
    <2>1. /\ n \in Messages /\ row[n] \in Rows /\ m.result \in Results
          /\ row' = [row EXCEPT ![n] = next]
      BY <1>0, <1>7 DEF Mark, Visits, n
    <2>2. next \in Rows /\ next.state # "none"
      BY <2>1 DEF Rows, Results, Resolved, Ambiguous
    <2> HIDE DEF next
    <2>3. row' \in [Messages -> Rows] /\ \A k \in Messages : row'[k].state = "none" => row'[k] = NoRow
      BY <2>1, <2>2, RowWritten
    <2> QED BY <1>7, <2>3 DEF Mark, editing, TypeInv, LedgerTyped, PubsTyped, EditsTyped, WorldTyped
  <1>8. CASE MarkDeleted(x)
    <2> DEFINE b == pub[Job(x)]
               watched == b.watched /\ ~m.mixed
               next == [b EXCEPT !.deleted = TRUE, !.watched = watched]
    <2>1. Job(x) \in Pubs /\ b \in Publication
      BY <1>0, <1>8 DEF MarkDeleted, TypeInv, PubsTyped
    <2>2. watched \in BOOLEAN
      BY <1>0, <2>1 DEF WorkerRows, Publication
    <2>3. UNCHANGED pub \/ pub' = [pub EXCEPT ![Job(x)] = next]
      BY <1>8 DEF MarkDeleted
    <2> HIDE DEF watched
    <2>4. /\ next \in Publication /\ next.ids = b.ids /\ next.text = b.text
          /\ next.revision = b.revision
      BY <2>1, <2>2 DEF Publication
    <2> HIDE DEF next
    <2>5. UNCHANGED <<lease, row, gone, shown, queue, calls, reports, ed, edits, unstored, faults>>
      BY <1>8 DEF MarkDeleted, editing
    <2>6. CASE UNCHANGED pub
      BY <1>1, <2>5, <2>6 DEF editing
    <2>7. CASE pub' = [pub EXCEPT ![Job(x)] = next]
      <3>1. PubsTyped' /\ EditsTyped'
        BY <2>1, <2>4, <2>5, <2>7, SamePosts
      <3> QED BY <2>5, <3>1 DEF TypeInv, LedgerTyped, WorldTyped
    <2> QED BY <2>3, <2>6, <2>7
  <1>9. CASE Report(x)
    <2>1. PICK sent \in {0, 1} : reports' = [reports EXCEPT ![Job(x)] = @ + sent]
      BY <1>9 DEF Report
    <2> DEFINE told == reports[Job(x)] + sent
    <2>2. Job(x) \in Pubs /\ reports \in [Pubs -> Nat]
      BY <1>0, <1>9 DEF Report, TypeInv, LedgerTyped
    <2>3. told \in Nat /\ reports' = [reports EXCEPT ![Job(x)] = told]
      BY <2>1, <2>2
    <2> HIDE DEF told
    <2>4. reports' \in [Pubs -> Nat]
      BY <2>2, <2>3
    <2> QED BY <1>9, <2>4 DEF Report, editing, TypeInv, LedgerTyped, PubsTyped, EditsTyped, WorldTyped
  <1>10. CASE Cancel(x)
    <2>1. n \in Messages /\ row[n] \in Rows /\ gone' \subseteq Messages
      BY <1>0, <1>10 DEF Cancel, Deletes, TypeInv, WorldTyped, n
    <2>2. calls' \in [Messages -> Nat] /\ faults' \in 0..MaxFaults
      BY <1>0, <1>10, <2>1 DEF Cancel, TypeInv, LedgerTyped, WorldTyped, n
    <2>3. PICK state \in Ambiguous : row' = [row EXCEPT ![n] = [row[n] EXCEPT !.state = state]]
      BY <1>10, <2>1 DEF Cancel, n
    <2> DEFINE next == [row[n] EXCEPT !.state = state]
    <2>4. next \in Rows /\ next.state # "none" /\ row' = [row EXCEPT ![n] = next]
      BY <2>1, <2>3 DEF Rows, Ambiguous
    <2> HIDE DEF next
    <2>5. row' \in [Messages -> Rows] /\ \A k \in Messages : row'[k].state = "none" => row'[k] = NoRow
      BY <2>1, <2>4, RowWritten
    <2> QED BY <1>10, <2>1, <2>2, <2>5 DEF Cancel, editing, TypeInv, LedgerTyped, PubsTyped,
                                            EditsTyped, WorldTyped
  <1> QED BY <1>2, <1>3, <1>4, <1>5, <1>6, <1>7, <1>8, <1>9, <1>10 DEF Work

\* TypeInv is an invariant.
LEMMA TypeInvCorrect == Spec => []TypeInv
  <1>1. ASSUME Init PROVE TypeInv
    <2>1. PICK intent \in [Pubs -> Intents], barred \in Pubs \cup {0} :
             pub = [p \in Pubs |-> Published(p, intent[p], p = barred)]
      BY <1>1 DEF Init
    <2>2. ASSUME NEW p \in Pubs PROVE pub[p] \in Publication /\ PubSound(pub[p], p, 0)
      <3> DEFINE watched == intent[p].views > 0
                 barredHere == (p = barred)
                 b == [revision |-> 1, ids |-> Posts[p], intent |-> intent[p], due |-> FALSE,
                       deleted |-> FALSE, watched |-> watched, noReplay |-> barredHere,
                       text |-> <<0>>]
      <3>1. pub[p] = b
        BY <2>1 DEF Published
      <3>2. intent[p] \in Intents /\ intent[p].views \in Nat
        BY PublishedPostAssumption
      <3>3. watched \in BOOLEAN /\ barredHere \in BOOLEAN
        BY <3>2
      <3>4. /\ <<0>> \in Seq(0..MaxEdits) /\ <<0>> # <<>> /\ Last(<<0>>) = 0
            /\ 1 \in 1..(MaxEdits + 1)
        BY Rests DEF Last
      <3> HIDE DEF watched, barredHere
      <3>5. b \in Publication /\ b.ids = Posts[p] /\ b.text = <<0>> /\ b.revision = 1
        BY <3>2, <3>3, <3>4, Posted DEF Publication
      <3> HIDE DEF b
      <3> QED BY <3>1, <3>4, <3>5, Posted DEF PubSound
    <2>3. PubsTyped
      <3>1. pub = [p \in Pubs |-> pub[p]] /\ edits = 0
        BY <1>1, <2>1 DEF Init
      <3>2. pub \in [Pubs -> Publication]
        BY <2>2, <3>1
      <3> QED BY <2>2, <3>1, <3>2 DEF PubsTyped
    <2>4. LedgerTyped
      BY <1>1, Rests DEF Init, LedgerTyped, NoLease, NoRow
    <2>5. WorkersTyped
      BY <1>1, Rests DEF Init, WorkersTyped
    <2>6. EditsTyped
      BY <1>1, Rests DEF Init, EditsTyped, Remembers, NoEdit
    <2>7. WorldTyped
      BY <1>1, Rests, EmptySeq DEF Init, WorldTyped
    <2> QED BY <2>3, <2>4, <2>5, <2>6, <2>7 DEF TypeInv
  <1>2. ASSUME TypeInv, [Next]_vars PROVE TypeInv'
    <2>1. CASE \E x \in Workers : Work(x) \/ MarkFails(x) \/ Die(x) \/ Cancel(x)
      BY <1>2, <2>1, WorkerStep, LedgerStep DEF TypeInv
    <2>2. ASSUME NEW p \in Pubs, BecomeDue(p) PROVE TypeInv'
      <3> DEFINE next == [pub[p] EXCEPT !.due = TRUE]
      <3>1. pub' = [pub EXCEPT ![p] = next]
        BY <2>2 DEF BecomeDue
      <3>2. /\ next \in Publication /\ next.ids = pub[p].ids /\ next.text = pub[p].text
            /\ next.revision = pub[p].revision
        BY <1>2 DEF TypeInv, PubsTyped, Publication
      <3> HIDE DEF next
      <3>3. PubsTyped' /\ EditsTyped'
        BY <1>2, <2>2, <3>1, <3>2, SamePosts DEF BecomeDue, editing
      <3> QED BY <1>2, <2>2, <3>3 DEF BecomeDue, deletion, editing, TypeInv, LedgerTyped, WorkersTyped,
                                      WorldTyped
    <2>3. ASSUME NEW p \in Pubs, Expire(p) \/ Outlive(p) PROVE TypeInv'
      <3>1. lease' \in [Pubs -> [by : Workers \cup {"nobody"}, live : BOOLEAN]]
        BY <1>2, <2>3 DEF Expire, Outlive, TypeInv, LedgerTyped
      <3>2. faults' \in 0..MaxFaults
        BY <1>2, <2>3, Rests DEF Expire, Outlive, TypeInv, WorldTyped
      <3> QED BY <1>2, <2>3, <3>1, <3>2 DEF Expire, Outlive, editing, TypeInv, LedgerTyped, PubsTyped,
                                            WorkersTyped, EditsTyped, WorldTyped
    <2>4. ASSUME NEW e \in Editors, Edit(e) PROVE TypeInv'
      <3>1. UNCHANGED deletion
        BY <2>4 DEF Edit, Preflight, Confirm, TryNext, Unclear, NoneLeft, Persist, Conflict, Lose
      <3>2. LedgerTyped' /\ WorkersTyped'
        BY <1>2, <3>1 DEF deletion, TypeInv, LedgerTyped, WorkersTyped
      <3> QED BY <1>2, <2>4, <3>2, EditStep DEF TypeInv
    <2>5. CASE ViewsSelect \/ ViewsAcquire
      <3>1. queue' \in Seq(Pubs)
        <4>1. CASE ViewsSelect
          <5>1. WatchedPubs \in SUBSET Pubs
            BY DEF WatchedPubs
          <5> QED BY <4>1, <5>1, Queues DEF ViewsSelect
        <4>2. CASE ViewsAcquire
          BY <1>2, <4>2, HeadTailProperties DEF ViewsAcquire, TypeInv, WorldTyped
        <4> QED BY <2>5, <4>1, <4>2
      <3> QED BY <1>2, <2>5, <3>1 DEF ViewsSelect, ViewsAcquire, deletion, editing, TypeInv, LedgerTyped,
                                      PubsTyped, WorkersTyped, EditsTyped, WorldTyped
    <2>6. CASE UNCHANGED vars
      BY <1>2, <2>6 DEF vars, deletion, editing, TypeInv, LedgerTyped, PubsTyped, WorkersTyped,
                        EditsTyped, WorldTyped
    <2> QED BY <1>2, <2>1, <2>2, <2>3, <2>4, <2>5, <2>6 DEF Next
  <1> QED BY <1>1, <1>2, PTL DEF Spec

\* Every variable has its type, for any posts, workers and edits: in particular no
\* publication has more revisions than there were edits.
THEOREM TypeCorrect == Spec => []TypeOK
  <1>1. TypeInv => TypeOK
    <2> SUFFICES ASSUME TypeInv PROVE TypeOK
      OBVIOUS
    <2>1. \A e \in Editors : ed[e].pc \in {"idle", "edit", "persist"} /\ ed[e].of \in Pubs \cup {0}
      BY DEF TypeInv, EditsTyped, EditRows
    <2>2. \A x \in Workers : w[x].pc \in {"loop", "leased", "next", "call", "mark", "report", "release"}
      BY DEF TypeInv, WorkersTyped, WorkerRows
    <2>3. pub \in [Pubs -> Publication]
      BY DEF TypeInv, PubsTyped
    <2>4. /\ lease \in [Pubs -> [by : Workers \cup {"nobody"}, live : BOOLEAN]]
          /\ row \in [Messages -> [state : {"none"} \cup Ambiguous \cup Resolved,
                                   revision : 0..(MaxEdits + 1)]]
          /\ calls \in [Messages -> Nat] /\ reports \in [Pubs -> Nat]
      BY DEF TypeInv, LedgerTyped, Rows
    <2>5. /\ gone \subseteq Messages /\ shown \in [Messages -> 0..MaxEdits] /\ queue \in Seq(Pubs)
          /\ edits \in 0..MaxEdits /\ unstored \subseteq 1..MaxEdits /\ faults \in 0..MaxFaults
      BY DEF TypeInv, WorldTyped
    <2> QED BY <2>1, <2>2, <2>3, <2>4, <2>5 DEF TypeOK
  <1> QED BY <1>1, TypeInvCorrect, PTL

-----------------------------------------------------------------------------
(* Nothing is asked for twice. *)

Stands(x) == w[x].pc \in {"call", "mark"}

\* Whoever stands at a message has reserved it, and nobody else stands there: so no one
\* has asked for it before the call.
AskedOnce ==
    /\ \A m \in Messages : calls[m] <= 1 /\ (row[m].state = "none" => calls[m] = 0)
    /\ \A x \in Workers : Stands(x) =>
          /\ row[MessageAt(x)].state = "reserved"
          /\ w[x].pc = "call" => calls[MessageAt(x)] = 0
    /\ \A x, y \in Workers : Stands(x) /\ Stands(y) /\ MessageAt(x) = MessageAt(y) => x = y

\* A worker leaves the memory of the others alone.
LEMMA OthersStay ==
  ASSUME TypeInv, NEW x \in Workers, Work(x) \/ MarkFails(x) \/ Die(x) \/ Cancel(x)
  PROVE  \A y \in Workers : y # x => w'[y] = w[y]
  <1>1. w \in [Workers -> WorkerRows]
    BY DEF TypeInv, WorkersTyped
  <1>2. CASE Select(x) \/ Busy(x) \/ Skip(x) \/ Release(x) \/ Delete(x)
    BY <1>1, <1>2 DEF Select, Busy, Skip, Release, Delete
  <1>3. CASE Acquire(x) \/ Read(x) \/ Refuse(x) \/ Reserve(x)
    BY <1>1, <1>3 DEF Acquire, Read, Refuse, Reserve, Goto, Leave
  <1>4. CASE Mark(x) \/ MarkFails(x) \/ Report(x) \/ Die(x) \/ Cancel(x)
    BY <1>1, <1>4 DEF Mark, MarkFails, Report, Die, Cancel, Leave
  <1>5. CASE MarkDeleted(x)
    BY <1>1, <1>5 DEF MarkDeleted, Goto, Leave
  <1> QED BY <1>2, <1>3, <1>4, <1>5 DEF Work

\* A worker that stands at no message afterwards and writes no row changes nothing of it.
LEMMA StepsAside ==
  ASSUME TypeInv, AskedOnce, NEW x \in Workers, w'[x].pc \notin {"call", "mark"},
         \A y \in Workers : y # x => w'[y] = w[y], UNCHANGED <<row, calls>>
  PROVE  AskedOnce'
  <1>1. \A y \in Workers : Stands(y)' => y # x /\ Stands(y) /\ w'[y] = w[y] /\ MessageAt(y)' = MessageAt(y)
    BY DEF Stands, MessageAt
  <1>2. \A y \in Workers : Stands(y)' => row'[MessageAt(y)'].state = "reserved"
    BY <1>1 DEF AskedOnce
  <1>3. \A y \in Workers : Stands(y)' /\ w'[y].pc = "call" => calls'[MessageAt(y)'] = 0
    BY <1>1 DEF AskedOnce
  <1>4. \A y, z \in Workers : Stands(y)' /\ Stands(z)' /\ MessageAt(y)' = MessageAt(z)' => y = z
    BY <1>1 DEF AskedOnce
  <1>5. \A m \in Messages : calls'[m] <= 1 /\ (row'[m].state = "none" => calls'[m] = 0)
    BY DEF AskedOnce
  <1> QED BY <1>2, <1>3, <1>4, <1>5 DEF AskedOnce

\* Where a worker stands once it has moved.
LEMMA Moves ==
  ASSUME TypeInv, NEW x \in Workers, Work(x) \/ MarkFails(x) \/ Die(x) \/ Cancel(x)
  PROVE  \/ /\ w'[x].pc \notin {"call", "mark"} /\ UNCHANGED <<row, calls>>
            /\ w'[x].pc = "report" => MarkDeleted(x)
         \/ Reserve(x) \/ Delete(x) \/ Mark(x) \/ Cancel(x)
  <1>1. w \in [Workers -> WorkerRows] /\ w[x] \in WorkerRows
    BY DEF TypeInv, WorkersTyped
  <1>2. CASE Select(x)
    <2> DEFINE batch == BatchAfter(w[x].cursor)
               cursor == IF Len(batch) < BatchSize THEN 0 ELSE Last(batch)
    <2>1. w' = [w EXCEPT ![x].todo = batch, ![x].cursor = cursor] /\ w[x].pc = "loop"
      BY <1>2 DEF Select
    <2> HIDE DEF batch, cursor
    <2>2. w'[x].pc = "loop"
      BY <1>1, <2>1 DEF WorkerRows
    <2> QED BY <1>2, <2>2 DEF Select
  <1>3. CASE Busy(x) \/ Skip(x)
    <2>1. w'[x].pc = w[x].pc /\ w[x].pc \in {"loop", "next"}
      <3>1. CASE Busy(x)
        BY <1>1, <3>1 DEF Busy, WorkerRows
      <3>2. CASE Skip(x)
        BY <1>1, <3>2 DEF Skip, MessagesLeft, WorkerRows
      <3> QED BY <1>3, <3>1, <3>2
    <2> QED BY <1>3, <2>1 DEF Busy, Skip
  <1>4. CASE Acquire(x)
    BY <1>1, <1>4 DEF Acquire, Goto, WorkerRows
  <1>5. CASE Read(x)
    <2>1. w[x].pc = "leased" /\ UNCHANGED <<row, calls>>
      BY <1>5 DEF Read
    <2>2. CASE Eligible(Job(x))
      <3>1. w'[x].pc = "next"
        BY <1>1, <1>5, <2>2 DEF Read, WorkerRows
      <3> QED BY <2>1, <3>1
    <2>3. CASE ~Eligible(Job(x))
      BY <1>5, <2>1, <2>3, Leaves DEF Read
    <2> QED BY <2>2, <2>3
  <1>6. CASE Refuse(x) \/ MarkFails(x) \/ Report(x)
    <2>1. Leave(x) /\ w[x].pc # "loop" /\ UNCHANGED <<row, calls>>
      BY <1>6 DEF Refuse, MarkFails, Report, MessagesLeft
    <2> QED BY <2>1, Leaves
  <1>7. CASE Die(x)
    BY <1>1, <1>7 DEF Die, RestingWorker
  <1>8. CASE Release(x)
    <2> DEFINE rest == Tail(w[x].todo)
    <2>1. w' = [w EXCEPT ![x] = [RestingWorker EXCEPT !.cursor = w[x].cursor, !.todo = rest]]
      BY <1>8 DEF Release
    <2> HIDE DEF rest
    <2>2. w'[x].pc = "loop"
      BY <1>1, <2>1 DEF RestingWorker
    <2> QED BY <1>8, <2>2 DEF Release
  <1>9. CASE MarkDeleted(x)
    <2>1. w[x].pc = "next" /\ (Leave(x) \/ w' = [w EXCEPT ![x].pc = "report"])
      BY <1>9 DEF MarkDeleted, Goto
    <2>2. w'[x].pc \in {"release", "report"}
      BY <1>1, <2>1, Leaves DEF WorkerRows
    <2> QED BY <1>9, <2>2 DEF MarkDeleted
  <1> QED BY <1>2, <1>3, <1>4, <1>5, <1>6, <1>7, <1>8, <1>9 DEF Work

\* A worker that marks a message goes on to the next or leaves.
LEMMA Marks ==
  ASSUME TypeInv, NEW x \in Workers, Mark(x)
  PROVE  w[x].pc = "mark" /\ w'[x].pc \in {"next", "release"}
  <1>1. w[x].pc = "mark" /\ w \in [Workers -> WorkerRows] /\ w[x] \in WorkerRows
    BY DEF Mark, TypeInv, WorkersTyped
  <1>2. CASE w[x].result = "unknown"
    BY <1>1, <1>2, Leaves DEF Mark
  <1>3. CASE w[x].result # "unknown"
    <2> DEFINE place == w[x].next + 1
               own == w[x].own \/ w[x].result = "succeeded"
    <2>1. w' = [w EXCEPT ![x].pc = "next", ![x].next = place, ![x].result = "none", ![x].own = own]
      BY <1>3 DEF Mark
    <2> HIDE DEF place, own
    <2>2. w'[x].pc = "next"
      BY <1>1, <2>1 DEF WorkerRows
    <2> QED BY <1>1, <2>2
  <1> QED BY <1>2, <1>3

\* Whatever a worker does, no message is asked for twice.
LEMMA AskStep ==
  ASSUME TypeInv, AskedOnce, NEW x \in Workers, Work(x) \/ MarkFails(x) \/ Die(x) \/ Cancel(x)
  PROVE  AskedOnce'
  <1> DEFINE n == MessageAt(x)
  <1>0. /\ \A y \in Workers : y # x => w'[y] = w[y]
        /\ w \in [Workers -> WorkerRows] /\ row \in [Messages -> Rows] /\ calls \in [Messages -> Nat]
        /\ Stands(x) \/ MessagesLeft(x) => n \in Messages /\ n \in MessagesOf(Job(x))
    BY AtWork, OthersStay DEF TypeInv, WorkersTyped, LedgerTyped, Stands
  <1>1. \A y \in Workers : Stands(y) => MessageAt(y) \in Messages
    BY AtWork DEF Stands
  <1>2. CASE w'[x].pc \notin {"call", "mark"} /\ UNCHANGED <<row, calls>>
    BY <1>0, <1>2, StepsAside
  <1> DEFINE other(y) == y \in Workers /\ y # x
  <1>3. \A y : other(y) => (Stands(y)' <=> Stands(y)) /\ MessageAt(y)' = MessageAt(y)
    BY <1>0 DEF Stands, MessageAt
  <1>4. CASE Reserve(x)
    <2>1. /\ n \in Messages /\ row[n].state = "none"
          /\ row' = [row EXCEPT ![n] = [state |-> "reserved", revision |-> w[x].revision]]
          /\ w'[x].pc = "call" /\ MessageAt(x)' = n /\ UNCHANGED calls
      BY <1>0, <1>4 DEF Reserve, MayReserve, Obstructed, Rows, Ambiguous, Resolved, Goto, MessageAt,
                        WorkerRows
    <2>2. calls[n] = 0
      BY <2>1 DEF AskedOnce
    <2>3. \A y : other(y) /\ Stands(y) => MessageAt(y) # n
      BY <2>1 DEF AskedOnce
    <2> HIDE DEF n
    <2>4. \A m \in Messages : calls'[m] <= 1 /\ (row'[m].state = "none" => calls'[m] = 0)
      BY <1>0, <2>1 DEF AskedOnce
    <2>5. ASSUME NEW y \in Workers, Stands(y)'
          PROVE  /\ row'[MessageAt(y)'].state = "reserved"
                 /\ w'[y].pc = "call" => calls'[MessageAt(y)'] = 0
      <3>1. CASE y = x
        BY <1>0, <2>1, <2>2, <3>1
      <3>2. CASE y # x
        BY <1>0, <1>1, <1>3, <2>1, <2>3, <2>5, <3>2 DEF AskedOnce
      <3> QED BY <3>1, <3>2
    <2>6. \A y, z \in Workers : Stands(y)' /\ Stands(z)' /\ MessageAt(y)' = MessageAt(z)' => y = z
      BY <1>3, <2>1, <2>3 DEF AskedOnce
    <2> QED BY <2>4, <2>5, <2>6 DEF AskedOnce
  <1>5. CASE Delete(x)
    <2>1. /\ Stands(x) /\ w[x].pc = "call" /\ calls' = [calls EXCEPT ![n] = @ + 1]
          /\ w'[x].pc = "mark" /\ MessageAt(x)' = n /\ UNCHANGED row
      BY <1>0, <1>5 DEF Delete, Stands, MessageAt, WorkerRows
    <2>2. n \in Messages /\ calls[n] = 0 /\ row[n].state = "reserved"
      BY <1>0, <2>1 DEF AskedOnce
    <2>3. \A y : other(y) /\ Stands(y) => MessageAt(y) # n
      BY <2>1 DEF AskedOnce
    <2> HIDE DEF n
    <2>7. calls' = [calls EXCEPT ![n] = 1]
      BY <2>1, <2>2
    <2>4. \A m \in Messages : calls'[m] <= 1 /\ (row'[m].state = "none" => calls'[m] = 0)
      BY <1>0, <2>1, <2>2, <2>7 DEF AskedOnce
    <2>5. ASSUME NEW y \in Workers, Stands(y)'
          PROVE  /\ row'[MessageAt(y)'].state = "reserved"
                 /\ w'[y].pc = "call" => calls'[MessageAt(y)'] = 0
      <3>1. CASE y = x
        BY <2>1, <2>2, <3>1
      <3>2. CASE y # x
        BY <1>0, <1>1, <1>3, <2>1, <2>3, <2>5, <2>7, <3>2 DEF AskedOnce
      <3> QED BY <3>1, <3>2
    <2>6. \A y, z \in Workers : Stands(y)' /\ Stands(z)' /\ MessageAt(y)' = MessageAt(z)' => y = z
      BY <1>3, <2>1, <2>3 DEF AskedOnce
    <2> QED BY <2>4, <2>5, <2>6 DEF AskedOnce
  <1>6. CASE Mark(x) \/ Cancel(x)
    <2>1. /\ Stands(x) /\ w'[x].pc \notin {"call", "mark"}
          /\ calls' = calls \/ (calls' = [calls EXCEPT ![n] = @ + 1] /\ w[x].pc = "call")
      <3>1. CASE Mark(x)
        BY <3>1, Marks DEF Mark, Stands
      <3>2. CASE Cancel(x)
        BY <1>0, <3>2 DEF Cancel, Stands, RestingWorker
      <3> QED BY <1>6, <3>1, <3>2
    <2>2. PICK state \in Results \cup {"reserved"} : row' = [row EXCEPT ![n].state = state]
      <3>1. w[x].pc = "mark" => w[x].result \in Results
        BY AtWork DEF Visits
      <3> QED BY <1>6, <3>1 DEF Mark, Cancel, Ambiguous, Results
    <2>3. n \in Messages /\ row[n].state = "reserved" /\ (w[x].pc = "call" => calls[n] = 0)
      BY <1>0, <2>1 DEF AskedOnce
    <2>4. \A y : other(y) /\ Stands(y) => MessageAt(y) # n
      BY <2>1 DEF AskedOnce
    <2> HIDE DEF n
    <2>5. /\ \A m \in Messages : m # n => row'[m] = row[m] /\ calls'[m] = calls[m]
          /\ row'[n].state # "none" /\ calls'[n] <= 1
      <3>1. row'[n].state = state
        BY <1>0, <2>2, <2>3 DEF Rows
      <3>2. calls[n] <= 1 /\ calls'[n] <= 1
        BY <1>0, <2>1, <2>3 DEF AskedOnce
      <3> QED BY <1>0, <2>1, <2>2, <3>1, <3>2 DEF Results, Resolved
    <2>6. \A m \in Messages : calls'[m] <= 1 /\ (row'[m].state = "none" => calls'[m] = 0)
      BY <2>5 DEF AskedOnce
    <2>7. \A y \in Workers : Stands(y)' => other(y) /\ Stands(y) /\ MessageAt(y)' = MessageAt(y)
                                           /\ w'[y] = w[y] /\ MessageAt(y) \in Messages /\ MessageAt(y) # n
      BY <1>0, <1>1, <1>3, <2>1, <2>4 DEF Stands
    <2>8. \A y \in Workers : Stands(y)' =>
             row'[MessageAt(y)'].state = "reserved" /\ (w'[y].pc = "call" => calls'[MessageAt(y)'] = 0)
      BY <2>5, <2>7 DEF AskedOnce
    <2>9. \A y, z \in Workers : Stands(y)' /\ Stands(z)' /\ MessageAt(y)' = MessageAt(z)' => y = z
      BY <2>7 DEF AskedOnce
    <2> QED BY <2>6, <2>8, <2>9 DEF AskedOnce
  <1> QED BY <1>2, <1>4, <1>5, <1>6, Moves

\* What a step of anyone but a worker leaves alone.
LEMMA OthersStep ==
  ASSUME [Next]_vars
  PROVE  \/ \E x \in Workers : Work(x) \/ MarkFails(x) \/ Die(x) \/ Cancel(x)
         \/ UNCHANGED <<row, w, calls, reports>>
  <1>1. CASE \E p \in Pubs : BecomeDue(p) \/ Expire(p) \/ Outlive(p)
    BY <1>1 DEF BecomeDue, Expire, Outlive, deletion
  <1>2. CASE \E e \in Editors : Edit(e)
    BY <1>2 DEF Edit, Preflight, Confirm, TryNext, Unclear, NoneLeft, Persist, Conflict, Lose, deletion
  <1>3. CASE ViewsSelect \/ ViewsAcquire \/ UNCHANGED vars
    BY <1>3 DEF ViewsSelect, ViewsAcquire, vars, deletion
  <1> QED BY <1>1, <1>2, <1>3 DEF Next

\* Every message of the post is accounted for, under an authority that no longer is one.
Settled(p) ==
    \A m \in MessagesOf(p) :
       /\ row[m].state \in Resolved
       /\ \/ row[m].revision < pub[p].revision
          \/ row[m].revision = pub[p].revision /\ pub[p].deleted

\* A report belongs to a publication that is settled, and there is one worker to send it.
ToldOnce ==
    /\ \A p \in Pubs : reports[p] <= 1 /\ (reports[p] > 0 => Settled(p))
    /\ \A x \in Workers : w[x].pc = "report" => reports[Job(x)] = 0 /\ Settled(Job(x))
    /\ \A x, y \in Workers :
          w[x].pc = "report" /\ w[y].pc = "report" /\ Job(x) = Job(y) => x = y

\* A row that is resolved stays as it is: it is not reserved again, and whoever stands at
\* a message stands at one that is not resolved.
LEMMA ResolvedStays ==
  ASSUME TypeInv, AskedOnce, [Next]_vars, NEW m \in Messages, row[m].state \in Resolved
  PROVE  row'[m] = row[m]
  <1>1. CASE UNCHANGED row
    BY <1>1
  <1>2. ASSUME NEW x \in Workers, Reserve(x) \/ Delete(x) \/ Mark(x) \/ Cancel(x)
        PROVE  row'[m] = row[m]
    <2>1. CASE Delete(x)
      BY <2>1 DEF Delete
    <2>2. CASE Reserve(x)
      BY <2>2 DEF Reserve
    <2>3. CASE Mark(x) \/ Cancel(x)
      <3>1. Stands(x)
        BY <2>3 DEF Mark, Cancel, Stands
      <3>2. MessageAt(x) # m
        BY <3>1 DEF AskedOnce, Resolved
      <3>3. PICK next : row' = [row EXCEPT ![MessageAt(x)] = next]
        BY <2>3 DEF Mark, Cancel
      <3> QED BY <3>2, <3>3 DEF TypeInv, LedgerTyped
    <2> QED BY <1>2, <2>1, <2>2, <2>3
  <1> QED BY <1>1, <1>2, OthersStep, Moves

\* A revision is never taken back, and within one a deletion is not.
LEMMA Advances ==
  ASSUME TypeInv, [Next]_vars, NEW p \in Pubs
  PROVE  \/ pub'[p].revision = pub[p].revision + 1
         \/ pub'[p].revision = pub[p].revision /\ (pub[p].deleted => pub'[p].deleted)
  <1>0. pub \in [Pubs -> Publication]
    BY DEF TypeInv, PubsTyped
  <1>1. CASE UNCHANGED pub
    BY <1>1
  <1>2. ASSUME NEW q \in Pubs, BecomeDue(q)
        PROVE  pub'[p].revision = pub[p].revision /\ pub'[p].deleted = pub[p].deleted
    <2>1. pub' = [pub EXCEPT ![q] = [pub[q] EXCEPT !.due = TRUE]]
      BY <1>2 DEF BecomeDue
    <2> QED BY <1>0, <2>1 DEF Publication
  <1>3. ASSUME NEW x \in Workers, MarkDeleted(x)
        PROVE  pub'[p].revision = pub[p].revision /\ (pub[p].deleted => pub'[p].deleted)
    <2> DEFINE watched == pub[Job(x)].watched /\ ~w[x].mixed
               next == [pub[Job(x)] EXCEPT !.deleted = TRUE, !.watched = watched]
    <2>1. UNCHANGED pub \/ pub' = [pub EXCEPT ![Job(x)] = next]
      BY <1>3 DEF MarkDeleted
    <2>2. Job(x) \in Pubs /\ pub[Job(x)] \in Publication
      BY <1>3, AtWork DEF MarkDeleted
    <2> HIDE DEF watched
    <2>3. next.revision = pub[Job(x)].revision /\ next.deleted
      BY <2>2 DEF Publication
    <2> HIDE DEF next
    <2> QED BY <1>0, <2>1, <2>2, <2>3
  <1>4. ASSUME NEW e \in Editors, Persist(e)
        PROVE  pub'[p] = pub[p] \/ pub'[p].revision = pub[p].revision + 1
    <2> DEFINE new == Edited(pub[ed[e].of], e)
    <2>1. pub' = [pub EXCEPT ![ed[e].of] = new]
      BY <1>4 DEF Persist
    <2>2. ed[e].of \in Pubs /\ new.revision = pub[ed[e].of].revision + 1
      BY <1>4, EditedPost DEF Persist
    <2> HIDE DEF new
    <2> QED BY <1>0, <2>1, <2>2
  <1>5. \/ UNCHANGED pub
        \/ \E q \in Pubs : BecomeDue(q)
        \/ \E x \in Workers : MarkDeleted(x)
        \/ \E e \in Editors : Persist(e)
    <2>1. ASSUME NEW x \in Workers, Work(x) \/ MarkFails(x) \/ Die(x) \/ Cancel(x)
          PROVE  UNCHANGED pub \/ MarkDeleted(x)
      BY <2>1 DEF Work, Select, Acquire, Busy, Read, Refuse, Skip, Reserve, Delete, Mark, Report,
                  Release, MarkFails, Die, Cancel
    <2>2. ASSUME NEW e \in Editors, Edit(e) PROVE UNCHANGED pub \/ Persist(e)
      BY <2>2 DEF Edit, Preflight, Confirm, TryNext, Unclear, NoneLeft, Conflict, Lose
    <2>3. ASSUME NEW q \in Pubs, Expire(q) \/ Outlive(q) PROVE UNCHANGED pub
      BY <2>3 DEF Expire, Outlive
    <2>4. CASE ViewsSelect \/ ViewsAcquire \/ UNCHANGED vars
      BY <2>4 DEF ViewsSelect, ViewsAcquire, vars
    <2> QED BY <2>1, <2>2, <2>3, <2>4 DEF Next
  <1> QED BY <1>1, <1>2, <1>3, <1>4, <1>5

\* What is settled stays settled.
LEMMA SettledStays ==
  ASSUME TypeInv, AskedOnce, [Next]_vars, NEW p \in Pubs, Settled(p)
  PROVE  Settled(p)'
  <1>1. \A m \in MessagesOf(p) : row'[m] = row[m] /\ row[m] \in Rows
    BY ResolvedStays, Posted DEF Settled, TypeInv, LedgerTyped
  <1>2. pub[p].revision \in Int
    BY DEF TypeInv, PubsTyped, Publication
  <1>3. ASSUME NEW m \in MessagesOf(p)
        PROVE  /\ row'[m].state \in Resolved
               /\ \/ row'[m].revision < pub'[p].revision
                  \/ row'[m].revision = pub'[p].revision /\ pub'[p].deleted
    <2>1. row[m].revision \in Int /\ row'[m] = row[m] /\ row[m].state \in Resolved
      BY <1>1, Rests DEF Rows, Settled
    <2>2. \/ row[m].revision < pub[p].revision
          \/ row[m].revision = pub[p].revision /\ pub[p].deleted
      BY DEF Settled
    <2> QED BY <1>2, <2>1, <2>2, Advances
  <1> QED BY <1>3 DEF Settled

\* Whoever comes to tell the owner is the first to, and the post is settled.
LEMMA ComesToTell ==
  ASSUME TypeInv, NEW x \in Workers, MarkDeleted(x), w'[x].pc = "report",
         NEW p \in Pubs, p = Job(x)
  PROVE  ~Settled(p) /\ Settled(p)' /\ Job(x)' = p
  <1> DEFINE m == w[x]
             watched == pub[p].watched /\ ~m.mixed
             next == [pub[p] EXCEPT !.deleted = TRUE, !.watched = watched]
  <1>1. m.pc = "next" /\ m \in WorkerRows /\ w \in [Workers -> WorkerRows] /\ UNCHANGED row
    BY DEF MarkDeleted, TypeInv, WorkersTyped
  <1>2. p \in Pubs /\ pub[p] \in Publication /\ ToSet(m.ids) = MessagesOf(p)
        /\ pub \in [Pubs -> Publication]
    BY <1>1, AtWork DEF Visits, Job, TypeInv, PubsTyped
  <1>3. ~Leave(x)
    BY <1>1, Leaves
  <1>4. /\ StillCurrent(x) /\ Accounted(x) /\ pub' = [pub EXCEPT ![p] = next]
        /\ w' = [w EXCEPT ![x].pc = "report"]
    BY <1>3 DEF MarkDeleted, Goto
  <1> HIDE DEF watched
  <1>5. next.deleted /\ next.revision = pub[p].revision
    BY <1>2 DEF Publication
  <1> HIDE DEF next
  <1>6. pub'[p].deleted /\ pub'[p].revision = pub[p].revision
    BY <1>2, <1>4, <1>5
  <1>7. Job(x)' = p
    BY <1>1, <1>4 DEF Job, WorkerRows
  <1>8. \A n \in MessagesOf(p) : row'[n].state \in Resolved /\ row'[n].revision = pub[p].revision
    BY <1>1, <1>2, <1>4 DEF StillCurrent, Accounted
  <1>9. ~Settled(p)
    <2>1. ~pub[p].deleted /\ pub[p].revision \in Int
      BY <1>2, <1>4 DEF StillCurrent, Eligible, Publication
    <2>2. \E n \in MessagesOf(p) : TRUE
      BY <1>2, Posted
    <2> QED BY <1>1, <1>8, <2>1, <2>2 DEF Settled
  <1>10. Settled(p)'
    BY <1>6, <1>8 DEF Settled
  <1> QED BY <1>7, <1>9, <1>10

\* Whatever happens, the owner is told at most once.
LEMMA TellStep ==
  ASSUME TypeInv, AskedOnce, ToldOnce, [Next]_vars
  PROVE  ToldOnce'
  <1>0. /\ w \in [Workers -> WorkerRows] /\ reports \in [Pubs -> Nat]
        /\ \A x \in Workers : w[x].pc = "report" => Job(x) \in Pubs
        /\ \A p \in Pubs : Settled(p) => Settled(p)'
    BY AtWork, SettledStays DEF TypeInv, WorkersTyped, LedgerTyped
  <1>1. CASE UNCHANGED <<w, reports>>
    <2>1. \A x \in Workers : w'[x] = w[x] /\ Job(x)' = Job(x)
      BY <1>1 DEF Job
    <2>2. ASSUME NEW x \in Workers, w'[x].pc = "report"
          PROVE  reports'[Job(x)'] = 0 /\ Settled(Job(x))'
      <3>1. PICK p \in Pubs : p = Job(x)
        BY <1>0, <2>1, <2>2
      <3>2. reports[p] = 0 /\ Settled(p)'
        BY <1>0, <2>1, <2>2, <3>1 DEF ToldOnce
      <3>3. Job(x)' = p
        BY <2>1, <3>1
      <3> QED BY <1>1, <3>2, <3>3 DEF Settled
    <2> QED BY <1>0, <1>1, <2>1, <2>2 DEF ToldOnce
  <1>2. ASSUME NEW x \in Workers, Work(x) \/ MarkFails(x) \/ Die(x) \/ Cancel(x)
        PROVE  ToldOnce'
    <2>0. \A y \in Workers : y # x => w'[y] = w[y] /\ Job(y)' = Job(y)
      BY <1>2, OthersStay DEF Job
    <2>1. w'[x].pc = "report" => MarkDeleted(x)
      <3>1. CASE Reserve(x) \/ Delete(x) \/ Cancel(x)
        BY <1>0, <3>1 DEF Reserve, Delete, Cancel, Goto, RestingWorker, WorkerRows
      <3>2. CASE Mark(x)
        BY <3>2, Marks
      <3> QED BY <1>2, <3>1, <3>2, Moves
    <2>2. UNCHANGED reports \/ Report(x)
      BY <1>2 DEF Work, Select, Acquire, Busy, Read, Refuse, Skip, Reserve, Delete, Mark, MarkDeleted,
                  Release, MarkFails, Die, Cancel
    <2>3. CASE w'[x].pc # "report" /\ UNCHANGED reports
      <3>1. ASSUME NEW y \in Workers, w'[y].pc = "report"
            PROVE  reports'[Job(y)'] = 0 /\ Settled(Job(y))'
        <4>1. y # x /\ w'[y] = w[y] /\ Job(y)' = Job(y)
          BY <2>0, <2>3, <3>1
        <4>2. PICK p \in Pubs : p = Job(y)
          BY <1>0, <3>1, <4>1
        <4>3. reports[p] = 0 /\ Settled(p)'
          BY <1>0, <3>1, <4>1, <4>2 DEF ToldOnce
        <4>4. Job(y)' = p
          BY <4>1, <4>2
        <4> QED BY <2>3, <4>3, <4>4 DEF Settled
      <3>2. \A y, z \in Workers :
               w'[y].pc = "report" /\ w'[z].pc = "report" /\ Job(y)' = Job(z)' => y = z
        BY <2>0, <2>3 DEF ToldOnce
      <3> QED BY <1>0, <2>3, <3>1, <3>2 DEF ToldOnce
    <2>4. CASE w'[x].pc = "report" /\ UNCHANGED reports
      <3>0. MarkDeleted(x) /\ w[x].pc = "next"
        BY <2>1, <2>4 DEF MarkDeleted
      <3>1. PICK p \in Pubs : p = Job(x)
        BY <3>0, AtWork
      <3>2. ~Settled(p) /\ Settled(p)' /\ Job(x)' = p
        BY <2>4, <3>0, <3>1, ComesToTell
      <3>3. reports[p] = 0
        BY <1>0, <3>2 DEF ToldOnce
      <3>4. ASSUME NEW y \in Workers, y # x, w'[y].pc = "report"
            PROVE  reports'[Job(y)'] = 0 /\ Settled(Job(y))' /\ Job(y)' # p
        <4>1. w'[y] = w[y] /\ Job(y)' = Job(y)
          BY <2>0, <3>4
        <4>2. PICK q \in Pubs : q = Job(y)
          BY <1>0, <3>4, <4>1
        <4>3. reports[q] = 0 /\ Settled(q) /\ Settled(q)'
          BY <1>0, <3>4, <4>1, <4>2 DEF ToldOnce
        <4>4. Job(y)' = q
          BY <4>1, <4>2
        <4> QED BY <2>4, <3>2, <4>3, <4>4 DEF Settled
      <3>5. reports'[Job(x)'] = 0 /\ Settled(Job(x))'
        BY <2>4, <3>2, <3>3 DEF Settled
      <3>6. \A y, z \in Workers :
               w'[y].pc = "report" /\ w'[z].pc = "report" /\ Job(y)' = Job(z)' => y = z
        BY <2>0, <3>2, <3>4 DEF ToldOnce
      <3>7. \A p1 \in Pubs : reports'[p1] <= 1 /\ (reports'[p1] > 0 => Settled(p1)')
        BY <1>0, <2>4 DEF ToldOnce
      <3> QED BY <3>4, <3>5, <3>6, <3>7 DEF ToldOnce
    <2>5. CASE Report(x)
      <3>0. w[x].pc = "report" /\ w'[x].pc = "release"
        BY <2>5, Leaves DEF Report
      <3>1. PICK p \in Pubs : p = Job(x)
        BY <1>0, <3>0
      <3>2. reports[p] = 0 /\ Settled(p) /\ Settled(p)'
        BY <1>0, <3>0, <3>1 DEF ToldOnce
      <3>3. PICK sent \in {0, 1} : reports' = [reports EXCEPT ![p] = sent]
        <4>1. PICK s \in {0, 1} : reports' = [reports EXCEPT ![p] = @ + s]
          BY <2>5, <3>1 DEF Report
        <4>2. reports[p] + s = s
          BY <3>2, <4>1
        <4>3. reports' = [reports EXCEPT ![p] = s]
          BY <4>1, <4>2
        <4> QED BY <4>3
      <3>4. ASSUME NEW y \in Workers, w'[y].pc = "report"
            PROVE  reports'[Job(y)'] = 0 /\ Settled(Job(y))'
        <4>1. y # x /\ w'[y] = w[y] /\ Job(y)' = Job(y)
          BY <2>0, <3>0, <3>4
        <4>2. PICK q \in Pubs : q = Job(y)
          BY <1>0, <3>4, <4>1
        <4>3. reports[q] = 0 /\ Settled(q)' /\ q # p
          BY <1>0, <3>0, <3>1, <3>4, <4>1, <4>2 DEF ToldOnce
        <4>4. Job(y)' = q
          BY <4>1, <4>2
        <4> QED BY <1>0, <3>3, <4>3, <4>4 DEF Settled
      <3>5. \A y, z \in Workers :
               w'[y].pc = "report" /\ w'[z].pc = "report" /\ Job(y)' = Job(z)' => y = z
        BY <2>0, <3>0 DEF ToldOnce
      <3>6. \A q \in Pubs : reports'[q] <= 1 /\ (reports'[q] > 0 => Settled(q)')
        BY <1>0, <3>2, <3>3 DEF ToldOnce
      <3> QED BY <3>4, <3>5, <3>6 DEF ToldOnce
    <2> QED BY <2>2, <2>3, <2>4, <2>5
  <1> QED BY <1>1, <1>2, OthersStep

\* What DeletedOnce needs.
LEMMA OnceCorrect == Spec => [](TypeInv /\ AskedOnce /\ ToldOnce)
  <1>1. ASSUME Init PROVE AskedOnce /\ ToldOnce
    <2>1. \A x \in Workers : w[x].pc = "loop"
      BY <1>1 DEF Init, RestingWorker
    <2>2. /\ \A m \in Messages : row[m].state = "none" /\ calls[m] = 0
          /\ \A p \in Pubs : reports[p] = 0
      BY <1>1 DEF Init, NoRow
    <2> QED BY <2>1, <2>2 DEF AskedOnce, ToldOnce, Stands
  <1>2. ASSUME TypeInv, AskedOnce, ToldOnce, [Next]_vars PROVE AskedOnce' /\ ToldOnce'
    <2>1. CASE UNCHANGED <<row, w, calls, reports>>
      BY <1>2, <2>1, TellStep DEF AskedOnce, Stands, MessageAt
    <2> QED BY <1>2, <2>1, AskStep, TellStep, OthersStep
  <1> QED BY <1>1, <1>2, TypeInvCorrect, PTL DEF Spec

\* No message is asked for twice and no owner told twice, whichever workers lease the
\* publication, die, are cancelled or come late, and whatever is edited meanwhile.
THEOREM DeletionHappensOnce == Spec => []DeletedOnce
  <1>1. ASSUME TypeInv, AskedOnce, ToldOnce PROVE DeletedOnce
    <2>1. \A m \in Messages : calls[m] <= 1
      BY <1>1 DEF AskedOnce
    <2>2. \A p \in Pubs : /\ reports[p] <= 1
                          /\ reports[p] = 1 => \A m \in MessagesOf(p) : row[m].state \in Resolved
      BY <1>1 DEF ToldOnce, Settled
    <2> QED BY <2>1, <2>2 DEF DeletedOnce
  <1> QED BY <1>1, OnceCorrect, PTL

\* A message that nobody has reserved is reserved only under the authority that is then
\* in force.
THEOREM ReservedUnderAuthority == Spec => NothingReservedAfterwards
  <1>1. ASSUME TypeInv, AskedOnce, [Next]_vars, NEW p \in Pubs, NEW m \in MessagesOf(p),
               row[m] = NoRow, row'[m] # NoRow
        PROVE  Eligible(p) /\ row'[m].revision = pub[p].revision
    <2>1. m \in Messages /\ row[m].state = "none" /\ row \in [Messages -> Rows]
      BY <1>1, Posted DEF NoRow, TypeInv, LedgerTyped
    <2>2. PICK x \in Workers : Reserve(x) \/ Mark(x) \/ Cancel(x)
      BY <1>1, OthersStep, Moves DEF Delete
    <2>3. CASE Mark(x) \/ Cancel(x)
      <3>1. Stands(x)
        BY <2>3 DEF Mark, Cancel, Stands
      <3>2. MessageAt(x) # m
        BY <1>1, <2>1, <3>1 DEF AskedOnce
      <3>3. PICK next : row' = [row EXCEPT ![MessageAt(x)] = next]
        BY <2>3 DEF Mark, Cancel
      <3> QED BY <1>1, <2>1, <3>2, <3>3
    <2>4. CASE Reserve(x)
      <3>1. /\ MessagesLeft(x) /\ StillCurrent(x)
            /\ row' = [row EXCEPT ![MessageAt(x)] = [state |-> "reserved", revision |-> w[x].revision]]
        BY <2>4 DEF Reserve, MayReserve
      <3>2. MessageAt(x) = m
        BY <1>1, <2>1, <3>1
      <3>3. Job(x) = p
        BY <1>1, <3>1, <3>2, AtWork, Posted DEF MessagesLeft
      <3> QED BY <2>1, <3>1, <3>2, <3>3 DEF StillCurrent
    <2> QED BY <2>2, <2>3, <2>4
  <1>2. ASSUME TypeInv, AskedOnce, [Next]_vars
        PROVE  [\A p \in Pubs : \A m \in MessagesOf(p) :
                  row[m] = NoRow /\ row'[m] # NoRow =>
                     /\ Eligible(p) /\ row'[m].revision = pub[p].revision]_vars
    BY <1>1, <1>2
  <1> QED BY <1>2, OnceCorrect, PTL DEF Spec, NothingReservedAfterwards

-----------------------------------------------------------------------------
(* What the channel shows. *)

\* Why a message may read otherwise than its publication is stored: it is gone, what was
\* written to it failed and that is out, or an edit of S is still under way.
Excused(m, S) ==
    \/ m \in gone
    \/ shown[m] \in unstored
    \/ \E f \in S : Active(f) /\ ed[f].tag = shown[m]

\* Each edit has a tag of its own and writes to its own post only, and one that would be
\* stored finds in the channel what it wrote, unless that is excused by others.
Signed ==
    /\ \A e, f \in Editors : Active(e) /\ Active(f) /\ ed[e].tag = ed[f].tag => e = f
    /\ \A e \in Editors, m \in Messages :
          Active(e) /\ shown[m] = ed[e].tag => m \in MessagesOf(ed[e].of)
    /\ \A e \in Editors :
          ed[e].pc = "persist" /\ ed[e].revision = pub[ed[e].of].revision =>
             shown[ed[e].hit] = ed[e].tag \/ Excused(ed[e].hit, Editors \ {e})

ShownInv ==
    \A p \in Pubs : \/ shown[Last(pub[p].ids)] = Last(pub[p].text)
                    \/ Excused(Last(pub[p].ids), Editors)

\* The message an edit was confirmed for is one of the post's.
LEMMA LastMessage ==
  ASSUME TypeInv, NEW p \in Pubs
  PROVE  Last(pub[p].ids) \in MessagesOf(p) /\ Last(pub[p].ids) \in Messages
  <1>1. pub[p] \in Publication /\ ToSet(pub[p].ids) = MessagesOf(p)
    BY DEF TypeInv, PubsTyped, PubSound
  <1>2. pub[p].ids \in Seq(Messages) /\ ToSet(pub[p].ids) # {} /\ MessagesOf(p) \subseteq Messages
    BY <1>1, Posted DEF Publication
  <1>3. ToSet(pub[p].ids) = {pub[p].ids[i] : i \in 1..Len(pub[p].ids)} /\ Len(pub[p].ids) \in Nat
    BY <1>2, ElementsOf
  <1>4. Len(pub[p].ids) \in 1..Len(pub[p].ids)
    BY <1>2, <1>3
  <1> QED BY <1>1, <1>2, <1>3, <1>4 DEF Last

\* A step that changes no edit, no text and no revision, and loses messages at most.
LEMMA NothingEdited ==
  ASSUME TypeInv, Signed, ShownInv, UNCHANGED <<shown, ed, unstored>>, gone \subseteq gone',
         \A p \in Pubs : /\ pub'[p].ids = pub[p].ids /\ pub'[p].text = pub[p].text
                         /\ pub'[p].revision = pub[p].revision
  PROVE  Signed' /\ ShownInv'
  <1>0. \A e \in Editors : (Active(e)' <=> Active(e)) /\ (Active(e) => ed[e].of \in Pubs)
    BY DEF Active, TypeInv, EditsTyped, Remembers
  <1>1. ASSUME NEW e \in Editors, ed'[e].pc = "persist", ed'[e].revision = pub'[ed'[e].of].revision
        PROVE  shown'[ed'[e].hit] = ed'[e].tag \/ Excused(ed[e].hit, Editors \ {e})'
    <2>1. ed[e].of \in Pubs
      BY <1>0, <1>1 DEF Active
    <2>2. shown[ed[e].hit] = ed[e].tag \/ Excused(ed[e].hit, Editors \ {e})
      BY <1>1, <2>1 DEF Signed
    <2> QED BY <2>2 DEF Excused, Active
  <1>2. ASSUME NEW p \in Pubs
        PROVE  \/ shown'[Last(pub'[p].ids)] = Last(pub'[p].text)
               \/ Excused(Last(pub[p].ids), Editors)'
    <2> DEFINE l == Last(pub[p].ids)
    <2>1. Last(pub'[p].ids) = l /\ Last(pub'[p].text) = Last(pub[p].text)
      OBVIOUS
    <2>2. shown[l] = Last(pub[p].text) \/ Excused(l, Editors)
      BY DEF ShownInv
    <2> HIDE DEF l
    <2> QED BY <2>1, <2>2 DEF Excused, Active
  <1> QED BY <1>0, <1>1, <1>2 DEF Signed, ShownInv

\* An edit that gives up says so, whatever it wrote.
LEMMA GivingUp ==
  ASSUME TypeInv, Signed, ShownInv, NEW e \in Editors, Active(e), GiveUp(e),
         UNCHANGED <<pub, gone>>,
         \/ shown' = shown
         \/ \E n \in Messages : shown' = [shown EXCEPT ![n] = ed[e].tag]
  PROVE  Signed' /\ ShownInv'
  <1>0. /\ ed \in [Editors -> EditRows] /\ shown \in [Messages -> 0..MaxEdits]
        /\ \A f \in Editors : Active(f) => ed[f].of \in Pubs
        /\ \A f \in Editors : ed[f].pc = "persist" => ed[f].hit \in Messages
    BY Posted DEF TypeInv, EditsTyped, WorldTyped, Remembers, Active
  <1>1. /\ ed'[e].pc = "idle" /\ \A f \in Editors : f # e => ed'[f] = ed[f]
        /\ unstored' = unstored \cup {ed[e].tag}
    BY <1>0 DEF GiveUp, NoEdit
  <1>2. \A f \in Editors : f # e => (Active(f)' <=> Active(f))
    BY <1>1 DEF Active
  <1>3. \A m \in Messages : shown'[m] = shown[m] \/ shown'[m] \in unstored'
    BY <1>0, <1>1
  <1>4. ASSUME NEW m \in Messages, NEW S \in SUBSET Editors, Excused(m, S) \/ shown'[m] # shown[m]
        PROVE  Excused(m, S)'
    <2>1. CASE shown'[m] # shown[m]
      BY <1>3, <2>1 DEF Excused
    <2>2. CASE shown'[m] = shown[m] /\ (m \in gone \/ shown[m] \in unstored)
      BY <1>1, <2>2 DEF Excused
    <2>3. ASSUME shown'[m] = shown[m], NEW f \in S, Active(f), ed[f].tag = shown[m]
          PROVE  Excused(m, S)'
      <3>1. CASE f = e
        BY <1>1, <2>3, <3>1 DEF Excused
      <3>2. CASE f # e
        <4>1. Active(f)' /\ ed'[f].tag = shown'[m]
          BY <1>1, <1>2, <2>3, <3>2
        <4> QED BY <4>1 DEF Excused
      <3> QED BY <3>1, <3>2
    <2> QED BY <1>4, <2>1, <2>2, <2>3 DEF Excused
  <1>5. ASSUME NEW f \in Editors, ed'[f].pc = "persist", ed'[f].revision = pub'[ed'[f].of].revision
        PROVE  shown'[ed'[f].hit] = ed'[f].tag \/ Excused(ed[f].hit, Editors \ {f})'
    <2>1. f # e /\ ed'[f] = ed[f] /\ ed[f].hit \in Messages
      BY <1>0, <1>1, <1>5
    <2>2. shown[ed[f].hit] = ed[f].tag \/ Excused(ed[f].hit, Editors \ {f})
      BY <1>5, <2>1 DEF Signed
    <2> QED BY <1>4, <2>1, <2>2
  <1>6. ASSUME NEW p \in Pubs
        PROVE  \/ shown'[Last(pub'[p].ids)] = Last(pub'[p].text)
               \/ Excused(Last(pub[p].ids), Editors)'
    <2> DEFINE l == Last(pub[p].ids)
    <2>1. Last(pub'[p].ids) = l /\ Last(pub'[p].text) = Last(pub[p].text) /\ l \in Messages
      BY LastMessage
    <2>2. shown[l] = Last(pub[p].text) \/ Excused(l, Editors)
      BY DEF ShownInv
    <2> HIDE DEF l
    <2> QED BY <1>4, <2>1, <2>2
  <1>7. ASSUME NEW f \in Editors, NEW m \in Messages, Active(f)', shown'[m] = ed'[f].tag
        PROVE  m \in MessagesOf(ed'[f].of)
    <2>1. f # e /\ ed'[f] = ed[f] /\ Active(f) /\ Active(e)
      BY <1>1, <1>2, <1>7 DEF Active
    <2>2. shown'[m] = shown[m] \/ shown'[m] = ed[e].tag
      BY <1>0
    <2> QED BY <1>7, <2>1, <2>2 DEF Signed
  <1>8. \A f, g \in Editors : Active(f)' /\ Active(g)' /\ ed'[f].tag = ed'[g].tag => f = g
    <2>1. \A f \in Editors : Active(f)' => f # e /\ ed'[f] = ed[f] /\ Active(f)
      BY <1>1, <1>2 DEF Active
    <2> QED BY <2>1 DEF Signed
  <1>9. ShownInv'
    BY <1>6 DEF ShownInv, Excused, Active
  <1> QED BY <1>1, <1>5, <1>7, <1>8, <1>9 DEF Signed, Excused, Active

\* An edit that begins, confirms or tries another message.
LEMMA GoingOn ==
  ASSUME TypeInv, Signed, ShownInv, NEW e \in Editors, Preflight(e) \/ Confirm(e) \/ TryNext(e)
  PROVE  Signed' /\ ShownInv'
  <1>0. /\ ed \in [Editors -> EditRows] /\ shown \in [Messages -> 0..MaxEdits]
        /\ \A f \in Editors : Active(f) => ed[f].of \in Pubs /\ ed[f].tag \in 1..edits
        /\ \A f \in Editors : ed[f].pc = "persist" => ed[f].hit \in Messages
        /\ edits \in Nat /\ \A m \in Messages : shown[m] <= edits /\ shown[m] \in Int
    BY Posted, Rests DEF TypeInv, EditsTyped, WorldTyped, Remembers, Active
  <1>1. UNCHANGED <<pub, gone, unstored>>
    BY DEF Preflight, Confirm, TryNext
  <1>2. /\ \A f \in Editors : f # e => ed'[f] = ed[f]
        /\ \A f \in Editors : f # e => (Active(f)' <=> Active(f))
    BY <1>0 DEF Preflight, Confirm, TryNext, Active
  <1> DEFINE n == Head(ed[e].todo)
  <1>3. /\ Active(e)' /\ ed'[e].pc \in {"edit", "persist"}
        /\ \/ ~Active(e) /\ ed'[e].tag = edits + 1 /\ shown' = shown /\ ed'[e].pc = "edit"
           \/ /\ Active(e) /\ ed'[e].tag = ed[e].tag /\ ed'[e].of = ed[e].of
              /\ \/ shown' = shown /\ ed'[e].pc = "edit"
                 \/ /\ shown' = [shown EXCEPT ![n] = ed[e].tag]
                    /\ n \in MessagesOf(ed[e].of) /\ n \in Messages
                    /\ ed'[e].pc = "persist" /\ ed'[e].hit = n
    <2>1. CASE Preflight(e)
      <3>1. PICK p \in Pubs, intent \in Payloads :
              ed' = [ed EXCEPT ![e] = [pc |-> "edit", of |-> p, revision |-> pub[p].revision,
                                       intent |-> intent, todo |-> Reverse(pub[p].ids),
                                       hit |-> 0, tag |-> edits + 1]]
        BY <2>1 DEF Preflight
      <3>2. ed'[e].pc = "edit" /\ ed'[e].tag = edits + 1
        BY <1>0, <3>1
      <3> QED BY <2>1, <3>2 DEF Preflight, Active
    <2>2. CASE TryNext(e)
      <3> DEFINE rest == Tail(ed[e].todo)
      <3>1. ed' = [ed EXCEPT ![e].todo = rest] /\ ed[e].pc = "edit" /\ shown' = shown
        BY <2>2 DEF TryNext
      <3> HIDE DEF rest
      <3>2. ed'[e].pc = "edit" /\ ed'[e].tag = ed[e].tag /\ ed'[e].of = ed[e].of
        BY <1>0, <3>1 DEF EditRows
      <3> QED BY <3>1, <3>2 DEF Active
    <2>3. CASE Confirm(e)
      <3>1. /\ ed' = [ed EXCEPT ![e].pc = "persist", ![e].hit = n] /\ ed[e].pc = "edit"
            /\ ed[e].todo # <<>> /\ shown' = [shown EXCEPT ![n] = ed[e].tag]
        BY <2>3 DEF Confirm
      <3>2. n \in MessagesOf(ed[e].of) /\ n \in Messages
        <4>1. /\ ed[e].todo \in Seq(Messages) /\ ToSet(ed[e].todo) \subseteq MessagesOf(ed[e].of)
              /\ ed[e].of \in Pubs
          BY <3>1 DEF TypeInv, EditsTyped, EditRows, Remembers
        <4>2. n = ed[e].todo[1] /\ 1 \in 1..Len(ed[e].todo)
          BY <3>1, <4>1, EmptySeq
        <4> QED BY <4>1, <4>2, ElementsOf, Posted
      <3> HIDE DEF n
      <3>3. /\ ed'[e].pc = "persist" /\ ed'[e].tag = ed[e].tag /\ ed'[e].of = ed[e].of
            /\ ed'[e].hit = n
        BY <1>0, <3>1 DEF EditRows
      <3> QED BY <3>1, <3>2, <3>3 DEF Active
    <2> QED BY <2>1, <2>2, <2>3
  <1> HIDE DEF n
  <1>4. \A f, g \in Editors : Active(f)' /\ Active(g)' /\ ed'[f].tag = ed'[g].tag => f = g
    <2>1. \A f \in Editors : f # e /\ Active(f)' => Active(f) /\ ed'[f] = ed[f] /\ ed'[f].tag # ed'[e].tag
      <3>1. \A f \in Editors : f # e /\ Active(f)' => Active(f) /\ ed'[f] = ed[f]
        BY <1>2
      <3>2. CASE ~Active(e)
        <4>1. ed'[e].tag = edits + 1
          BY <1>3, <3>2
        <4> QED BY <1>0, <3>1, <4>1
      <3>3. CASE Active(e)
        <4>1. ed'[e].tag = ed[e].tag
          BY <1>3, <3>3
        <4> QED BY <3>1, <3>3, <4>1 DEF Signed
      <3> QED BY <3>2, <3>3
    <2> QED BY <1>2, <2>1 DEF Signed
  <1>5. ASSUME NEW f \in Editors, NEW m \in Messages, Active(f)', shown'[m] = ed'[f].tag
        PROVE  m \in MessagesOf(ed'[f].of)
    <2>1. CASE ~Active(e)
      <3>1. shown' = shown /\ ed'[e].tag = edits + 1
        BY <1>3, <2>1
      <3>2. f # e
        BY <1>0, <1>5, <3>1
      <3> QED BY <1>2, <1>5, <3>1, <3>2 DEF Signed
    <2>2. CASE Active(e) /\ f = e
      BY <1>0, <1>3, <1>5, <2>2 DEF Signed
    <2>3. CASE Active(e) /\ f # e
      <3>1. Active(f) /\ ed'[f] = ed[f] /\ ed[f].tag # ed[e].tag
        BY <1>2, <1>5, <2>3 DEF Signed
      <3>2. shown'[m] = shown[m]
        BY <1>0, <1>3, <1>5, <2>3, <3>1
      <3> QED BY <1>5, <3>1, <3>2 DEF Signed
    <2> QED BY <2>1, <2>2, <2>3
  <1>6. ASSUME NEW m \in Messages, NEW S \in SUBSET Editors,
               \/ Excused(m, S) /\ shown'[m] = shown[m]
               \/ e \in S /\ shown'[m] # shown[m]
        PROVE  Excused(m, S)'
    <2>1. CASE e \in S /\ shown'[m] # shown[m]
      <3>1. shown'[m] = ed[e].tag /\ ed'[e].tag = ed[e].tag /\ Active(e)'
        BY <1>0, <1>3, <2>1
      <3> QED BY <2>1, <3>1 DEF Excused
    <2>2. CASE shown'[m] = shown[m] /\ (m \in gone \/ shown[m] \in unstored)
      BY <1>1, <2>2 DEF Excused
    <2>3. ASSUME shown'[m] = shown[m], NEW f \in S, Active(f), ed[f].tag = shown[m]
          PROVE  Excused(m, S)'
      <3>1. Active(f)' /\ ed'[f].tag = shown'[m]
        BY <1>2, <1>3, <2>3
      <3> QED BY <3>1 DEF Excused
    <2> QED BY <1>6, <2>1, <2>2, <2>3 DEF Excused
  <1>7. ASSUME NEW f \in Editors, ed'[f].pc = "persist", ed'[f].revision = pub'[ed'[f].of].revision
        PROVE  \E h \in Messages : /\ h = ed'[f].hit
                                   /\ shown'[h] = ed'[f].tag \/ Excused(h, Editors \ {f})'
    <2>1. CASE f = e
      BY <1>0, <1>3, <1>7, <2>1
    <2>2. CASE f # e
      <3>1. ed'[f] = ed[f] /\ ed[f].pc = "persist" /\ pub' = pub
        BY <1>1, <1>2, <1>7, <2>2
      <3>2. PICK h \in Messages : h = ed[f].hit
        BY <1>0, <3>1
      <3>3. shown[h] = ed[f].tag \/ Excused(h, Editors \ {f})
        BY <1>7, <3>1, <3>2 DEF Signed
      <3>4. shown'[h] = ed[f].tag \/ Excused(h, Editors \ {f})'
        BY <1>6, <2>2, <3>3
      <3> QED BY <3>1, <3>2, <3>4
    <2> QED BY <2>1, <2>2
  <1>8. ASSUME NEW p \in Pubs
        PROVE  \E l \in Messages : /\ l = Last(pub'[p].ids)
                                   /\ shown'[l] = Last(pub'[p].text) \/ Excused(l, Editors)'
    <2>1. PICK l \in Messages : l = Last(pub[p].ids)
      BY LastMessage
    <2>2. shown[l] = Last(pub[p].text) \/ Excused(l, Editors)
      BY <2>1 DEF ShownInv
    <2>3. shown'[l] = Last(pub[p].text) \/ Excused(l, Editors)'
      BY <1>6, <2>2
    <2> QED BY <1>1, <2>1, <2>3
  <1>9. ShownInv'
    BY <1>8 DEF ShownInv, Excused
  <1> QED BY <1>4, <1>5, <1>7, <1>9 DEF Signed, Excused

\* An edit is stored only if nothing was since it began: the channel shows it, and what the
\* others wrote is theirs.
LEMMA Storing ==
  ASSUME TypeInv, Signed, ShownInv, NEW e \in Editors, Persist(e)
  PROVE  Signed' /\ ShownInv'
  <1>0. /\ ed \in [Editors -> EditRows] /\ pub \in [Pubs -> Publication]
        /\ \A f \in Editors : Active(f) => /\ ed[f].of \in Pubs
                                           /\ ed[f].revision <= pub[ed[f].of].revision
        /\ \A f \in Editors : ed[f].pc = "persist" => /\ ed[f].hit \in MessagesOf(ed[f].of)
                                                      /\ ed[f].hit \in Messages
    BY Posted DEF TypeInv, EditsTyped, PubsTyped, Remembers, Active
  <1>1. /\ ed[e].pc = "persist" /\ ed[e].revision = pub[ed[e].of].revision
        /\ UNCHANGED <<gone, shown, unstored>>
    BY DEF Persist
  <1>2. /\ ed'[e].pc = "idle" /\ \A f \in Editors : f # e => ed'[f] = ed[f]
        /\ \A f \in Editors : Active(f)' <=> (f # e /\ Active(f))
    BY <1>0 DEF Persist, NoEdit, Active
  <1>3. PICK p \in Pubs : p = ed[e].of
    BY <1>0, <1>1 DEF Active
  <1>4. /\ pub'[p].revision = pub[p].revision + 1
        /\ Last(pub'[p].text) = ed[e].tag /\ Last(pub'[p].ids) = ed[e].hit
        /\ \A q \in Pubs : q # p => pub'[q] = pub[q]
    <2> DEFINE new == Edited(pub[p], e)
    <2>1. pub' = [pub EXCEPT ![p] = new]
      BY <1>3 DEF Persist
    <2>2. /\ new.revision = pub[p].revision + 1
          /\ Last(new.text) = ed[e].tag /\ Last(new.ids) = ed[e].hit
      BY <1>1, <1>3, EditedPost
    <2> HIDE DEF new
    <2> QED BY <1>0, <2>1, <2>2
  <1>5. ASSUME NEW m \in Messages, m \notin MessagesOf(p), NEW S \in SUBSET Editors, Excused(m, S)
        PROVE  Excused(m, S)'
    <2>1. ASSUME NEW f \in S, Active(f), ed[f].tag = shown[m] PROVE Excused(m, S)'
      <3>1. f # e
        BY <1>3, <1>5, <2>1 DEF Signed
      <3>2. Active(f)' /\ ed'[f].tag = shown'[m]
        BY <1>1, <1>2, <2>1, <3>1
      <3> QED BY <3>2 DEF Excused
    <2> QED BY <1>1, <1>5, <2>1 DEF Excused
  <1>6. ASSUME NEW f \in Editors, ed'[f].pc = "persist", ed'[f].revision = pub'[ed'[f].of].revision
        PROVE  \E h \in Messages : /\ h = ed'[f].hit
                                   /\ shown'[h] = ed'[f].tag \/ Excused(h, Editors \ {f})'
    <2>1. f # e /\ ed'[f] = ed[f] /\ ed[f].pc = "persist"
      BY <1>2, <1>6
    <2>2. PICK q \in Pubs : q = ed[f].of /\ ed[f].revision <= pub[q].revision
      BY <1>0, <2>1 DEF Active
    <2>3. pub[q].revision \in Int
      BY <1>0, <2>2 DEF Publication
    <2>4. q # p
      BY <1>4, <1>6, <2>1, <2>2, <2>3
    <2>5. PICK h \in Messages : h = ed[f].hit /\ h \in MessagesOf(q)
      BY <1>0, <2>1, <2>2
    <2>6. h \notin MessagesOf(p)
      BY <2>4, <2>5, Posted
    <2>7. shown[h] = ed[f].tag \/ Excused(h, Editors \ {f})
      BY <1>4, <1>6, <2>1, <2>2, <2>4, <2>5 DEF Signed
    <2>8. shown'[h] = ed[f].tag \/ Excused(h, Editors \ {f})'
      BY <1>1, <1>5, <2>6, <2>7
    <2> QED BY <2>1, <2>5, <2>8
  <1>7. ASSUME NEW q \in Pubs
        PROVE  \E l \in Messages : /\ l = Last(pub'[q].ids)
                                   /\ shown'[l] = Last(pub'[q].text) \/ Excused(l, Editors)'
    <2>1. CASE q = p
      <3>1. PICK l \in Messages : l = ed[e].hit
        BY <1>0, <1>1
      <3>2. shown[l] = ed[e].tag \/ Excused(l, Editors \ {e})
        BY <1>1, <3>1 DEF Signed
      <3>3. shown'[l] = ed[e].tag \/ Excused(l, Editors)'
        <4>1. ASSUME NEW f \in Editors \ {e}, Active(f), ed[f].tag = shown[l]
              PROVE  Active(f)' /\ ed'[f].tag = shown'[l]
          BY <1>1, <1>2, <4>1
        <4> QED BY <1>1, <3>2, <4>1 DEF Excused
      <3> QED BY <1>4, <2>1, <3>1, <3>3
    <2>2. CASE q # p
      <3>1. PICK l \in Messages : l = Last(pub[q].ids) /\ l \in MessagesOf(q)
        BY LastMessage
      <3>2. l \notin MessagesOf(p)
        BY <2>2, <3>1, Posted
      <3>3. shown[l] = Last(pub[q].text) \/ Excused(l, Editors)
        BY <3>1 DEF ShownInv
      <3>4. shown'[l] = Last(pub[q].text) \/ Excused(l, Editors)'
        BY <1>1, <1>5, <3>2, <3>3
      <3> QED BY <1>4, <2>2, <3>1, <3>4
    <2> QED BY <2>1, <2>2
  <1>8. ShownInv'
    BY <1>7 DEF ShownInv, Excused
  <1>9. \A f, g \in Editors : Active(f)' /\ Active(g)' /\ ed'[f].tag = ed'[g].tag => f = g
    BY <1>2 DEF Signed
  <1>10. \A f \in Editors, m \in Messages :
            Active(f)' /\ shown'[m] = ed'[f].tag => m \in MessagesOf(ed'[f].of)
    BY <1>1, <1>2 DEF Signed
  <1> QED BY <1>6, <1>8, <1>9, <1>10 DEF Signed, Excused

\* The message an edit was confirmed for shows what is stored, or an edit that is under
\* way, or one of which it is out that it failed; whatever is edited at the same time.
THEOREM ChannelTruthful == Spec => []ChannelShowsRevision
  <1>1. ASSUME Init PROVE Signed /\ ShownInv
    <2>1. \A e \in Editors : ed[e].pc = "idle"
      BY <1>1 DEF Init, NoEdit
    <2>2. ASSUME NEW p \in Pubs
          PROVE  shown[Last(pub[p].ids)] = Last(pub[p].text)
      <3>1. PICK intent \in [Pubs -> Intents], barred \in Pubs \cup {0} :
               pub = [q \in Pubs |-> Published(q, intent[q], q = barred)]
        BY <1>1 DEF Init
      <3>2. pub[p].text = <<0>> /\ pub[p].ids = Posts[p]
        BY <3>1 DEF Published
      <3>3. Posts[p] \in Seq(Messages) /\ ToSet(Posts[p]) # {}
        BY Posted
      <3>4. ToSet(Posts[p]) = {Posts[p][i] : i \in 1..Len(Posts[p])} /\ Len(Posts[p]) \in Nat
        BY <3>3, ElementsOf
      <3>5. Len(Posts[p]) \in 1..Len(Posts[p])
        BY <3>3, <3>4
      <3>6. Last(Posts[p]) \in Messages
        BY <3>3, <3>5 DEF Last
      <3>7. Last(<<0>>) = 0
        BY DEF Last
      <3> QED BY <1>1, <3>2, <3>6, <3>7 DEF Init
    <2> QED BY <2>1, <2>2 DEF Signed, ShownInv, Active
  <1>2. ASSUME TypeInv, Signed, ShownInv, [Next]_vars PROVE Signed' /\ ShownInv'
    <2>0. pub \in [Pubs -> Publication] /\ gone \subseteq Messages
      BY <1>2 DEF TypeInv, PubsTyped, WorldTyped
    <2>1. ASSUME NEW x \in Workers, Work(x) \/ MarkFails(x) \/ Die(x) \/ Cancel(x)
          PROVE  UNCHANGED <<shown, ed, unstored>> /\ gone \subseteq gone'
      <3>1. CASE Delete(x) \/ Cancel(x)
        BY <3>1 DEF Delete, Cancel, Deletes, editing
      <3>2. CASE Select(x) \/ Acquire(x) \/ Busy(x) \/ Read(x) \/ Refuse(x) \/ Skip(x) \/ Reserve(x)
        BY <3>2 DEF Select, Acquire, Busy, Read, Refuse, Skip, Reserve, editing
      <3>3. CASE Mark(x) \/ MarkDeleted(x) \/ Report(x) \/ Release(x) \/ MarkFails(x) \/ Die(x)
        BY <3>3 DEF Mark, MarkDeleted, Report, Release, MarkFails, Die, editing
      <3> QED BY <2>1, <3>1, <3>2, <3>3 DEF Work
    <2>2. ASSUME NEW x \in Workers, Work(x) \/ MarkFails(x) \/ Die(x) \/ Cancel(x)
          PROVE  Signed' /\ ShownInv'
      <3>1. CASE UNCHANGED pub
        BY <1>2, <2>1, <2>2, <3>1, NothingEdited
      <3>2. CASE ~UNCHANGED pub
        <4> DEFINE watched == pub[Job(x)].watched /\ ~w[x].mixed
                   next == [pub[Job(x)] EXCEPT !.deleted = TRUE, !.watched = watched]
        <4>1. MarkDeleted(x)
          BY <2>2, <3>2 DEF Work, Select, Acquire, Busy, Read, Refuse, Skip, Reserve, Delete, Mark,
                            Report, Release, MarkFails, Die, Cancel
        <4>2. pub' = [pub EXCEPT ![Job(x)] = next]
          BY <3>2, <4>1 DEF MarkDeleted
        <4>3. Job(x) \in Pubs /\ pub[Job(x)] \in Publication
          BY <1>2, <4>1, AtWork DEF MarkDeleted
        <4> HIDE DEF watched
        <4>4. /\ next.ids = pub[Job(x)].ids /\ next.text = pub[Job(x)].text
              /\ next.revision = pub[Job(x)].revision
          BY <4>3 DEF Publication
        <4> HIDE DEF next
        <4>5. \A p \in Pubs : /\ pub'[p].ids = pub[p].ids /\ pub'[p].text = pub[p].text
                              /\ pub'[p].revision = pub[p].revision
          BY <2>0, <4>2, <4>3, <4>4
        <4> QED BY <1>2, <2>1, <2>2, <4>5, NothingEdited
      <3> QED BY <3>1, <3>2
    <2>3. ASSUME NEW p \in Pubs, BecomeDue(p) PROVE Signed' /\ ShownInv'
      <3>1. pub' = [pub EXCEPT ![p] = [pub[p] EXCEPT !.due = TRUE]]
        BY <2>3 DEF BecomeDue
      <3>2. \A q \in Pubs : /\ pub'[q].ids = pub[q].ids /\ pub'[q].text = pub[q].text
                            /\ pub'[q].revision = pub[q].revision
        BY <2>0, <3>1 DEF Publication
      <3>3. UNCHANGED <<shown, ed, unstored>> /\ gone \subseteq gone'
        BY <2>3 DEF BecomeDue, editing
      <3> QED BY <1>2, <3>2, <3>3, NothingEdited
    <2>4. ASSUME UNCHANGED <<pub, shown, ed, unstored, gone>> PROVE Signed' /\ ShownInv'
      BY <1>2, <2>4, NothingEdited
    <2>5. CASE (\E p \in Pubs : Expire(p) \/ Outlive(p)) \/ ViewsSelect \/ ViewsAcquire \/ UNCHANGED vars
      BY <2>4, <2>5 DEF Expire, Outlive, ViewsSelect, ViewsAcquire, vars, editing
    <2>6. ASSUME NEW e \in Editors, Edit(e) PROVE Signed' /\ ShownInv'
      <3>1. CASE Unclear(e)
        <4>1. Active(e) /\ GiveUp(e) /\ UNCHANGED <<pub, gone>> /\ ed[e].pc = "edit" /\ ed[e].todo # <<>>
          BY <3>1 DEF Unclear, Active
        <4>2. Head(ed[e].todo) \in Messages
          <5>1. ed[e].todo \in Seq(Messages)
            BY <1>2 DEF TypeInv, EditsTyped, EditRows
          <5> QED BY <4>1, <5>1, HeadTailProperties
        <4> QED BY <1>2, <3>1, <4>1, <4>2, GivingUp DEF Unclear
      <3>2. CASE NoneLeft(e) \/ Conflict(e) \/ Lose(e)
        BY <1>2, <3>2, GivingUp DEF NoneLeft, Conflict, Lose, Active
      <3> QED BY <1>2, <2>6, <3>1, <3>2, GoingOn, Storing DEF Edit
    <2> QED BY <1>2, <2>2, <2>3, <2>5, <2>6 DEF Next
  <1>3. TypeInv /\ Signed /\ ShownInv => ChannelShowsRevision
    BY DEF ShownInv, Excused, ChannelShowsRevision, Active
  <1> QED BY <1>1, <1>2, <1>3, TypeInvCorrect, PTL DEF Spec
===============================================================================
