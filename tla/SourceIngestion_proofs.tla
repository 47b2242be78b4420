------------------------ MODULE SourceIngestion_proofs ------------------------
(* Proofs about SourceIngestion, for any sources, requests, pages, windows and *)
(* bounds.                                                                     *)
EXTENDS SourceIngestion, FiniteSetTheorems, SequenceTheorems, WellFoundedInduction, TLAPS

-----------------------------------------------------------------------------
(* Least and greatest numbers. *)

\* A finite set has an element that no other exceeds.
LEMMA GreatestElement ==
  ASSUME NEW S, IsFiniteSet(S), S # {}, NEW f \in [S -> Int]
  PROVE  \E x \in S : \A y \in S : f[y] <= f[x]
  <1> DEFINE Above(x) == {y \in S : f[y] > f[x]}
             T == {Above(x) : x \in S}
  <1>1. IsWellFoundedOn(StrictSubsetOrdering(S), SUBSET S)
    BY FS_StrictSubsetOrderingWellFounded, FS_FiniteSubsetsOfFinite
  <1>2. T \subseteq SUBSET S /\ T # {}
    <2>1. \A x \in S : Above(x) \in SUBSET S
      OBVIOUS
    <2>2. \E x \in S : Above(x) \in T
      OBVIOUS
    <2> QED BY <2>1, <2>2
  <1>3. PICK t \in T : \A u \in T : <<u, t>> \notin StrictSubsetOrdering(S)
    BY <1>1, <1>2, WFMin
  <1>4. PICK x \in S : t = Above(x)
    BY <1>3
  <1>5. SUFFICES ASSUME NEW y \in S, f[y] > f[x] PROVE FALSE
    BY <1>4
  <1>6. Above(y) \subseteq Above(x) /\ Above(y) # Above(x) /\ Above(y) \in T
    <2>1. y \in Above(x) /\ y \notin Above(y)
      BY <1>5
    <2>2. \A z \in Above(y) : z \in Above(x)
      BY <1>5
    <2> QED BY <2>1, <2>2
  <1> QED BY <1>2, <1>3, <1>4, <1>6 DEF StrictSubsetOrdering

\* Max of the community modules returns the greatest of a finite set of integers.
LEMMA MaxIsGreatest ==
  ASSUME NEW S, IsFiniteSet(S), S # {}, S \subseteq Int
  PROVE  Max(S) \in S /\ \A y \in S : y <= Max(S)
  <1>1. [x \in S |-> x] \in [S -> Int]
    OBVIOUS
  <1>2. \E x \in S : \A y \in S : [z \in S |-> z][y] <= [z \in S |-> z][x]
    BY <1>1, GreatestElement
  <1>3. \E x \in S : \A y \in S : x >= y
    BY <1>2
  <1>4. Max(S) \in S /\ \A y \in S : Max(S) >= y
    BY <1>3 DEF Max
  <1> QED BY <1>4

\* Min of two numbers.
LEMMA MinOfTwo ==
  ASSUME NEW a \in Int, NEW b \in Int
  PROVE  Min({a, b}) = IF a <= b THEN a ELSE b
  <1>1. \E x \in {a, b} : \A y \in {a, b} : x =< y
    OBVIOUS
  <1>2. Min({a, b}) \in {a, b} /\ \A y \in {a, b} : Min({a, b}) =< y
    BY <1>1 DEF Min
  <1> QED BY <1>2

-----------------------------------------------------------------------------
(* What the operators of the model return. *)

\* No source has more messages than the bound over all of them.
LEMMA MostIsMost == Most \in Nat \ {0} /\ \A s \in Ids : MaxMessages[s] <= Most
  <1> DEFINE S == {MaxMessages[s] : s \in Ids}
  <1>1. IsFiniteSet(Ids) /\ Ids # {}
    <2>1. Sources \in Int /\ 1 \in Ids
      BY SourceIngestionAssumption DEF Ids
    <2>2. IsFiniteSet(1..Sources)
      BY <2>1, FS_Interval
    <2> QED BY <2>1, <2>2 DEF Ids
  <1>2. MaxMessages \in [Ids -> Int] /\ S \subseteq Nat \ {0}
    BY SourceIngestionAssumption DEF Ids
  <1>3. PICK x \in Ids : \A y \in Ids : MaxMessages[y] <= MaxMessages[x]
    BY <1>1, <1>2, GreatestElement
  <1>4. \E m \in S : \A y \in S : m >= y
    BY <1>2, <1>3
  <1>5. Most \in S /\ \A y \in S : Most >= y
    BY <1>4 DEF Most, Max
  <1> QED BY <1>2, <1>5

\* The newest messages, newest first.
LEMMA NewestFirst ==
  ASSUME posts \in [Ids -> 1..Most], NEW s \in Ids
  PROVE  /\ Newest(s) \in Seq(1..Most) /\ Newest(s) # <<>>
         /\ Len(Newest(s)) \in Nat /\ Len(Newest(s)) <= posts[s]
         /\ posts[s] \in ToSet(Newest(s))
  <1> DEFINE n == Min({Page, posts[s]})
             seq == [i \in 1..n |-> posts[s] - n + i]
  <1>1. n \in Nat /\ n > 0 /\ n <= posts[s] /\ posts[s] \in 1..Most /\ Most \in Nat
    BY SMTT(30), MinOfTwo, MostIsMost, SourceIngestionAssumption
  <1>2. Newest(s) = Reverse(seq)
    BY DEF Newest
  <1> HIDE DEF n
  <1>3. seq \in Seq(1..Most) /\ Len(seq) = n
    <2>1. \A i \in 1..n : posts[s] - n + i \in 1..Most
      BY <1>1
    <2> QED BY <1>1, <2>1, IsASeq
  <1> HIDE DEF seq
  <1>4. Newest(s) = [i \in 1..n |-> seq[n - i + 1]]
    BY <1>2, <1>3 DEF Reverse
  <1>5. \A i \in 1..n : n - i + 1 \in 1..n
    BY <1>1
  <1>6. \A i \in 1..n : seq[n - i + 1] \in 1..Most
    BY <1>3, <1>5, ElementOfSeq
  <1>7. Newest(s) \in Seq(1..Most) /\ Len(Newest(s)) = n
    BY <1>1, <1>4, <1>6, IsASeq
  <1>8. DOMAIN Newest(s) = 1..n
    BY <1>4
  <1>9. Newest(s)[1] = posts[s] /\ 1 \in DOMAIN Newest(s)
    BY <1>1, <1>4 DEF seq
  <1> QED BY <1>1, <1>7, <1>9 DEF ToSet

\* The oldest messages after the cursor, in their order.
LEMMA OldestFirst ==
  ASSUME posts \in [Ids -> 1..Most], NEW s \in Ids, NEW c \in 0..Most
  PROVE  /\ OldestAfter(s, c) \in Seq(1..Most)
         /\ Len(OldestAfter(s, c)) \in Nat /\ c + Len(OldestAfter(s, c)) <= Most
         /\ \A i \in 1..Len(OldestAfter(s, c)) : OldestAfter(s, c)[i] = c + i
  <1> DEFINE n == Min({Page, posts[s] - c})
  <1>1. n \in Int /\ c + n <= posts[s] /\ posts[s] \in 1..Most /\ Most \in Nat
    <2>1. Page \in Int /\ posts[s] \in 1..Most /\ Most \in Nat /\ c \in Nat
      BY MostIsMost, SourceIngestionAssumption
    <2>2. posts[s] - c \in Int
      BY <2>1
    <2>3. n = IF Page <= posts[s] - c THEN Page ELSE posts[s] - c
      BY <2>1, <2>2, MinOfTwo
    <2> QED BY <2>1, <2>3
  <1>2. OldestAfter(s, c) = [i \in 1..n |-> c + i]
    BY DEF OldestAfter
  <1> HIDE DEF n
  <1>3. CASE n < 0
    <2>1. 1..n = 1..0
      BY <1>1, <1>3
    <2>2. [i \in 1..0 |-> c + i] \in Seq(1..Most) /\ Len([i \in 1..0 |-> c + i]) = 0
      BY IsASeq
    <2>3. OldestAfter(s, c) = [i \in 1..0 |-> c + i]
      BY <1>2, <2>1
    <2>4. OldestAfter(s, c) \in Seq(1..Most) /\ Len(OldestAfter(s, c)) = 0
      BY <2>2, <2>3
    <2> QED BY <1>1, <2>4
  <1>4. CASE n >= 0
    <2>1. \A i \in 1..n : c + i \in 1..Most
      BY <1>1
    <2>2. n \in Nat
      BY <1>1, <1>4
    <2>3. OldestAfter(s, c) \in Seq(1..Most) /\ Len(OldestAfter(s, c)) = n
      BY <1>2, <2>1, <2>2, IsASeq
    <2> QED BY <1>1, <1>2, <2>2, <2>3
  <1> QED BY <1>1, <1>3, <1>4

\* Where the cursor goes after a page.
LEMMA High ==
  ASSUME NEW c \in 0..Most, NEW page \in Seq(1..Most)
  PROVE  LET high == Max({c} \cup ToSet(page))
         IN  /\ high \in 0..Most /\ c <= high
             /\ \A i \in 1..Len(page) : page[i] <= high
             /\ high = c \/ \E i \in 1..Len(page) : high = page[i]
  <1> DEFINE S == {c} \cup ToSet(page)
  <1>1. Len(page) \in Nat /\ \A i \in 1..Len(page) : page[i] \in 1..Most
    BY LenProperties, ElementOfSeq
  <1>2. ToSet(page) = {page[i] : i \in 1..Len(page)}
    BY LenProperties DEF ToSet
  <1>3. Most \in Nat
    BY MostIsMost
  <1>4. S \subseteq 0..Most /\ S # {}
    BY <1>1, <1>2, <1>3
  <1> HIDE DEF S
  <1>5. IsFiniteSet(S)
    <2>1. IsFiniteSet(0..Most)
      BY <1>3, FS_Interval
    <2> QED BY <1>4, <2>1, FS_Subset
  <1>6. Max(S) \in S /\ \A y \in S : y <= Max(S)
    <2>1. S \subseteq Int
      BY <1>3, <1>4
    <2> QED BY <1>4, <1>5, <2>1, MaxIsGreatest
  <1> QED BY <1>2, <1>4, <1>6 DEF S

-----------------------------------------------------------------------------
(* The type invariant and what it needs. *)

Places == {"idle", "acquire", "lock", "legacy", "mirror", "fetch", "reconcile", "stage", "commit",
           "clear", "failed", "record", "release", "write"}

Poll == [pc : Places, source : Ids, enabled : BOOLEAN, wanted : BOOLEAN, config : Config,
         dirty : BOOLEAN, page : Seq(1..Most), fetched : Nat, high : 0..Most, late : BOOLEAN]

SourcesTyped ==
    /\ posts \in [Ids -> 1..Most]
    /\ enabled \in [Ids -> BOOLEAN] /\ legacy \in [Ids -> BOOLEAN]
    /\ config \in [Ids -> Config]
    /\ lease \in [Ids -> [holder : Pollers \cup {Nobody}, live : BOOLEAN]]
    /\ inbox \in [Ids -> SUBSET (1..Most)]
    /\ since \in [Ids -> Unread..Most] /\ ended \in [Ids -> 0..MaxFailures]

WorldTyped ==
    /\ asked \in 0..MaxAsked /\ failures \in 0..MaxFailures /\ faults \in 0..MaxFaults

RotationTyped ==
    rotation \in [last : 0..Sources, todo : Seq(Ids)] /\ Len(rotation.todo) <= Sources

\* A page that is being reconciled has messages left, and was no longer than the cursor
\* it leads to: what Commit takes for the messages that were there before is a number.
PageSound(m) ==
    /\ m.pc = "reconcile" => m.page # <<>>
    /\ m.pc \in {"reconcile", "stage", "commit"} => m.fetched <= m.high

PollsTyped == poll \in [Pollers -> Poll] /\ \A p \in Pollers : PageSound(poll[p])

TypeInv == SourcesTyped /\ WorldTyped /\ RotationTyped /\ PollsTyped

\* The rows that Init starts with are typed.
LEMMA InitialRows ==
  /\ NoConfig \in Config /\ NoPoll \in Poll /\ PageSound(NoPoll)
  /\ Worker \in Pollers /\ Most \in Nat \ {0} /\ 1 \in Ids /\ 0 \in 0..MaxFailures
  <1>1. /\ Worker \in Pollers /\ Most \in Nat \ {0} /\ 1 \in Ids /\ 0 \in 0..MaxFailures
        /\ 0 \in 0..Most
    BY MostIsMost, SourceIngestionAssumption DEF Pollers, Ids
  <1>2. NoConfig \in Config
    BY <1>1 DEF NoConfig, Config
  <1>3. <<>> \in Seq(1..Most)
    BY EmptySeq
  <1>4. NoPoll \in Poll
    BY <1>1, <1>2, <1>3 DEF NoPoll, Poll, Places
  <1> QED BY <1>1, <1>2, <1>4 DEF PageSound, NoPoll

\* What the worker reads next are sources.
LEMMA WindowOfSources ==
  ASSUME RotationTyped, Rotating # {}
  PROVE  Boundary \in Ids
  <1> DEFINE f == [s \in Rotating |-> Ahead(s)]
  <1>1. Rotating \subseteq Ids /\ IsFiniteSet(Rotating)
    <2>1. Rotating \subseteq Ids
      BY DEF Rotating
    <2>2. IsFiniteSet(Ids)
      BY FS_Interval, SourceIngestionAssumption DEF Ids
    <2> QED BY <2>1, <2>2, FS_Subset
  <1>2. f \in [Rotating -> Int]
    BY <1>1, SourceIngestionAssumption DEF Ahead, RotationTyped, Ids
  <1>3. PICK s \in Rotating : \A t \in Rotating : f[t] <= f[s]
    BY <1>1, <1>2, GreatestElement
  <1>4. \A t \in Rotating : Ahead(t) <= Ahead(s)
    BY <1>3
  <1>5. Boundary \in Rotating
    BY <1>4 DEF Boundary
  <1> QED BY <1>1, <1>5

\* An order of the eligible sources is no longer than there are sources.
LEMMA OrdersOfSources ==
  ASSUME NEW eligible \in SUBSET Ids, NEW order \in Orders(eligible)
  PROVE  order \in Seq(Ids) /\ Len(order) <= Sources
  <1> DEFINE urgent == {s \in eligible : config[s].hint}
             rest == eligible \ urgent
  <1>1. PICK u \in SetToSeqs(urgent), v \in SetToSeqs(rest) : order = u \o v
    BY SMTT(30) DEF Orders
  <1>2. /\ IsFiniteSet(Ids) /\ Cardinality(Ids) = Sources /\ IsFiniteSet(eligible)
        /\ Cardinality(eligible) <= Sources
    <2>1. Sources \in Int /\ Sources >= 1
      BY SourceIngestionAssumption
    <2>2. IsFiniteSet(1..Sources) /\ Cardinality(1..Sources) = Sources
      BY <2>1, FS_Interval
    <2>3. IsFiniteSet(eligible) /\ Cardinality(eligible) <= Cardinality(1..Sources)
      BY <2>2, FS_Subset DEF Ids
    <2> QED BY <2>2, <2>3 DEF Ids
  <1>3. urgent \subseteq eligible /\ eligible \cap urgent = urgent
    OBVIOUS
  <1> HIDE DEF urgent
  <1>4. /\ IsFiniteSet(urgent) /\ IsFiniteSet(rest)
        /\ Cardinality(rest) = Cardinality(eligible) - Cardinality(urgent)
    <2>1. IsFiniteSet(urgent)
      BY <1>2, <1>3, FS_Subset
    <2>2. /\ IsFiniteSet(eligible \ urgent)
          /\ Cardinality(eligible \ urgent)
               = Cardinality(eligible) - Cardinality(eligible \cap urgent)
      BY <1>2, FS_Difference
    <2> QED BY <1>3, <2>1, <2>2
  <1> HIDE DEF rest
  <1>5. Cardinality(urgent) \in Nat /\ Cardinality(rest) \in Nat /\ Cardinality(eligible) \in Nat
    BY <1>2, <1>4, FS_CardinalityType
  <1>6. u \in Seq(urgent) /\ Len(u) = Cardinality(urgent)
    <2>1. u \in [1..Cardinality(urgent) -> urgent]
      BY <1>1 DEF SetToSeqs
    <2> QED BY <1>5, <2>1
  <1>7. v \in Seq(rest) /\ Len(v) = Cardinality(rest)
    <2>1. v \in [1..Cardinality(rest) -> rest]
      BY <1>1 DEF SetToSeqs, rest
    <2> QED BY <1>5, <2>1
  <1>8. u \in Seq(Ids) /\ v \in Seq(Ids)
    BY <1>3, <1>6, <1>7, SeqMonotonic DEF rest
  <1>9. order \in Seq(Ids) /\ Len(order) = Len(u) + Len(v)
    BY <1>1, <1>8, ConcatProperties
  <1> QED BY <1>2, <1>4, <1>5, <1>6, <1>7, <1>9

\* A poller gets another memory, the others keep theirs.
LEMMA Replaces ==
  ASSUME poll \in [Pollers -> Poll], NEW p \in Pollers, NEW row,
         poll' = [poll EXCEPT ![p] = row]
  PROVE  /\ poll'[p] = row /\ \A q \in Pollers \ {p} : poll'[q] = poll[q]
         /\ row \in Poll => poll' \in [Pollers -> Poll]
  OBVIOUS

\* A poll that writes its own memory leaves the others sound.
LEMMA ReplacesSound ==
  ASSUME PollsTyped, NEW p \in Pollers, NEW row \in Poll, PageSound(row),
         poll' = [poll EXCEPT ![p] = row]
  PROVE  PollsTyped'
  <1>1. /\ poll'[p] = row /\ \A q \in Pollers \ {p} : poll'[q] = poll[q]
        /\ poll' \in [Pollers -> Poll]
    BY Replaces DEF PollsTyped
  <1>2. ASSUME NEW q \in Pollers PROVE PageSound(poll'[q])
    BY <1>1 DEF PollsTyped
  <1> QED BY <1>1, <1>2 DEF PollsTyped

\* What a poll reads, and what is left of it.
LEMMA ReadTyped ==
  ASSUME SourcesTyped, NEW s \in Ids
  PROVE  Read(s) \in Poll /\ PageSound(Read(s))
  <1>1. Read(s) \in Poll
    BY InitialRows DEF Read, Poll, SourcesTyped
  <1>2. Read(s).pc = "idle"
    BY InitialRows DEF Read, NoPoll
  <1> QED BY <1>1, <1>2 DEF PageSound

\* A poll that is over keeps a sound memory.
LEMMA OverTyped ==
  ASSUME PollsTyped, NEW p \in Pollers, NEW pc \in {"failed", "release"}
  PROVE  Over(p, pc) \in Poll /\ PageSound(Over(p, pc))
  <1>1. Over(p, pc) \in Poll /\ Over(p, pc).pc = pc
    BY InitialRows DEF Over, Poll, PollsTyped, Places, NoPoll
  <1> QED BY <1>1 DEF PageSound

-----------------------------------------------------------------------------
(* Every action keeps the types. *)

\* The page a poll fetches.
LEMMA FetchedPage ==
  ASSUME SourcesTyped, NEW s \in Ids, NEW c \in 0..Most, NEW page,
         page = IF s \in Telegram THEN History(s, c) ELSE Newest(s)
  PROVE  LET high == Max({c} \cup ToSet(page))
         IN  /\ page \in Seq(1..Most) /\ Len(page) \in Nat
             /\ high \in 0..Most /\ Len(page) <= high /\ c <= high
             /\ s \in Telegram /\ c # 0 =>
                  high = c + Len(page) /\ \A i \in 1..Len(page) : page[i] = c + i
  <1> DEFINE high == Max({c} \cup ToSet(page))
  <1>1. page = Newest(s) \/ (s \in Telegram /\ c # 0 /\ page = OldestAfter(s, c))
    BY DEF History
  <1>2. c \in Nat /\ Most \in Nat /\ posts[s] \in 1..Most
    BY MostIsMost DEF SourcesTyped
  <1>3. CASE page = Newest(s) /\ ~(s \in Telegram /\ c # 0)
    <2>1. /\ page \in Seq(1..Most) /\ Len(page) \in Nat /\ Len(page) <= posts[s]
          /\ posts[s] \in ToSet(page)
      BY <1>3, NewestFirst DEF SourcesTyped
    <2>2. high \in 0..Most /\ c <= high /\ \A i \in 1..Len(page) : page[i] <= high
      BY <2>1, High
    <2>3. PICK i \in 1..Len(page) : page[i] = posts[s]
      BY <2>1, LenProperties DEF ToSet
    <2> HIDE DEF high
    <2>4. posts[s] <= high
      BY <2>2, <2>3
    <2>5. Len(page) <= high
      BY <1>2, <2>1, <2>2, <2>4
    <2> QED BY <1>3, <2>1, <2>2, <2>5 DEF high
  <1>4. CASE s \in Telegram /\ c # 0 /\ page = OldestAfter(s, c)
    <2>1. /\ page \in Seq(1..Most) /\ Len(page) \in Nat
          /\ \A i \in 1..Len(page) : page[i] = c + i
      BY ZenonT(40), <1>4, OldestFirst DEF SourcesTyped
    <2>2. /\ high \in 0..Most /\ c <= high /\ \A i \in 1..Len(page) : page[i] <= high
          /\ high = c \/ \E i \in 1..Len(page) : high = page[i]
      BY <2>1, High
    <2> HIDE DEF high
    <2>3. high = c + Len(page)
      <3>1. CASE Len(page) = 0
        BY <1>2, <2>2, <3>1
      <3>2. CASE Len(page) # 0
        <4>1. Len(page) \in 1..Len(page)
          BY <2>1, <3>2
        <4>2. c + Len(page) <= high
          BY <2>1, <2>2, <4>1
        <4>3. high <= c + Len(page)
          BY <1>2, <2>1, <2>2
        <4> QED BY SMTT(30), <1>2, <2>1, <2>2, <4>2, <4>3
      <3> QED BY <3>1, <3>2
    <2>4. Len(page) <= high
      BY <1>2, <2>1, <2>3
    <2> QED BY <2>1, <2>2, <2>3, <2>4 DEF high
  <1>5. CASE page = Newest(s) /\ s \in Telegram /\ c # 0
    BY <1>4, <1>5 DEF History
  <1> QED BY <1>1, <1>3, <1>4, <1>5

\* What TypeInv says of one poll and of the source it works on.
LEMMA PollTyped ==
  ASSUME TypeInv, NEW p \in Pollers
  PROVE  /\ poll[p] \in Poll /\ PageSound(poll[p])
         /\ poll[p].source \in Ids /\ config[poll[p].source] \in Config
         /\ poll[p].config \in Config /\ poll[p].config.cursor \in 0..Most
         /\ lease[poll[p].source] \in [holder : Pollers \cup {Nobody}, live : BOOLEAN]
  BY DEF TypeInv, PollsTyped, SourcesTyped, Poll, Config

\* The memory of a poller stays sound whatever it does.
LEMMA ProceedTyped ==
  ASSUME TypeInv, NEW p \in Pollers, Proceed(p)
  PROVE  PollsTyped'
  <1> USE DEF TypeInv
  <1> DEFINE m == poll[p]
  <1>1. /\ m \in Poll /\ PageSound(m) /\ m.source \in Ids /\ config[m.source] \in Config
        /\ m.config.cursor \in 0..Most
    BY PollTyped
  <1>2. CASE Acquire(p)
    <2>1. CASE poll' = [poll EXCEPT ![p] = NoPoll]
      BY <2>1, InitialRows, ReplacesSound
    <2>2. CASE poll' # [poll EXCEPT ![p] = NoPoll]
      <3>1. PICK pc \in {"write", "fetch", "clear"} : poll' = [poll EXCEPT ![p].pc = pc]
        BY <1>2, <2>2 DEF Acquire
      <3> DEFINE row == [m EXCEPT !.pc = pc]
      <3>2. row \in Poll /\ row.pc = pc /\ poll' = [poll EXCEPT ![p] = row]
        BY <1>1, <3>1 DEF Poll, Places
      <3>3. PageSound(row)
        BY <3>2 DEF PageSound
      <3> HIDE DEF row
      <3> QED BY <3>2, <3>3, ReplacesSound
    <2> QED BY <2>1, <2>2
  <1>3. CASE Fetch(p)
    <2> DEFINE s == m.source
               c == m.config.cursor
               page == IF s \in Telegram THEN History(s, c) ELSE Newest(s)
               high == Max({c} \cup ToSet(page))
               pc == IF page = <<>> THEN AfterPage(s) ELSE "reconcile"
               row == [m EXCEPT !.pc = pc, !.page = page, !.fetched = Len(page), !.high = high]
    <2>1. poll' = [poll EXCEPT ![p] = row]
      BY <1>3 DEF Fetch
    <2>2. page \in Seq(1..Most) /\ Len(page) \in Nat /\ high \in 0..Most /\ Len(page) <= high
      BY <1>1, FetchedPage
    <2>3. pc \in Places /\ (pc = "reconcile" => page # <<>>)
      BY DEF AfterPage, Places
    <2> HIDE DEF page, high, pc
    <2>4. /\ row \in Poll /\ row.pc = pc /\ row.page = page /\ row.fetched = Len(page)
          /\ row.high = high
      BY <1>1, <2>2, <2>3 DEF Poll
    <2> HIDE DEF row
    <2>5. PageSound(row)
      BY <2>2, <2>3, <2>4 DEF PageSound
    <2> QED BY <2>1, <2>4, <2>5, ReplacesSound
  <1>4. CASE Reconcile(p)
    <2> DEFINE pc == IF Len(m.page) = 1 THEN AfterPage(m.source) ELSE "reconcile"
               row == [m EXCEPT !.pc = pc, !.page = Tail(m.page)]
    <2>1. m.pc = "reconcile" /\ m.page # <<>> /\ m.page \in Seq(1..Most)
      BY <1>1, <1>4 DEF Reconcile, PageSound, Poll
    <2>2. poll' = [poll EXCEPT ![p] = row]
      BY <1>1, <1>4, <2>1 DEF Reconcile, Poll
    <2>3. Tail(m.page) \in Seq(1..Most) /\ Len(Tail(m.page)) = Len(m.page) - 1
          /\ Len(m.page) \in Nat
      BY <2>1, HeadTailProperties, LenProperties
    <2>4. pc \in Places /\ (pc = "reconcile" => Tail(m.page) # <<>>)
      <3>1. AfterPage(m.source) \in {"stage", "clear"}
        BY DEF AfterPage
      <3>2. pc = "reconcile" => Len(m.page) # 1
        BY <3>1
      <3>3. Len(Tail(m.page)) = 0 => Len(m.page) = 1
        BY <2>3
      <3>4. Tail(m.page) = <<>> => Len(Tail(m.page)) = 0
        BY <2>3, EmptySeq
      <3>5. pc \in Places
        BY <3>1 DEF Places
      <3> QED BY <3>2, <3>3, <3>4, <3>5
    <2> HIDE DEF pc
    <2>5. /\ row \in Poll /\ row.pc = pc /\ row.page = Tail(m.page) /\ row.fetched = m.fetched
          /\ row.high = m.high
      BY <1>1, <2>3, <2>4 DEF Poll
    <2>6. m.fetched <= m.high
      BY <1>1, <2>1 DEF PageSound
    <2> HIDE DEF row, m
    <2>7. PageSound(row)
      BY <2>4, <2>5, <2>6 DEF PageSound
    <2> QED BY <2>2, <2>5, <2>7, ReplacesSound
  <1>5. CASE Stage(p)
    <2> DEFINE c == config[m.source]
               hint == m.config.cursor > 0 /\ m.fetched >= Page
               next == IF m.high < c.cursor THEN c
                       ELSE [c EXCEPT !.cursor = m.high, !.hint = hint]
               row == [m EXCEPT !.pc = "commit", !.config = next, !.dirty = next # c]
    <2>1. m.pc = "stage" /\ poll' = [poll EXCEPT ![p] = row]
      BY <1>5 DEF Stage
    <2>2. m.high \in 0..Most /\ hint \in BOOLEAN
      BY <1>1 DEF Poll
    <2> HIDE DEF hint
    <2>3. next \in Config
      BY <1>1, <2>2 DEF Config
    <2> HIDE DEF next, c
    <2>4. (next # c) \in BOOLEAN
      OBVIOUS
    <2>5. row \in Poll /\ row.fetched = m.fetched /\ row.high = m.high /\ row.pc = "commit"
      BY <1>1, <2>3, <2>4 DEF Poll, Places
    <2>6. m.fetched <= m.high
      BY <1>1, <2>1 DEF PageSound
    <2> HIDE DEF row
    <2>7. PageSound(row)
      BY <2>5, <2>6 DEF PageSound
    <2> QED BY <2>1, <2>5, <2>7, ReplacesSound
  <1>6. CASE Commit(p)
    <2> DEFINE row == [m EXCEPT !.pc = "clear"]
    <2>1. poll' = [poll EXCEPT ![p] = row]
      BY <1>6 DEF Commit
    <2>2. row \in Poll /\ row.pc = "clear"
      BY <1>1 DEF Poll, Places
    <2> HIDE DEF row
    <2>3. PageSound(row)
      BY <2>2 DEF PageSound
    <2> QED BY <2>1, <2>2, <2>3, ReplacesSound
  <1>7. CASE Clear(p)
    <2>1. poll' = [poll EXCEPT ![p] = Over(p, "release")]
      BY <1>7 DEF Clear
    <2> QED BY <2>1, OverTyped, ReplacesSound
  <1>8. CASE Release(p)
    <2>1. poll' = [poll EXCEPT ![p] = NoPoll]
      BY <1>8 DEF Release
    <2> QED BY <2>1, InitialRows, ReplacesSound
  <1> QED BY <1>2, <1>3, <1>4, <1>5, <1>6, <1>7, <1>8 DEF Proceed

\* So does whatever else may happen to it.
LEMMA OthersTyped ==
  ASSUME TypeInv, [Next]_vars, \A p \in Pollers : ~Proceed(p)
  PROVE  PollsTyped'
  <1> USE DEF TypeInv
  <1>1. CASE StartNext
    <2> DEFINE s == Head(rotation.todo)
               row == [Read(s) EXCEPT !.pc = "acquire"]
    <2>1. CASE UNCHANGED poll
      BY <2>1 DEF PollsTyped
    <2>2. CASE ~UNCHANGED poll
      <3>1. rotation.todo # <<>> /\ poll' = [poll EXCEPT ![Worker] = row]
        BY <1>1, <2>2 DEF StartNext
      <3>2. s \in Ids
        BY <3>1, HeadTailProperties DEF RotationTyped
      <3>3. row \in Poll /\ row.pc = "acquire"
        BY <3>2, ReadTyped DEF Poll, Places
      <3> HIDE DEF row
      <3>4. PageSound(row)
        BY <3>3 DEF PageSound
      <3> QED BY <3>1, <3>3, <3>4, InitialRows, ReplacesSound
    <2> QED BY <2>1, <2>2
  <1>2. ASSUME NEW q \in Requests, Ask(q) PROVE PollsTyped'
    <2>1. PICK s \in Ids :
             \/ poll' = [poll EXCEPT ![q] = [Read(s) EXCEPT !.pc = "acquire"]]
             \/ \E value \in BOOLEAN :
                  poll' = [poll EXCEPT ![q] = [Read(s) EXCEPT !.pc = "lock", !.wanted = value]]
             \/ poll' = [poll EXCEPT ![q] = [NoPoll EXCEPT !.pc = "legacy", !.source = s,
                                                           !.wanted = legacy[s]]]
      BY <1>2 DEF Ask
    <2>2. q \in Pollers /\ Read(s) \in Poll /\ NoPoll \in Poll /\ legacy[s] \in BOOLEAN
      BY InitialRows, ReadTyped DEF Pollers, SourcesTyped
    <2>3. ASSUME NEW row \in Poll, poll' = [poll EXCEPT ![q] = row],
                 row.pc \in {"acquire", "lock", "legacy"}
          PROVE  PollsTyped'
      BY <2>2, <2>3, ReplacesSound DEF PageSound
    <2>4. CASE poll' = [poll EXCEPT ![q] = [Read(s) EXCEPT !.pc = "acquire"]]
      <3> DEFINE row == [Read(s) EXCEPT !.pc = "acquire"]
      <3>1. row \in Poll /\ row.pc = "acquire"
        BY <2>2 DEF Poll, Places
      <3> HIDE DEF row
      <3> QED BY <2>3, <2>4, <3>1 DEF row
    <2>5. ASSUME NEW value \in BOOLEAN,
                 poll' = [poll EXCEPT ![q] = [Read(s) EXCEPT !.pc = "lock", !.wanted = value]]
          PROVE  PollsTyped'
      <3> DEFINE row == [Read(s) EXCEPT !.pc = "lock", !.wanted = value]
      <3>1. row \in Poll /\ row.pc = "lock"
        BY <2>2 DEF Poll, Places
      <3> HIDE DEF row
      <3> QED BY <2>3, <2>5, <3>1 DEF row
    <2>6. CASE poll' = [poll EXCEPT ![q] = [NoPoll EXCEPT !.pc = "legacy", !.source = s,
                                                          !.wanted = legacy[s]]]
      <3> DEFINE row == [NoPoll EXCEPT !.pc = "legacy", !.source = s, !.wanted = legacy[s]]
      <3>1. row \in Poll /\ row.pc = "legacy"
        BY <2>2 DEF Poll, Places
      <3> HIDE DEF row
      <3> QED BY <2>3, <2>6, <3>1 DEF row
    <2> QED BY <2>1, <2>4, <2>5, <2>6
  <1>3. ASSUME NEW p \in Pollers, Fail(p) \/ Cancel(p) PROVE PollsTyped'
    <2>1. PICK pc \in {"failed", "release"} : poll' = [poll EXCEPT ![p] = Over(p, pc)]
      BY <1>3 DEF Fail, Cancel
    <2> QED BY <2>1, OverTyped, ReplacesSound
  <1>4. ASSUME NEW p \in Pollers, Die(p) \/ ReleaseFails(p) PROVE PollsTyped'
    <2>1. poll' = [poll EXCEPT ![p] = NoPoll]
      BY <1>4 DEF Die, ReleaseFails
    <2> QED BY <2>1, InitialRows, ReplacesSound
  <1>5. CASE ReadForFailure
    <2> DEFINE m == poll[Worker]
               c == config[m.source]
               next == [c EXCEPT !.until = failures]
               row == [m EXCEPT !.pc = "record", !.config = next]
    <2>1. poll' = [poll EXCEPT ![Worker] = row]
      BY <1>5 DEF ReadForFailure
    <2>2. m \in Poll /\ c \in Config /\ failures \in 0..MaxFailures
      BY InitialRows, PollTyped DEF WorldTyped
    <2> HIDE DEF c
    <2>3. next \in Config
      BY <2>2 DEF Config
    <2> HIDE DEF next
    <2>4. row \in Poll /\ row.pc = "record"
      BY <2>2, <2>3 DEF Poll, Places
    <2> HIDE DEF row
    <2>5. PageSound(row)
      BY <2>4 DEF PageSound
    <2> QED BY <2>1, <2>4, <2>5, InitialRows, ReplacesSound
  <1>6. CASE RecordFailure
    <2>1. poll' = [poll EXCEPT ![Worker] = Over(Worker, "release")]
      BY <1>6 DEF RecordFailure
    <2> QED BY <2>1, InitialRows, OverTyped, ReplacesSound
  <1>7. ASSUME NEW q \in Requests, WriteSettings(q) \/ Mirror(q) PROVE PollsTyped'
    <2>1. q \in Pollers
      BY DEF Pollers
    <2>2. poll' = [poll EXCEPT ![q] = Over(q, "release")] \/ poll' = [poll EXCEPT ![q] = NoPoll]
      BY <1>7 DEF WriteSettings, Mirror
    <2> QED BY <2>1, <2>2, InitialRows, OverTyped, ReplacesSound
  <1>8. ASSUME NEW s \in Ids, Outlive(s) PROVE PollsTyped'
    <2> DEFINE h == lease[s].holder
               row == [poll[h] EXCEPT !.late = TRUE]
    <2>1. h \in Pollers
      BY <1>8 DEF Outlive, Carried
    <2>2. poll[h] \in Poll /\ PageSound(poll[h])
      BY <2>1, PollTyped
    <2>3. poll' = [poll EXCEPT ![h] = row]
      BY <1>8 DEF Outlive
    <2> HIDE DEF h
    <2>4. /\ row \in Poll /\ row.pc = poll[h].pc /\ row.page = poll[h].page
          /\ row.fetched = poll[h].fetched /\ row.high = poll[h].high
      BY <2>2 DEF Poll
    <2> HIDE DEF row
    <2>5. PageSound(row)
      BY <2>2, <2>4 DEF PageSound
    <2> QED BY <2>1, <2>3, <2>4, <2>5, ReplacesSound
  <1>9. CASE UNCHANGED poll
    BY <1>9 DEF PollsTyped
  <1>10. ASSUME NEW s \in Ids, Post(s) \/ BackoffEnds(s) \/ Expire(s) PROVE PollsTyped'
    BY <1>9, <1>10 DEF Post, BackoffEnds, Expire
  <1>11. CASE Tick
    BY <1>9, <1>11 DEF Tick
  <1>12. ASSUME NEW q \in Requests, ReadMirrored(q) PROVE PollsTyped'
    <2> DEFINE m == poll[q]
               row == [Read(m.source) EXCEPT !.pc = "mirror", !.wanted = m.wanted]
    <2>1. q \in Pollers /\ poll' = [poll EXCEPT ![q] = row]
      BY <1>12 DEF Pollers, ReadMirrored
    <2>2. m.source \in Ids /\ m.wanted \in BOOLEAN
      BY <2>1, PollTyped DEF Poll
    <2> HIDE DEF m
    <2>3. row \in Poll /\ row.pc = "mirror"
      <3>1. Read(m.source) \in Poll
        BY <2>2, ReadTyped
      <3> QED BY <2>2, <3>1 DEF Poll, Places
    <2> HIDE DEF row
    <2>4. PageSound(row)
      BY <2>3 DEF PageSound
    <2> QED BY <2>1, <2>3, <2>4, ReplacesSound
  <1> QED BY <1>1, <1>2, <1>3, <1>4, <1>5, <1>6, <1>7, <1>8, <1>9, <1>10, <1>11, <1>12, InitialRows
          DEF Next, Work, Serve, Pollers, vars

\* The window of the worker.
LEMMA RotationStep ==
  ASSUME TypeInv, [Next]_vars
  PROVE  RotationTyped'
  <1> USE DEF TypeInv
  <1>1. 0 \in 0..Sources /\ Sources \in Nat
    BY SourceIngestionAssumption
  <1>2. CASE rotation' = [last |-> 0, todo |-> <<>>]
    BY <1>1, <1>2, EmptySeq DEF RotationTyped
  <1>3. CASE Tick /\ Rotating # {}
    <2>1. PICK order \in Orders({s \in Rotating : ~BackoffActive(s, config[s])}) :
             rotation' = [last |-> Boundary, todo |-> order]
      BY <1>3 DEF Tick
    <2>2. order \in Seq(Ids) /\ Len(order) <= Sources
      <3>1. {s \in Rotating : ~BackoffActive(s, config[s])} \in SUBSET Ids
        BY DEF Rotating
      <3> QED BY <3>1, OrdersOfSources
    <2>3. Boundary \in 0..Sources
      BY <1>1, <1>3, WindowOfSources DEF Ids
    <2> QED BY <2>1, <2>2, <2>3 DEF RotationTyped
  <1>4. CASE StartNext
    <2>1. rotation.todo # <<>> /\ rotation' = [rotation EXCEPT !.todo = Tail(rotation.todo)]
      BY <1>4 DEF StartNext, RotationTyped
    <2>2. /\ Tail(rotation.todo) \in Seq(Ids) /\ Len(Tail(rotation.todo)) = Len(rotation.todo) - 1
          /\ Len(rotation.todo) \in Nat
      BY <2>1, HeadTailProperties, LenProperties DEF RotationTyped
    <2>3. Len(Tail(rotation.todo)) <= Sources
      BY <1>1, <2>2 DEF RotationTyped
    <2>4. rotation'.todo = Tail(rotation.todo) /\ rotation' \in [last : 0..Sources, todo : Seq(Ids)]
      BY <2>1, <2>2 DEF RotationTyped
    <2> QED BY <2>3, <2>4 DEF RotationTyped
  <1>5. ASSUME NEW p \in Pollers, Cancel(p) PROVE RotationTyped'
    <2>1. CASE rotation' = [rotation EXCEPT !.todo = <<>>]
      <3>1. rotation' \in [last : 0..Sources, todo : Seq(Ids)] /\ rotation'.todo = <<>>
        BY <2>1, EmptySeq DEF RotationTyped
      <3> QED BY <1>1, <3>1 DEF RotationTyped
    <2>2. CASE UNCHANGED rotation
      BY <2>2 DEF RotationTyped
    <2> QED BY <1>5, <2>1, <2>2 DEF Cancel
  <1>6. CASE UNCHANGED rotation
    BY <1>6 DEF RotationTyped
  <1>7. ASSUME NEW p \in Pollers, Fail(p) \/ Die(p) \/ ReleaseFails(p) \/ Proceed(p)
        PROVE  RotationTyped'
    BY <1>2, <1>6, <1>7 DEF Fail, Die, ReleaseFails, Proceed, Acquire, Fetch, Reconcile, Stage,
                            Commit, Clear, Release
  <1>8. ASSUME NEW q \in Requests, Ask(q) \/ Serve(q) PROVE RotationTyped'
    <2>1. q \in Pollers
      BY DEF Pollers
    <2> QED BY <1>6, <1>7, <1>8, <2>1 DEF Ask, Serve, WriteSettings, ReadMirrored, Mirror
  <1>9. ASSUME NEW s \in Ids, Post(s) \/ BackoffEnds(s) \/ Expire(s) \/ Outlive(s)
        PROVE  RotationTyped'
    BY <1>6, <1>9 DEF Post, BackoffEnds, Expire, Outlive
  <1>10. CASE ReadForFailure \/ RecordFailure \/ UNCHANGED vars
    BY <1>6, <1>10 DEF ReadForFailure, RecordFailure, vars
  <1>11. CASE Tick /\ Rotating = {}
    BY <1>2, <1>11 DEF Tick
  <1> QED BY <1>3, <1>4, <1>5, <1>7, <1>8, <1>9, <1>10, <1>11, InitialRows DEF Next, Work

\* The rows of the sources.
LEMMA SourcesStep ==
  ASSUME TypeInv, [Next]_vars
  PROVE  SourcesTyped' /\ WorldTyped'
  <1> USE DEF TypeInv
  <1>0. /\ Most \in Nat \ {0} /\ MaxAsked \in Nat /\ MaxFailures \in Nat /\ MaxFaults \in Nat
        /\ Worker \in Pollers
    BY InitialRows, SourceIngestionAssumption
  <1>1. ASSUME NEW s \in Ids, Post(s) PROVE SourcesTyped' /\ WorldTyped'
    <2>1. posts[s] + 1 \in 1..Most
      BY SMTT(30), <1>0, <1>1, MostIsMost, SourceIngestionAssumption DEF Post, SourcesTyped, Ids
    <2>2. posts' \in [Ids -> 1..Most]
      BY <1>1, <2>1 DEF Post, SourcesTyped
    <2> QED BY <1>1, <2>2 DEF Post, SourcesTyped, WorldTyped, bounds
  <1>2. ASSUME NEW s \in Ids, BackoffEnds(s) PROVE SourcesTyped' /\ WorldTyped'
    <2>1. config[s].until \in 0..MaxFailures
      BY DEF SourcesTyped, Config
    <2> QED BY <1>2, <2>1 DEF BackoffEnds, SourcesTyped, WorldTyped, bounds
  <1> DEFINE Lease == [holder : Pollers \cup {Nobody}, live : BOOLEAN]
  <1>L. ASSUME NEW s \in Ids, NEW row \in Lease, lease' \in {lease, [lease EXCEPT ![s] = row]}
        PROVE  lease' \in [Ids -> Lease]
    BY <1>L DEF SourcesTyped
  <1>3. ASSUME NEW s \in Ids, Expire(s) \/ Outlive(s) PROVE SourcesTyped' /\ WorldTyped'
    <2>1. lease' \in [Ids -> Lease]
      <3> DEFINE row == [lease[s] EXCEPT !.live = FALSE]
      <3>1. row \in Lease
        BY DEF SourcesTyped
      <3>2. lease' = [lease EXCEPT ![s] = row]
        BY <1>3 DEF Expire, Outlive
      <3> HIDE DEF row, Lease
      <3> QED BY <1>L, <3>1, <3>2
    <2>2. UNCHANGED <<posts, enabled, config, legacy, inbox, since, ended, asked, failures>>
      BY <1>3 DEF Expire, Outlive, bounds
    <2>3. faults' \in 0..MaxFaults
      BY <1>0, <1>3 DEF Expire, Outlive, Fault, WorldTyped, bounds
    <2> QED BY <2>1, <2>2, <2>3 DEF SourcesTyped, WorldTyped
  <1>4. ASSUME NEW p \in Pollers, Acquire(p) \/ Release(p) PROVE SourcesTyped' /\ WorldTyped'
    <2>1. lease' \in [Ids -> Lease]
      <3>1. [holder |-> p, live |-> TRUE] \in Lease /\ Free \in Lease
        BY DEF Free
      <3>2. \/ lease' = lease
            \/ lease' = [lease EXCEPT ![poll[p].source] = [holder |-> p, live |-> TRUE]]
            \/ lease' = [lease EXCEPT ![poll[p].source] = Free]
        BY <1>4 DEF Acquire, Release
      <3> HIDE DEF Lease
      <3> QED BY <1>L, <3>1, <3>2, PollTyped
    <2> QED BY <1>4, <2>1 DEF Acquire, Release, SourcesTyped, WorldTyped, bounds
  <1>5. ASSUME NEW p \in Pollers, Reconcile(p) PROVE SourcesTyped' /\ WorldTyped'
    <2>1. Head(poll[p].page) \in 1..Most
      BY <1>5, PollTyped, HeadTailProperties DEF Reconcile, PageSound, Poll
    <2>2. inbox' \in [Ids -> SUBSET (1..Most)]
      BY <1>5, <2>1 DEF Reconcile, SourcesTyped
    <2> QED BY <1>5, <2>2 DEF Reconcile, SourcesTyped, WorldTyped, bounds
  <1>6. ASSUME NEW p \in Pollers, NEW next \in Config, NEW s \in Ids,
               config' \in {config, [config EXCEPT ![s] = next]}
        PROVE  config' \in [Ids -> Config]
    BY <1>6 DEF SourcesTyped
  <1>7. ASSUME NEW p \in Pollers, Commit(p) PROVE SourcesTyped' /\ WorldTyped'
    <2>1. config' \in [Ids -> Config]
      BY <1>6, <1>7, PollTyped DEF Commit
    <2>2. poll[p].high - poll[p].fetched \in Unread..Most
      <3>1. /\ poll[p].high \in 0..Most /\ poll[p].fetched \in Nat
            /\ poll[p].fetched <= poll[p].high
        BY <1>7, PollTyped DEF Commit, PageSound, Poll
      <3> QED BY <1>0, <3>1 DEF Unread
    <2>3. since' \in [Ids -> Unread..Most]
      BY <1>7, <2>2 DEF Commit, SourcesTyped
    <2> QED BY <1>7, <2>1, <2>3 DEF Commit, SourcesTyped, WorldTyped, bounds
  <1>8. ASSUME NEW p \in Pollers, Clear(p) PROVE SourcesTyped' /\ WorldTyped'
    <2>1. [poll[p].config EXCEPT !.until = 0] \in Config
      BY <1>0, PollTyped DEF Config
    <2>2. config' \in [Ids -> Config]
      BY <1>6, <1>8, <2>1, PollTyped DEF Clear
    <2> QED BY <1>8, <2>2 DEF Clear, SourcesTyped, WorldTyped, bounds
  <1>9. CASE RecordFailure
    <2>1. config' \in [Ids -> Config]
      BY <1>0, <1>6, <1>9, PollTyped DEF RecordFailure
    <2> QED BY <1>9, <2>1 DEF RecordFailure, SourcesTyped, WorldTyped, bounds
  <1>10. ASSUME NEW q \in Requests, WriteSettings(q) \/ Mirror(q)
         PROVE  SourcesTyped' /\ WorldTyped'
    <2>1. q \in Pollers /\ poll[q].wanted \in BOOLEAN
      BY PollTyped DEF Pollers, Poll
    <2>2. enabled' \in [Ids -> BOOLEAN] /\ legacy' \in [Ids -> BOOLEAN]
      BY <1>10, <2>1 DEF WriteSettings, Mirror, SourcesTyped
    <2>3. [poll[q].config EXCEPT !.mirrored = TRUE] \in Config
      BY <2>1, PollTyped DEF Config
    <2>4. config' \in [Ids -> Config]
      <3>1. CASE UNCHANGED config
        BY <3>1 DEF SourcesTyped
      <3>2. CASE config' = [config EXCEPT ![poll[q].source] =
                              [poll[q].config EXCEPT !.mirrored = TRUE]]
        BY <1>6, <2>1, <2>3, <3>2, PollTyped
      <3> QED BY <1>10, <3>1, <3>2 DEF WriteSettings, Mirror
    <2> QED BY <1>10, <2>2, <2>4 DEF WriteSettings, Mirror, SourcesTyped, WorldTyped, bounds
  <1>11. CASE UNCHANGED <<posts, enabled, config, legacy, lease, inbox, since, ended>>
    <2>1. SourcesTyped'
      BY <1>11 DEF SourcesTyped
    <2>2. CASE UNCHANGED bounds
      BY <2>1, <2>2 DEF WorldTyped, bounds
    <2>3. ASSUME NEW q \in Requests, Ask(q) PROVE WorldTyped'
      <3>1. asked < MaxAsked /\ asked' = asked + 1 /\ UNCHANGED <<failures, faults>>
        BY <2>3 DEF Ask
      <3> QED BY <1>0, <3>1 DEF WorldTyped
    <2>4. ASSUME NEW p \in Pollers, Fail(p) PROVE WorldTyped'
      BY <1>0, <2>4 DEF Fail, WorldTyped
    <2>5. ASSUME NEW p \in Pollers, Die(p) \/ Cancel(p) \/ ReleaseFails(p) PROVE WorldTyped'
      BY <1>0, <2>5 DEF Die, Cancel, ReleaseFails, Fault, WorldTyped
    <2>6. UNCHANGED bounds \/ (\E q \in Requests : Ask(q))
          \/ (\E p \in Pollers : Fail(p) \/ Die(p) \/ Cancel(p) \/ ReleaseFails(p))
          \/ \E s \in Ids : Outlive(s)
      BY ZenonT(40) DEF Next, Work, Serve, Proceed, Tick, StartNext, ReadForFailure, RecordFailure,
             Acquire, Fetch, Reconcile, Stage, Commit, Clear, Release, WriteSettings,
             ReadMirrored, Mirror, Post, BackoffEnds, Expire, vars
    <2> QED BY <1>3, <2>1, <2>2, <2>3, <2>4, <2>5, <2>6
  <1>12. ASSUME NEW p \in Pollers, Proceed(p) PROVE SourcesTyped' /\ WorldTyped'
    BY <1>4, <1>5, <1>7, <1>8, <1>11, <1>12 DEF Proceed, Fetch, Stage
  <1>13. ASSUME NEW p \in Pollers, Fail(p) \/ Die(p) \/ Cancel(p) \/ ReleaseFails(p)
         PROVE  SourcesTyped' /\ WorldTyped'
    BY <1>11, <1>13 DEF Fail, Die, Cancel, ReleaseFails
  <1>14. ASSUME NEW q \in Requests, Ask(q) \/ Serve(q) PROVE SourcesTyped' /\ WorldTyped'
    <2>1. q \in Pollers
      BY DEF Pollers
    <2>2. CASE Ask(q)
      BY <1>11, <2>2 DEF Ask
    <2>3. CASE ReadMirrored(q)
      BY <1>11, <2>3 DEF ReadMirrored
    <2> QED BY <1>10, <1>12, <1>14, <2>1, <2>2, <2>3 DEF Serve
  <1>15. CASE Work
    BY <1>0, <1>9, <1>11, <1>12, <1>15 DEF Work, Tick, StartNext, ReadForFailure
  <1>16. CASE UNCHANGED vars
    BY <1>11, <1>16 DEF vars
  <1> QED BY <1>1, <1>2, <1>3, <1>13, <1>14, <1>15, <1>16 DEF Next

\* TypeInv is an invariant.
LEMMA TypeInvCorrect == Spec => []TypeInv
  <1>1. Init => TypeInv
    <2> SUFFICES ASSUME Init PROVE TypeInv
      OBVIOUS
    <2>1. /\ \A s \in Ids : (IF s \in Fresh THEN 1 ELSE 2) \in 1..Most
          /\ {} \in SUBSET (1..Most) /\ Unread \in Unread..Most /\ 1 \in Unread..Most
      BY InitialRows, MostIsMost, SourceIngestionAssumption DEF Ids, Unread
    <2>2. \A s \in Ids : [NoConfig EXCEPT !.cursor = IF s \in Telegram THEN 1 ELSE 0,
                                         !.mirrored = TRUE] \in Config
      <3>1. 0 \in 0..Most /\ 1 \in 0..Most
        BY InitialRows
      <3>2. ASSUME NEW c \in 0..Most
            PROVE  [NoConfig EXCEPT !.cursor = c, !.mirrored = TRUE] \in Config
        BY <3>2, InitialRows DEF Config
      <3> QED BY <3>1, <3>2
    <2>3. SourcesTyped
      BY <2>1, <2>2, InitialRows DEF Init, SourcesTyped, Free
    <2>4. WorldTyped /\ PollsTyped
      <3>0. 0 \in 0..MaxAsked /\ 0 \in 0..MaxFailures /\ 0 \in 0..MaxFaults
        BY SourceIngestionAssumption
      <3>a. asked = 0 /\ failures = 0 /\ faults = 0
        BY DEF Init
      <3>1. WorldTyped
        BY <3>0, <3>a DEF WorldTyped
      <3>2. \A p \in Pollers : poll[p] = NoPoll
        BY DEF Init
      <3>3. poll \in [Pollers -> Poll]
        BY InitialRows DEF Init
      <3> QED BY <3>1, <3>2, <3>3, InitialRows DEF PollsTyped
    <2>5. RotationTyped
      <3>1. 0 \in 0..Sources /\ Sources \in Nat
        BY SourceIngestionAssumption
      <3>2. <<>> \in Seq(Ids) /\ Len(<<>>) = 0
        BY EmptySeq
      <3>3. rotation = [last |-> 0, todo |-> <<>>]
        BY DEF Init
      <3>4. rotation.todo = <<>> /\ rotation \in [last : 0..Sources, todo : Seq(Ids)]
        BY <3>1, <3>2, <3>3
      <3> QED BY <3>1, <3>2, <3>4 DEF RotationTyped
    <2> QED BY <2>3, <2>4, <2>5 DEF TypeInv
  <1>2. TypeInv /\ [Next]_vars => TypeInv'
    BY ProceedTyped, OthersTyped, RotationStep, SourcesStep DEF TypeInv
  <1> QED BY <1>1, <1>2, PTL DEF Spec

\* Every reachable state is well formed, whatever sources, windows and pages there are: a
\* cursor never passes the messages there are, and what Commit stores is a position.
THEOREM TypeCorrect == Spec => []TypeOK
  <1>1. TypeInv => TypeOK
    <2> SUFFICES ASSUME TypeInv PROVE TypeOK
      OBVIOUS
    <2>1. rotation.last \in 0..Sources /\ rotation.todo \in SeqOf(Ids, Sources)
      <3>1. rotation.todo \in Seq(Ids) /\ Len(rotation.todo) <= Sources
        BY DEF TypeInv, RotationTyped
      <3>2. /\ Len(rotation.todo) \in 0..Sources
            /\ rotation.todo \in [1..Len(rotation.todo) -> Ids]
        BY <3>1, LenProperties, SourceIngestionAssumption
      <3> QED BY <3>2 DEF SeqOf, TypeInv, RotationTyped
    <2>2. \A p \in Pollers : poll[p].source \in Ids /\ poll[p].config \in Config
      BY PollTyped
    <2> QED BY <2>1, <2>2 DEF TypeOK, TypeInv, SourcesTyped, WorldTyped
  <1> QED BY <1>1, TypeInvCorrect, PTL
-----------------------------------------------------------------------------
(* The lease. *)

Carrying == Polling \cup {"failed", "record", "release", "write"}

\* A poller that goes on with what it has, lets go, or starts without the lease.
LEMMA KeepsLease ==
  ASSUME TypeInv, LeaseHeld, NEW p \in Pollers, NEW row, poll' = [poll EXCEPT ![p] = row],
         UNCHANGED lease,
         (row.pc \in Carrying /\ ~row.late) =>
            (Holding(p) /\ ~poll[p].late /\ row.source = poll[p].source)
  PROVE  LeaseHeld'
  <1>1. poll'[p] = row /\ \A q \in Pollers \ {p} : poll'[q] = poll[q]
    BY Replaces DEF TypeInv, PollsTyped
  <1>2. SUFFICES ASSUME NEW q \in Pollers, Holding(q)', ~poll'[q].late
                 PROVE  lease'[poll'[q].source] = [holder |-> q, live |-> TRUE]
    BY DEF LeaseHeld
  <1>3. CASE q = p
    BY <1>1, <1>2, <1>3 DEF LeaseHeld, Holding, Carrying
  <1>4. CASE q # p
    BY <1>1, <1>2, <1>4 DEF LeaseHeld, Holding
  <1> QED BY <1>3, <1>4

\* The row of a source's lease changes in a way that leaves those alone who hold it.
LEMMA LeaseRows ==
  ASSUME TypeInv, NEW s \in Ids, NEW row, lease' = [lease EXCEPT ![s] = row]
  PROVE  lease'[s] = row /\ \A t \in Ids \ {s} : lease'[t] = lease[t]
  BY DEF TypeInv, SourcesTyped

\* A lease is taken over only when it is not live.
LEMMA AcquireKeepsLease ==
  ASSUME TypeInv, LeaseHeld, NEW p \in Pollers, Acquire(p)
  PROVE  LeaseHeld'
  <1> DEFINE s == poll[p].source
             to == IF poll[p].pc = "lock" THEN "write"
                   ELSE IF poll[p].enabled THEN "fetch" ELSE "clear"
  <1>1. CASE UNCHANGED lease /\ poll' = [poll EXCEPT ![p] = NoPoll]
    BY <1>1, KeepsLease DEF NoPoll, Carrying, Polling
  <1>2. CASE /\ ~lease[s].live /\ lease' = [lease EXCEPT ![s] = [holder |-> p, live |-> TRUE]]
             /\ poll' = [poll EXCEPT ![p].pc = to]
    <2> DEFINE row == [poll[p] EXCEPT !.pc = to]
    <2>1. poll' = [poll EXCEPT ![p] = row] /\ row.source = s
      BY <1>2, PollTyped DEF Poll
    <2>2. s \in Ids
      BY PollTyped
    <2> HIDE DEF row
    <2>3. poll'[p] = row /\ \A q \in Pollers \ {p} : poll'[q] = poll[q]
      BY <2>1, Replaces DEF TypeInv, PollsTyped
    <2>4. /\ lease'[s] = [holder |-> p, live |-> TRUE]
          /\ \A t \in Ids \ {s} : lease'[t] = lease[t]
      BY <1>2, <2>2, LeaseRows
    <2>5. SUFFICES ASSUME NEW q \in Pollers, Holding(q)', ~poll'[q].late
                   PROVE  lease'[poll'[q].source] = [holder |-> q, live |-> TRUE]
      BY DEF LeaseHeld
    <2>6. CASE q = p
      BY <2>1, <2>3, <2>4, <2>6
    <2>7. CASE q # p
      <3>1. poll'[q] = poll[q] /\ lease[poll[q].source] = [holder |-> q, live |-> TRUE]
        BY <2>3, <2>5, <2>7 DEF LeaseHeld, Holding
      <3>2. poll[q].source # s /\ poll[q].source \in Ids
        BY <1>2, <3>1, PollTyped
      <3> QED BY <2>4, <3>1, <3>2
    <2> QED BY <2>6, <2>7
  <1> QED BY <1>1, <1>2 DEF Acquire

\* A poller lets go of its own lease only.
LEMMA ReleaseKeepsLease ==
  ASSUME TypeInv, LeaseHeld, NEW p \in Pollers, Release(p)
  PROVE  LeaseHeld'
  <1> DEFINE s == poll[p].source
  <1>1. poll' = [poll EXCEPT ![p] = NoPoll] /\ s \in Ids
    BY PollTyped DEF Release
  <1>2. CASE UNCHANGED lease
    BY <1>1, <1>2, KeepsLease DEF NoPoll, Carrying, Polling
  <1>3. CASE lease[s].holder = p /\ lease' = [lease EXCEPT ![s] = Free]
    <2>1. poll'[p] = NoPoll /\ \A q \in Pollers \ {p} : poll'[q] = poll[q]
      BY <1>1, Replaces DEF TypeInv, PollsTyped
    <2>2. \A t \in Ids \ {s} : lease'[t] = lease[t]
      BY <1>1, <1>3, LeaseRows
    <2>3. SUFFICES ASSUME NEW q \in Pollers, Holding(q)', ~poll'[q].late
                   PROVE  lease'[poll'[q].source] = [holder |-> q, live |-> TRUE]
      BY DEF LeaseHeld
    <2>4. q # p
      BY <2>1, <2>3 DEF Holding, NoPoll, Polling
    <2>5. poll'[q] = poll[q] /\ lease[poll[q].source] = [holder |-> q, live |-> TRUE]
      BY <2>1, <2>3, <2>4 DEF LeaseHeld, Holding
    <2>6. poll[q].source # s /\ poll[q].source \in Ids
      BY <1>3, <2>4, <2>5, PollTyped
    <2> QED BY <2>2, <2>5, <2>6
  <1> QED BY <1>2, <1>3 DEF Release

\* A lease that is carried expires only as outlived.
LEMMA ExpiryKeepsLease ==
  ASSUME TypeInv, LeaseHeld, NEW s \in Ids, Expire(s) \/ Outlive(s)
  PROVE  LeaseHeld'
  <1>1. lease' = [lease EXCEPT ![s] = [lease[s] EXCEPT !.live = FALSE]]
    BY DEF Expire, Outlive
  <1>2. \A t \in Ids \ {s} : lease'[t] = lease[t]
    BY <1>1, LeaseRows
  <1>3. CASE Expire(s)
    <2>1. SUFFICES ASSUME NEW q \in Pollers, Holding(q), ~poll[q].late
                   PROVE  lease'[poll[q].source] = [holder |-> q, live |-> TRUE]
      BY <1>3 DEF Expire, LeaseHeld, Holding
    <2>2. lease[poll[q].source] = [holder |-> q, live |-> TRUE] /\ poll[q].source \in Ids
      BY <2>1, PollTyped DEF LeaseHeld
    <2>3. poll[q].source # s
      BY <1>3, <2>1, <2>2 DEF Expire, Carried
    <2> QED BY <1>2, <2>2, <2>3
  <1>4. CASE Outlive(s)
    <2>1. PICK p \in Pollers : lease[s].holder = p /\ Holding(p) /\ poll[p].source = s
      BY <1>4 DEF Outlive, Carried
    <2> DEFINE row == [poll[p] EXCEPT !.late = TRUE]
    <2>2. poll' = [poll EXCEPT ![p] = row] /\ row.late
      BY <1>4, <2>1, PollTyped DEF Outlive, Poll
    <2> HIDE DEF row
    <2>3. poll'[p] = row /\ \A q \in Pollers \ {p} : poll'[q] = poll[q]
      BY <2>2, Replaces DEF TypeInv, PollsTyped
    <2>4. SUFFICES ASSUME NEW q \in Pollers, Holding(q)', ~poll'[q].late
                   PROVE  lease'[poll'[q].source] = [holder |-> q, live |-> TRUE]
      BY DEF LeaseHeld
    <2>5. q # p
      BY <2>2, <2>3, <2>4
    <2>6. poll'[q] = poll[q] /\ lease[poll[q].source] = [holder |-> q, live |-> TRUE]
      BY <2>3, <2>4, <2>5 DEF LeaseHeld, Holding
    <2>7. poll[q].source # s /\ poll[q].source \in Ids
      BY <2>1, <2>5, <2>6, PollTyped
    <2> QED BY <1>2, <2>6, <2>7
  <1> QED BY <1>3, <1>4

\* A step of a poll that neither takes nor gives back the lease.
LEMMA PollKeepsLease ==
  ASSUME TypeInv, LeaseHeld, NEW p \in Pollers,
         Fetch(p) \/ Reconcile(p) \/ Stage(p) \/ Commit(p)
  PROVE  LeaseHeld'
  <1>1. PICK row : /\ poll' = [poll EXCEPT ![p] = row]
                   /\ row.source = poll[p].source /\ row.late = poll[p].late
    <2>0. poll \in [Pollers -> Poll] /\ poll[p] \in Poll
      BY DEF TypeInv, PollsTyped
    <2>1. poll'[p].source = poll[p].source /\ poll'[p].late = poll[p].late
      <3>1. CASE Fetch(p)
        BY <2>0, <3>1 DEF Fetch, Poll
      <3>2. CASE Reconcile(p)
        BY <2>0, <3>2 DEF Reconcile, Poll
      <3>3. CASE Stage(p)
        BY <2>0, <3>3 DEF Stage, Poll
      <3>4. CASE Commit(p)
        BY <2>0, <3>4 DEF Commit, Poll
      <3> QED BY <3>1, <3>2, <3>3, <3>4
    <2>2. poll' = [poll EXCEPT ![p] = poll'[p]]
      BY <2>0 DEF Fetch, Reconcile, Stage, Commit
    <2> QED BY <2>1, <2>2
  <1>2. UNCHANGED lease /\ Holding(p)
    BY DEF Fetch, Reconcile, Stage, Commit, Holding, Polling
  <1> QED BY <1>1, <1>2, KeepsLease

\* Nobody takes a lease that is carried and has not been outlived, whatever the sources,
\* requests and bounds: a poller lets go of its own lease only, and a lease expires only
\* when nobody carries it or when its holder is late.
THEOREM LeaseCorrect == Spec => []LeaseHeld
  <1>1. Init => LeaseHeld
    <2> SUFFICES ASSUME Init, NEW p \in Pollers PROVE ~Holding(p)
      BY DEF LeaseHeld
    <2>1. poll[p] = NoPoll
      BY DEF Init
    <2> QED BY <2>1 DEF Holding, Polling, NoPoll
  <1>2. ASSUME TypeInv, LeaseHeld, [Next]_vars PROVE LeaseHeld'
    <2>0. Worker \in Pollers /\ Requests \subseteq Pollers
      BY DEF Pollers
    <2>1. CASE UNCHANGED <<lease, poll>>
      BY <1>2, <2>1 DEF LeaseHeld, Holding
    <2>2. ASSUME NEW p \in Pollers, NEW row, row.pc \notin Carrying,
                 poll' = [poll EXCEPT ![p] = row], UNCHANGED lease
          PROVE  LeaseHeld'
      BY <1>2, <2>2, KeepsLease
    <2>3. NoPoll.pc \notin Carrying
      BY DEF NoPoll, Carrying, Polling
    <2>4. ASSUME NEW s, NEW pc \in {"acquire", "lock", "legacy", "mirror"}, NEW wanted
          PROVE  /\ [Read(s) EXCEPT !.pc = pc].pc \notin Carrying
                 /\ [Read(s) EXCEPT !.pc = pc, !.wanted = wanted].pc \notin Carrying
                 /\ [NoPoll EXCEPT !.pc = pc, !.source = s, !.wanted = wanted].pc
                      \notin Carrying
      BY DEF Read, NoPoll, Carrying, Polling
    <2>5. ASSUME NEW p \in Pollers, NEW pc, Holding(p), UNCHANGED lease,
                 poll' = [poll EXCEPT ![p] = Over(p, pc)]
          PROVE  LeaseHeld'
      <3>1. Over(p, pc).source = poll[p].source /\ Over(p, pc).late = poll[p].late
        BY DEF Over, NoPoll
      <3> QED BY <1>2, <2>5, <3>1, KeepsLease
    <2>6. ASSUME NEW p \in Pollers, Clear(p) \/ Fail(p) \/ Cancel(p) PROVE LeaseHeld'
      <3>1. \E pc : poll' = [poll EXCEPT ![p] = Over(p, pc)]
        BY <2>6 DEF Clear, Fail, Cancel
      <3> QED BY <2>5, <2>6, <3>1 DEF Clear, Fail, Cancel, Holding, Polling
    <2>7. ASSUME NEW p \in Pollers, Die(p) \/ ReleaseFails(p) PROVE LeaseHeld'
      BY <2>2, <2>3, <2>7 DEF Die, ReleaseFails
    <2>8. ASSUME NEW p \in Pollers, Proceed(p) PROVE LeaseHeld'
      BY <1>2, <2>6, <2>8, AcquireKeepsLease, ReleaseKeepsLease, PollKeepsLease DEF Proceed
    <2>9. CASE StartNext
      BY <2>0, <2>1, <2>2, <2>4, <2>9 DEF StartNext
    <2>10. CASE ReadForFailure
      <3>1. poll[Worker] \in Poll /\ poll \in [Pollers -> Poll]
        BY <1>2, <2>0 DEF TypeInv, PollsTyped
      <3>2. poll' = [poll EXCEPT ![Worker] = poll'[Worker]]
        BY <2>0, <2>10, <3>1 DEF ReadForFailure
      <3>3. poll'[Worker].source = poll[Worker].source /\ poll'[Worker].late = poll[Worker].late
        BY <2>0, <2>10, <3>1 DEF ReadForFailure, Poll
      <3>4. Holding(Worker) /\ UNCHANGED lease
        BY <2>10 DEF ReadForFailure, Holding
      <3> QED BY <1>2, <2>0, <3>2, <3>3, <3>4, KeepsLease
    <2>11. CASE RecordFailure
      BY <2>0, <2>5, <2>11 DEF RecordFailure, Holding
    <2>12. ASSUME NEW q \in Requests, Ask(q) PROVE LeaseHeld'
      <3>1. PICK s \in Ids :
               \/ poll' = [poll EXCEPT ![q] = [Read(s) EXCEPT !.pc = "acquire"]]
               \/ \E value \in BOOLEAN :
                    poll' = [poll EXCEPT ![q] = [Read(s) EXCEPT !.pc = "lock", !.wanted = value]]
               \/ poll' = [poll EXCEPT ![q] = [NoPoll EXCEPT !.pc = "legacy", !.source = s,
                                                             !.wanted = legacy[s]]]
        BY <2>12 DEF Ask
      <3>2. UNCHANGED lease /\ q \in Pollers
        BY <2>0, <2>12 DEF Ask
      <3>3. ASSUME NEW row, row.pc \notin Carrying, poll' = [poll EXCEPT ![q] = row]
            PROVE  LeaseHeld'
        BY <2>2, <3>2, <3>3
      <3>4. CASE poll' = [poll EXCEPT ![q] = [Read(s) EXCEPT !.pc = "acquire"]]
        BY <2>4, <3>3, <3>4
      <3>5. ASSUME NEW value,
                   poll' = [poll EXCEPT ![q] = [Read(s) EXCEPT !.pc = "lock", !.wanted = value]]
            PROVE  LeaseHeld'
        BY <2>4, <3>3, <3>5
      <3>6. CASE poll' = [poll EXCEPT ![q] = [NoPoll EXCEPT !.pc = "legacy", !.source = s,
                                                            !.wanted = legacy[s]]]
        BY <2>4, <3>3, <3>6
      <3> QED BY <3>1, <3>4, <3>5, <3>6
    <2>13. ASSUME NEW q \in Requests, WriteSettings(q) PROVE LeaseHeld'
      BY <2>0, <2>5, <2>13 DEF WriteSettings, Holding
    <2>14. ASSUME NEW q \in Requests, Mirror(q) PROVE LeaseHeld'
      BY <2>0, <2>2, <2>3, <2>14 DEF Mirror
    <2>15. ASSUME NEW s \in Ids, Expire(s) \/ Outlive(s) PROVE LeaseHeld'
      BY <1>2, <2>15, ExpiryKeepsLease
    <2>16. ASSUME NEW s \in Ids, Post(s) \/ BackoffEnds(s) PROVE LeaseHeld'
      BY <2>1, <2>16 DEF Post, BackoffEnds
    <2>17. CASE Tick \/ UNCHANGED vars
      BY <2>1, <2>17 DEF Tick, vars
    <2>18. ASSUME NEW q \in Requests, ReadMirrored(q) PROVE LeaseHeld'
      BY <2>0, <2>2, <2>4, <2>18 DEF ReadMirrored
    <2> QED BY <1>2, <2>0, <2>6, <2>7, <2>8, <2>9, <2>10, <2>11, <2>12, <2>13, <2>14, <2>15,
               <2>16, <2>17, <2>18 DEF Next, Work, Serve
  <1> QED BY <1>1, <1>2, TypeInvCorrect, PTL DEF Spec
-----------------------------------------------------------------------------
(* What the cursor has passed is in the inbox. *)

Old == Telegram \ Fresh

\* A position of a source that was read before: not the start, and all up to it is there.
Covered(box, s, n) == n >= 1 /\ 2..n \subseteq box[s]

\* Where a poller has no configuration in memory.
Blank == {"idle", "legacy", "failed", "release"}

\* What a poller knows of its source: the cursor it read, and the page, which goes on from
\* what has been reconciled to the position that Stage will write.
Known(box, m) ==
    m.source \in Old =>
        /\ m.pc \notin Blank => Covered(box, m.source, m.config.cursor)
        /\ m.pc = "reconcile" =>
              /\ Covered(box, m.source, m.high - Len(m.page))
              /\ \A i \in 1..Len(m.page) : m.page[i] = m.high - Len(m.page) + i
        /\ m.pc = "stage" => Covered(box, m.source, m.high)

SourcesCovered == \A s \in Old : since[s] = 1 /\ Covered(inbox, s, config[s].cursor)

PollsCovered == \A p \in Pollers : Known(inbox, poll[p])

GapInv == SourcesCovered /\ PollsCovered

\* Nothing leaves the inbox.
LEMMA InboxGrows ==
  ASSUME TypeInv, [Next]_vars
  PROVE  /\ \A s \in Ids : inbox[s] \subseteq inbox'[s]
         /\ \A s \in Ids : \A n : Covered(inbox, s, n) => Covered(inbox', s, n)
         /\ \A m \in Poll : Known(inbox, m) => Known(inbox', m)
  <1>1. UNCHANGED inbox \/ \E p \in Pollers : Reconcile(p)
    BY ZenonT(40) DEF Next, Work, Serve, Proceed, Tick, StartNext, ReadForFailure, RecordFailure,
           Acquire, Fetch, Stage, Commit, Clear, Release, WriteSettings, ReadMirrored, Mirror,
           Ask, Fail, Die, Cancel, ReleaseFails, Post, BackoffEnds, Expire, Outlive, vars, Pollers
  <1>2. \A s \in Ids : inbox[s] \subseteq inbox'[s]
    <2>1. ASSUME NEW p \in Pollers, Reconcile(p), NEW s \in Ids PROVE inbox[s] \subseteq inbox'[s]
      BY <2>1 DEF Reconcile, TypeInv, SourcesTyped
    <2> QED BY <1>1, <2>1
  <1>3. \A s \in Ids : \A n : Covered(inbox, s, n) => Covered(inbox', s, n)
    BY <1>2 DEF Covered
  <1>4. ASSUME NEW m \in Poll, Known(inbox, m) PROVE Known(inbox', m)
    <2>1. m.source \in Ids
      BY DEF Poll
    <2> QED BY <1>3, <1>4, <2>1 DEF Known
  <1> QED BY <1>2, <1>3, <1>4

\* A poller gets another memory.
LEMMA KnowsNext ==
  ASSUME TypeInv, [Next]_vars, PollsCovered, NEW p \in Pollers, NEW row,
         poll' = [poll EXCEPT ![p] = row], Known(inbox', row)
  PROVE  PollsCovered'
  <1>1. poll'[p] = row /\ \A q \in Pollers \ {p} : poll'[q] = poll[q]
    BY Replaces DEF TypeInv, PollsTyped
  <1>2. ASSUME NEW q \in Pollers PROVE Known(inbox', poll'[q])
    <2>1. CASE q = p
      BY <1>1, <2>1
    <2>2. CASE q # p
      BY <1>1, <2>2, InboxGrows, PollTyped DEF PollsCovered
    <2> QED BY <2>1, <2>2
  <1> QED BY <1>2 DEF PollsCovered

\* A page of a source that was read before goes on from the cursor.
LEMMA FetchCovers ==
  ASSUME TypeInv, GapInv, [Next]_vars, NEW p \in Pollers, Fetch(p)
  PROVE  PollsCovered'
  <1> DEFINE m == poll[p]
             s == m.source
             c == m.config.cursor
             page == IF s \in Telegram THEN History(s, c) ELSE Newest(s)
             high == Max({c} \cup ToSet(page))
             pc == IF page = <<>> THEN AfterPage(s) ELSE "reconcile"
             row == [m EXCEPT !.pc = pc, !.page = page, !.fetched = Len(page), !.high = high]
  <1>1. poll' = [poll EXCEPT ![p] = row] /\ m.pc = "fetch" /\ UNCHANGED inbox
    BY DEF Fetch
  <1>2. m \in Poll /\ s \in Ids /\ c \in 0..Most
    BY PollTyped
  <1>3. /\ page \in Seq(1..Most) /\ Len(page) \in Nat /\ high \in 0..Most
        /\ s \in Telegram /\ c # 0 =>
             high = c + Len(page) /\ \A i \in 1..Len(page) : page[i] = c + i
    BY ZenonT(40), <1>2, FetchedPage DEF TypeInv
  <1>4. pc \in {"stage", "clear", "reconcile"}
    BY DEF AfterPage
  <1>5. page = <<>> => Len(page) = 0
    OBVIOUS
  <1>6. pc = "stage" => page = <<>>
    OBVIOUS
  <1> HIDE DEF page, high, pc
  <1>7. /\ row.pc = pc /\ row.page = page /\ row.high = high /\ row.source = s
        /\ row.config = m.config
    BY <1>2 DEF Poll
  <1> HIDE DEF row
  <1>8. Known(inbox, row)
    <2> SUFFICES ASSUME s \in Old PROVE Known(inbox, row)
      BY <1>7 DEF Known
    <2>1. Covered(inbox, s, c)
      BY <1>1 DEF GapInv, PollsCovered, Known, Blank
    <2>2. c \in Nat /\ c >= 1 /\ s \in Telegram
      BY <1>2, <2>1, MostIsMost DEF Covered, Old
    <2>3. high = c + Len(page) /\ \A i \in 1..Len(page) : page[i] = c + i
      BY <1>3, <2>2
    <2>4. high - Len(page) = c
      BY <1>3, <2>2, <2>3
    <2>5. pc = "stage" => Covered(inbox, s, high)
      BY <1>5, <1>6, <2>1, <2>2, <2>3
    <2>6. \A i \in 1..Len(page) : page[i] = high - Len(page) + i
      BY <2>3, <2>4
    <2> HIDE DEF s, c, m
    <2> QED BY <1>7, <2>1, <2>4, <2>5, <2>6 DEF Known, c
  <1> QED BY <1>1, <1>8, KnowsNext DEF GapInv

\* What is reconciled is the next message after the position.
LEMMA ReconcileCovers ==
  ASSUME TypeInv, GapInv, [Next]_vars, NEW p \in Pollers, Reconcile(p)
  PROVE  PollsCovered'
  <1> DEFINE m == poll[p]
             s == m.source
             pc == IF Len(m.page) = 1 THEN AfterPage(s) ELSE "reconcile"
             row == [m EXCEPT !.pc = pc, !.page = Tail(m.page)]
  <1>1. /\ m.pc = "reconcile" /\ m.page # <<>> /\ m.page \in Seq(1..Most) /\ m \in Poll
        /\ s \in Ids /\ m.high \in 0..Most /\ m.config.cursor \in 0..Most
    BY PollTyped DEF Reconcile, PageSound, Poll
  <1>2. poll' = [poll EXCEPT ![p] = row]
    BY <1>1 DEF Reconcile, Poll
  <1>3. /\ Tail(m.page) \in Seq(1..Most) /\ Len(Tail(m.page)) = Len(m.page) - 1
        /\ Len(m.page) \in Nat /\ Head(m.page) = m.page[1]
        /\ \A i \in 1..Len(Tail(m.page)) : Tail(m.page)[i] = m.page[i + 1]
    <2>1. /\ Tail(m.page) \in Seq(1..Most) /\ Len(Tail(m.page)) = Len(m.page) - 1
          /\ Len(m.page) \in Nat
      BY <1>1, HeadTailProperties, LenProperties
    <2>2. Head(m.page) = m.page[1]
      BY <1>1
    <2>3. \A i \in 1..Len(Tail(m.page)) : Tail(m.page)[i] = m.page[i + 1]
      BY <1>1
    <2> QED BY <2>1, <2>2, <2>3
  <1>4. Len(m.page) # 0
    BY <1>1, EmptySeq
  <1>5. /\ row.pc = pc /\ row.page = Tail(m.page) /\ row.high = m.high /\ row.source = s
        /\ row.config = m.config
    BY <1>1 DEF Poll
  <1>6. pc = "stage" => Len(m.page) = 1
    OBVIOUS
  <1>7. inbox'[s] = inbox[s] \cup {Head(m.page)}
    BY <1>1 DEF Reconcile, TypeInv, SourcesTyped
  <1> HIDE DEF row, pc
  <1>8. Known(inbox', row)
    <2> SUFFICES ASSUME s \in Old PROVE Known(inbox', row)
      BY <1>5 DEF Known
    <2> DEFINE n == Len(m.page)
               k == m.high - n
    <2>1. /\ Covered(inbox, s, m.config.cursor) /\ Covered(inbox, s, k)
          /\ \A i \in 1..n : m.page[i] = k + i
      BY <1>1 DEF GapInv, PollsCovered, Known, Blank
    <2>2. n \in Nat /\ n > 0 /\ k \in Int /\ k = m.high - n /\ k >= 1 /\ m.high \in Nat
      BY <1>1, <1>3, <1>4, <2>1, MostIsMost DEF Covered
    <2>3. Head(m.page) = k + 1
      BY <1>3, <2>1, <2>2
    <2>4. Covered(inbox', s, k + 1)
      <3>1. 2..k \subseteq inbox[s] /\ k + 1 >= 1
        BY <2>1, <2>2 DEF Covered
      <3>2. \A j \in 2..(k + 1) : j \in 2..k \/ j = k + 1
        BY <2>2
      <3> QED BY <1>7, <2>3, <3>1, <3>2 DEF Covered
    <2>5. Covered(inbox', s, m.config.cursor)
      BY <1>7, <2>1 DEF Covered
    <2>6. Len(Tail(m.page)) = n - 1
      BY <1>3
    <2>7. m.high - Len(Tail(m.page)) = k + 1
      BY <2>2, <2>6
    <2>8. \A i \in 1..Len(Tail(m.page)) : Tail(m.page)[i] = k + 1 + i
      <3>1. ASSUME NEW i \in 1..Len(Tail(m.page)) PROVE Tail(m.page)[i] = k + 1 + i
        <4>1. i + 1 \in 1..n /\ i \in Nat
          BY <2>2, <2>6
        <4>2. Tail(m.page)[i] = m.page[i + 1]
          BY <1>3
        <4>3. m.page[i + 1] = k + (i + 1)
          BY <2>1, <4>1
        <4> QED BY <2>2, <4>1, <4>2, <4>3
      <3> QED BY <3>1
    <2>9. pc = "stage" => m.high = k + 1
      <3>1. n = 1 => m.high = k + 1
        BY <2>2
      <3> QED BY <1>6, <3>1
    <2> HIDE DEF n, k, s
    <2> QED BY <1>5, <2>4, <2>5, <2>7, <2>8, <2>9 DEF Known
  <1> QED BY <1>2, <1>8, KnowsNext DEF GapInv

\* The position that is staged is the page's end, or the cursor as it is now.
LEMMA StageCovers ==
  ASSUME TypeInv, GapInv, [Next]_vars, NEW p \in Pollers, Stage(p)
  PROVE  PollsCovered'
  <1> DEFINE m == poll[p]
             s == m.source
             c == config[s]
             hint == m.config.cursor > 0 /\ m.fetched >= Page
             next == IF m.high < c.cursor THEN c ELSE [c EXCEPT !.cursor = m.high, !.hint = hint]
             row == [m EXCEPT !.pc = "commit", !.config = next, !.dirty = next # c]
  <1>1. m.pc = "stage" /\ poll' = [poll EXCEPT ![p] = row] /\ UNCHANGED inbox
    BY DEF Stage
  <1>2. m \in Poll /\ c \in Config /\ s \in Ids
    BY PollTyped
  <1>3. next.cursor = c.cursor \/ next.cursor = m.high
    BY <1>2 DEF Config
  <1> HIDE DEF next
  <1>4. row.pc = "commit" /\ row.config = next /\ row.source = s
    BY <1>2 DEF Poll
  <1> HIDE DEF row
  <1>5. Known(inbox, row)
    <2> SUFFICES ASSUME s \in Old PROVE Known(inbox, row)
      BY <1>4 DEF Known
    <2>1. Covered(inbox, s, m.high)
      BY <1>1 DEF GapInv, PollsCovered, Known
    <2>2. Covered(inbox, s, c.cursor)
      BY DEF GapInv, SourcesCovered
    <2> QED BY <1>3, <1>4, <2>1, <2>2 DEF Known
  <1> QED BY <1>1, <1>5, KnowsNext DEF GapInv

\* Every other memory is read from the source as it is, kept, or dropped.
LEMMA OthersCover ==
  ASSUME TypeInv, GapInv, [Next]_vars,
         \A p \in Pollers : ~Fetch(p) /\ ~Reconcile(p) /\ ~Stage(p)
  PROVE  PollsCovered'
  <1>0. Worker \in Pollers /\ Requests \subseteq Pollers
    BY DEF Pollers
  <1>1. ASSUME NEW p \in Pollers, NEW row, poll' = [poll EXCEPT ![p] = row],
               row.pc \in Blank
        PROVE  PollsCovered'
    <2>1. Known(inbox', row)
      BY <1>1 DEF Known, Blank
    <2> QED BY <1>1, <2>1, KnowsNext DEF GapInv
  <1>2. ASSUME NEW p \in Pollers, NEW row, poll' = [poll EXCEPT ![p] = row],
               row.pc \notin {"reconcile", "stage"}, UNCHANGED inbox,
               row.source \in Old => Covered(inbox, row.source, row.config.cursor)
        PROVE  PollsCovered'
    <2>1. Known(inbox', row)
      BY <1>2 DEF Known
    <2> QED BY <1>2, <2>1, KnowsNext DEF GapInv
  <1>3. /\ NoPoll.pc = "idle" /\ \A p, pc : Over(p, pc).pc = pc
        /\ {"idle", "failed", "release"} \subseteq Blank
    BY DEF NoPoll, Over, Blank
  <1>4. ASSUME NEW s \in Ids, NEW p \in Pollers, NEW pc \in {"acquire", "lock", "mirror"}, NEW row,
               poll' = [poll EXCEPT ![p] = row], UNCHANGED inbox,
               row.pc = pc, row.source = s, row.config = config[s]
        PROVE  PollsCovered'
    BY <1>2, <1>4 DEF GapInv, SourcesCovered
  <1>5. ASSUME NEW s, NEW pc \in {"acquire", "lock", "mirror"}, NEW wanted
        PROVE  /\ [Read(s) EXCEPT !.pc = pc].pc = pc
               /\ [Read(s) EXCEPT !.pc = pc].source = s
               /\ [Read(s) EXCEPT !.pc = pc].config = config[s]
               /\ [Read(s) EXCEPT !.pc = pc, !.wanted = wanted].pc = pc
               /\ [Read(s) EXCEPT !.pc = pc, !.wanted = wanted].source = s
               /\ [Read(s) EXCEPT !.pc = pc, !.wanted = wanted].config = config[s]
    BY DEF Read, NoPoll
  <1>6. CASE UNCHANGED poll
    <2>1. SUFFICES ASSUME NEW q \in Pollers PROVE Known(inbox', poll[q])
      BY <1>6 DEF PollsCovered
    <2> QED BY InboxGrows, PollTyped DEF GapInv, PollsCovered
  <1>7. CASE StartNext
    <2>1. CASE UNCHANGED poll
      BY <1>6, <2>1
    <2>2. CASE ~UNCHANGED poll
      <3> DEFINE s == Head(rotation.todo)
      <3>1. /\ rotation.todo # <<>> /\ UNCHANGED inbox
            /\ poll' = [poll EXCEPT ![Worker] = [Read(s) EXCEPT !.pc = "acquire"]]
        BY <1>7, <2>2 DEF StartNext
      <3>2. s \in Ids
        BY <3>1, HeadTailProperties DEF TypeInv, RotationTyped
      <3> DEFINE row == [Read(s) EXCEPT !.pc = "acquire"]
      <3>3. /\ poll' = [poll EXCEPT ![Worker] = row]
            /\ row.pc = "acquire" /\ row.source = s /\ row.config = config[s]
        BY <1>5, <3>1
      <3> HIDE DEF row
      <3> QED BY ZenonT(40), <1>0, <1>4, <3>1, <3>2, <3>3
    <2> QED BY <2>1, <2>2
  <1>8. ASSUME NEW q \in Requests, Ask(q) PROVE PollsCovered'
    <2>1. PICK s \in Ids :
             \/ poll' = [poll EXCEPT ![q] = [Read(s) EXCEPT !.pc = "acquire"]]
             \/ \E value \in BOOLEAN :
                  poll' = [poll EXCEPT ![q] = [Read(s) EXCEPT !.pc = "lock", !.wanted = value]]
             \/ poll' = [poll EXCEPT ![q] = [NoPoll EXCEPT !.pc = "legacy", !.source = s,
                                                           !.wanted = legacy[s]]]
      BY <1>8 DEF Ask
    <2>2. UNCHANGED inbox /\ q \in Pollers
      BY <1>0, <1>8 DEF Ask
    <2>3. CASE poll' = [poll EXCEPT ![q] = [Read(s) EXCEPT !.pc = "acquire"]]
      <3> DEFINE row == [Read(s) EXCEPT !.pc = "acquire"]
      <3>1. row.pc = "acquire" /\ row.source = s /\ row.config = config[s]
        BY <1>5
      <3>2. poll' = [poll EXCEPT ![q] = row]
        BY <2>3
      <3> HIDE DEF row
      <3> QED BY <1>4, <2>2, <3>1, <3>2
    <2>4. ASSUME NEW wanted,
                 poll' = [poll EXCEPT ![q] = [Read(s) EXCEPT !.pc = "lock", !.wanted = wanted]]
          PROVE  PollsCovered'
      <3> DEFINE row == [Read(s) EXCEPT !.pc = "lock", !.wanted = wanted]
      <3>1. row.pc = "lock" /\ row.source = s /\ row.config = config[s]
        BY <1>5
      <3>2. poll' = [poll EXCEPT ![q] = row]
        BY <2>4
      <3> HIDE DEF row
      <3> QED BY <1>4, <2>2, <3>1, <3>2
    <2>5. CASE poll' = [poll EXCEPT ![q] = [NoPoll EXCEPT !.pc = "legacy", !.source = s,
                                                          !.wanted = legacy[s]]]
      <3> DEFINE row == [NoPoll EXCEPT !.pc = "legacy", !.source = s, !.wanted = legacy[s]]
      <3>1. row.pc \in Blank
        BY DEF NoPoll, Blank
      <3>2. poll' = [poll EXCEPT ![q] = row]
        BY <2>5
      <3> HIDE DEF row
      <3> QED BY <1>1, <2>2, <3>1, <3>2
    <2> QED BY <2>1, <2>3, <2>4, <2>5
  <1>9. ASSUME NEW p \in Pollers, Acquire(p) PROVE PollsCovered'
    <2>1. CASE poll' = [poll EXCEPT ![p] = NoPoll]
      BY <1>1, <1>3, <2>1
    <2>2. CASE poll' # [poll EXCEPT ![p] = NoPoll]
      <3>1. PICK pc \in {"write", "fetch", "clear"} : poll' = [poll EXCEPT ![p].pc = pc]
        BY <1>9, <2>2 DEF Acquire
      <3> DEFINE row == [poll[p] EXCEPT !.pc = pc]
      <3>2. /\ poll' = [poll EXCEPT ![p] = row] /\ row.pc = pc /\ row.source = poll[p].source
            /\ row.config = poll[p].config
        BY <3>1, PollTyped DEF Poll
      <3>3. poll[p].source \in Old => Covered(inbox, poll[p].source, poll[p].config.cursor)
        BY <1>9 DEF Acquire, GapInv, PollsCovered, Known, Blank
      <3>4. UNCHANGED inbox
        BY <1>9 DEF Acquire
      <3> HIDE DEF row
      <3> QED BY <1>2, <3>2, <3>3, <3>4
    <2> QED BY <2>1, <2>2
  <1>10. ASSUME NEW p \in Pollers, Commit(p) PROVE PollsCovered'
    <2> DEFINE row == [poll[p] EXCEPT !.pc = "clear"]
    <2>1. /\ poll' = [poll EXCEPT ![p] = row] /\ row.pc = "clear" /\ row.source = poll[p].source
          /\ row.config = poll[p].config
      BY <1>10, PollTyped DEF Commit, Poll
    <2>2. poll[p].source \in Old => Covered(inbox, poll[p].source, poll[p].config.cursor)
      BY <1>10 DEF Commit, GapInv, PollsCovered, Known, Blank
    <2>3. UNCHANGED inbox
      BY <1>10 DEF Commit
    <2> HIDE DEF row
    <2> QED BY <1>2, <2>1, <2>2, <2>3
  <1>11. CASE ReadForFailure
    <2> DEFINE s == poll[Worker].source
               next == [config[s] EXCEPT !.until = failures]
               row == [poll[Worker] EXCEPT !.pc = "record", !.config = next]
    <2>1. poll' = [poll EXCEPT ![Worker] = row] /\ UNCHANGED inbox
      BY <1>11 DEF ReadForFailure
    <2>2. /\ row.pc = "record" /\ row.source = s /\ row.config.cursor = config[s].cursor
      BY <1>0, PollTyped DEF Poll, Config
    <2>3. s \in Old => Covered(inbox, s, config[s].cursor)
      BY DEF GapInv, SourcesCovered
    <2> HIDE DEF row
    <2> QED BY <1>0, <1>2, <2>1, <2>2, <2>3
  <1>12. ASSUME NEW p \in Pollers, Clear(p) \/ Fail(p) \/ Cancel(p) PROVE PollsCovered'
    <2>1. PICK pc \in {"failed", "release"} : poll' = [poll EXCEPT ![p] = Over(p, pc)]
      BY <1>12 DEF Clear, Fail, Cancel
    <2>2. Over(p, pc).pc \in {"failed", "release"}
      BY <1>3
    <2> QED BY <1>1, <1>3, <2>1, <2>2
  <1>13. ASSUME NEW p \in Pollers, Die(p) \/ ReleaseFails(p) \/ Release(p) PROVE PollsCovered'
    BY <1>1, <1>3, <1>13 DEF Die, ReleaseFails, Release
  <1>14. CASE RecordFailure
    <2>1. poll' = [poll EXCEPT ![Worker] = Over(Worker, "release")]
      BY <1>14 DEF RecordFailure
    <2>2. Over(Worker, "release").pc = "release"
      BY <1>3
    <2> QED BY <1>0, <1>1, <1>3, <2>1, <2>2
  <1>15. ASSUME NEW q \in Requests, WriteSettings(q) \/ Mirror(q) PROVE PollsCovered'
    BY <1>0, <1>1, <1>3, <1>15 DEF WriteSettings, Mirror
  <1>16. ASSUME NEW s \in Ids, Outlive(s) PROVE PollsCovered'
    <2> DEFINE h == lease[s].holder
               row == [poll[h] EXCEPT !.late = TRUE]
    <2>1. h \in Pollers /\ poll' = [poll EXCEPT ![h] = row]
      BY <1>16 DEF Outlive, Carried
    <2>2. poll[h] \in Poll /\ Known(inbox, poll[h])
      BY <2>1, PollTyped DEF GapInv, PollsCovered
    <2> HIDE DEF h
    <2>3. /\ row.pc = poll[h].pc /\ row.source = poll[h].source /\ row.config = poll[h].config
          /\ row.high = poll[h].high /\ row.page = poll[h].page
      BY <2>2 DEF Poll
    <2> HIDE DEF row
    <2>4. Known(inbox, row)
      BY <2>2, <2>3 DEF Known
    <2>5. UNCHANGED inbox
      BY <1>16 DEF Outlive
    <2> QED BY <2>1, <2>4, <2>5, KnowsNext DEF GapInv
  <1>17. ASSUME NEW s \in Ids, Post(s) \/ BackoffEnds(s) \/ Expire(s) PROVE PollsCovered'
    BY <1>6, <1>17 DEF Post, BackoffEnds, Expire
  <1>18. CASE Tick \/ UNCHANGED vars
    BY <1>6, <1>18 DEF Tick, vars
  <1>19. ASSUME NEW p \in Pollers, Proceed(p) PROVE PollsCovered'
    BY <1>9, <1>10, <1>12, <1>13, <1>19 DEF Proceed
  <1>20. CASE Work
    BY <1>0, <1>7, <1>11, <1>14, <1>18, <1>19, <1>20 DEF Work
  <1>21. ASSUME NEW q \in Requests, ReadMirrored(q) PROVE PollsCovered'
    <2> DEFINE m == poll[q]
               row == [Read(m.source) EXCEPT !.pc = "mirror", !.wanted = m.wanted]
    <2>1. /\ q \in Pollers /\ m.source \in Ids /\ UNCHANGED inbox
          /\ poll' = [poll EXCEPT ![q] = row]
      BY <1>0, <1>21, PollTyped DEF ReadMirrored, Poll
    <2>2. row.pc = "mirror" /\ row.source = m.source /\ row.config = config[m.source]
      BY <1>5
    <2> HIDE DEF row
    <2> QED BY <1>4, <2>1, <2>2
  <1>22. ASSUME NEW q \in Requests, Ask(q) \/ Serve(q) PROVE PollsCovered'
    BY <1>0, <1>8, <1>15, <1>19, <1>21, <1>22 DEF Serve
  <1> QED BY <1>12, <1>13, <1>16, <1>17, <1>18, <1>20, <1>22 DEF Next

\* The cursor that is written is one that was read, or the end of a page that is reconciled.
LEMMA SourcesStayCovered ==
  ASSUME TypeInv, GapInv, [Next]_vars
  PROVE  SourcesCovered'
  <1>0. Worker \in Pollers /\ Requests \subseteq Pollers
    BY DEF Pollers
  <1>1. \A s \in Old : s \in Ids /\ since[s] = 1 /\ Covered(inbox, s, config[s].cursor)
    BY SourceIngestionAssumption DEF GapInv, SourcesCovered, Old, Ids
  <1>2. \A s \in Old : Covered(inbox', s, config[s].cursor)
    BY <1>1, InboxGrows
  <1>3. CASE UNCHANGED <<config, since>>
    BY <1>1, <1>2, <1>3 DEF SourcesCovered
  <1>4. ASSUME NEW p \in Pollers, NEW next, next.cursor = poll[p].config.cursor,
               poll[p].pc \notin Blank,
               config' \in {config, [config EXCEPT ![poll[p].source] = next]}
        PROVE  \A s \in Old : Covered(inbox', s, config'[s].cursor)
    <2>1. config \in [Ids -> Config]
      BY DEF TypeInv, SourcesTyped
    <2>2. poll[p].source \in Old => Covered(inbox', poll[p].source, poll[p].config.cursor)
      BY <1>1, <1>4, InboxGrows DEF GapInv, PollsCovered, Known
    <2>3. SUFFICES ASSUME NEW s \in Old PROVE Covered(inbox', s, config'[s].cursor)
      OBVIOUS
    <2>4. CASE config'[s] = config[s]
      BY <1>2, <2>4
    <2>5. CASE config'[s] # config[s]
      <3>1. s = poll[p].source /\ config'[s] = next
        BY <1>1, <1>4, <2>1, <2>5
      <3> QED BY <1>4, <2>2, <3>1
    <2> QED BY <2>4, <2>5
  <1>5. ASSUME NEW p \in Pollers, Commit(p) PROVE SourcesCovered'
    <2>1. \A s \in Old : since[s] # Unread
      BY <1>1 DEF Unread
    <2>2. ASSUME NEW s \in Old PROVE since'[s] = 1
      BY <1>1, <1>5, <2>1 DEF Commit, TypeInv, SourcesTyped
    <2>3. \A s \in Old : Covered(inbox', s, config'[s].cursor)
      BY <1>4, <1>5 DEF Commit, Blank
    <2> QED BY <2>2, <2>3 DEF SourcesCovered
  <1>6. ASSUME NEW p \in Pollers, Clear(p) PROVE SourcesCovered'
    <2>1. [poll[p].config EXCEPT !.until = 0].cursor = poll[p].config.cursor
      BY PollTyped DEF Config
    <2>2. \A s \in Old : Covered(inbox', s, config'[s].cursor)
      BY <1>4, <1>6, <2>1 DEF Clear, Blank
    <2> QED BY <1>1, <1>6, <2>2 DEF Clear, SourcesCovered
  <1>7. CASE RecordFailure
    <2>1. \A s \in Old : Covered(inbox', s, config'[s].cursor)
      BY <1>0, <1>4, <1>7 DEF RecordFailure, Blank
    <2> QED BY <1>1, <1>7, <2>1 DEF RecordFailure, SourcesCovered
  <1>8. ASSUME NEW q \in Requests, Mirror(q) PROVE SourcesCovered'
    <2>1. [poll[q].config EXCEPT !.mirrored = TRUE].cursor = poll[q].config.cursor
      BY <1>0, PollTyped DEF Config
    <2>2. \A s \in Old : Covered(inbox', s, config'[s].cursor)
      BY <1>0, <1>4, <1>8, <2>1 DEF Mirror, Blank
    <2> QED BY <1>1, <1>8, <2>2 DEF Mirror, SourcesCovered
  <1>9. \/ UNCHANGED <<config, since>>
        \/ \E p \in Pollers : Commit(p) \/ Clear(p)
        \/ RecordFailure \/ \E q \in Requests : Mirror(q)
    BY ZenonT(40), <1>0 DEF Next, Work, Serve, Proceed, Tick, StartNext, ReadForFailure, Acquire, Fetch,
                Reconcile, Stage, Release, WriteSettings, ReadMirrored, Ask, Fail, Die, Cancel,
                ReleaseFails, Post, BackoffEnds, Expire, Outlive, vars
  <1> QED BY <1>3, <1>5, <1>6, <1>7, <1>8, <1>9

\* What the cursor of a source has passed is in the inbox, whatever pages, windows, failures,
\* deaths, outlived leases and overlapping polls there are.
THEOREM NoGapCorrect == Spec => []NoGap
  <1>1. Init => GapInv
    <2> SUFFICES ASSUME Init PROVE GapInv
      OBVIOUS
    <2>1. ASSUME NEW s \in Old PROVE since[s] = 1 /\ config[s].cursor = 1
      <3>1. s \in Ids /\ s \in Telegram /\ s \notin Fresh
        BY SourceIngestionAssumption DEF Old, Ids
      <3>2. since[s] = 1
        BY <3>1 DEF Init
      <3>3. config[s] = [NoConfig EXCEPT !.cursor = 1, !.mirrored = TRUE]
        BY <3>1 DEF Init
      <3> QED BY <3>2, <3>3 DEF NoConfig
    <2>2. \A s \in Old : Covered(inbox, s, 1)
      BY DEF Covered
    <2>3. SourcesCovered
      BY <2>1, <2>2 DEF SourcesCovered
    <2>4. ASSUME NEW p \in Pollers PROVE Known(inbox, poll[p])
      <3>1. poll[p] = NoPoll
        BY DEF Init
      <3> QED BY <3>1 DEF Known, NoPoll, Blank
    <2> QED BY <2>3, <2>4 DEF GapInv, PollsCovered
  <1>2. TypeInv /\ GapInv /\ [Next]_vars => GapInv'
    BY SourcesStayCovered, FetchCovers, ReconcileCovers, StageCovers, OthersCover DEF GapInv
  <1>3. GapInv => NoGap
    <2> SUFFICES ASSUME GapInv, NEW s \in Telegram \ Fresh
                 PROVE  (since[s] + 1)..config[s].cursor \subseteq inbox[s]
      BY DEF NoGap
    <2>1. since[s] = 1 /\ 2..config[s].cursor \subseteq inbox[s]
      BY DEF GapInv, SourcesCovered, Covered, Old
    <2>2. since[s] + 1 = 2
      BY <2>1
    <2> QED BY <2>1, <2>2
  <1> QED BY <1>1, <1>2, <1>3, TypeInvCorrect, PTL DEF Spec
=============================================================================
