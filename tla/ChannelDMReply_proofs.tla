------------------------- MODULE ChannelDMReply_proofs -------------------------
(* Proofs about ChannelDMReply, for any requests, texts, keys and bounds, and    *)
(* for both databases unless a theorem says otherwise.                           *)
EXTENDS ChannelDMReply, FiniteSetTheorems, SequenceTheorems, TLAPS

-----------------------------------------------------------------------------
(* The memory of a request. *)

Fields == {"op", "pc", "intent", "text", "key", "hash", "saw", "again", "marks", "cmd",
           "outcome"}

\* The operations on a draft that exists, and the places of a request with a command.
Picks == {"edit", "dismiss", "send"}
Calling == {"checks", "call", "mark", "consume"}

Marks == [id : Ids, state : {"consumed", "stale"}, command : Ids]

MemoryTyped(m) ==
    /\ DOMAIN m = Fields
    /\ m.op \in Ops \cup {"none"}
    /\ m.intent \in Ids
    /\ m.hash \in 0..MaxSource
    /\ m.cmd \in Ids
    /\ m.marks \subseteq Marks
    /\ m.outcome \in Outcomes \cup {"none"}

ReqTyped == DOMAIN req = Requests /\ \A r \in Requests : MemoryTyped(req[r])

\* A request that goes on changes the fields it names, of its own memory.
LEMMA StepFields ==
  ASSUME ReqTyped, NEW r \in Requests, NEW changes, Step(r, changes)
  PROVE  /\ DOMAIN req' = Requests /\ DOMAIN req'[r] = Fields
         /\ \A q \in Requests \ {r} : req'[q] = req[q]
         /\ \A f \in Fields :
               req'[r][f] = IF f \in DOMAIN changes THEN changes[f] ELSE req[r][f]
  BY DEF Step, ReqTyped, MemoryTyped

\* A request that ends forgets everything.
LEMMA EndFields ==
  ASSUME ReqTyped, NEW r \in Requests, End(r)
  PROVE  /\ DOMAIN req' = Requests /\ req'[r] = NoRequest /\ MemoryTyped(req'[r])
         /\ \A q \in Requests \ {r} : req'[q] = req[q]
         /\ lock' = Unlocked(r)
  <1>1. MemoryTyped(NoRequest)
    BY ChannelDMReplyAssumption DEF MemoryTyped, NoRequest, Fields, Ids
  <1> QED BY <1>1 DEF End, ReqTyped

-----------------------------------------------------------------------------
(* The type invariant and what it needs. *)

RowsTyped ==
    /\ intents \in Seq(Intent) /\ commands \in Seq(Command)
    /\ calls \in Seq(Nat) /\ Len(calls) = Len(commands)
    /\ posted \in Seq(Nat) /\ Len(posted) = Len(commands)

WorldTyped ==
    /\ locking \in RowLocks /\ trusted \in BOOLEAN
    /\ source \in 1..MaxSource
    /\ lock \in [Ids -> Requests \cup {"free"}]
    /\ asked \in 0..MaxRequests /\ faults \in 0..MaxFaults

\* Requests that may still store a draft or a command: no more of these than requests.
Fresh == {r \in Requests : req[r].pc \notin Calling \cup {"idle"}}

Budget ==
    /\ IsFiniteSet(Fresh)
    /\ Len(intents) + Len(commands) + Cardinality(Fresh) <= asked

\* The slot is unique.
OneActive == \A i, j \in ActiveIds : i = j

\* A key stands for one command: a handoff draws the key of the command it stores.
KeysUnique ==
    /\ \A c \in DOMAIN commands : commands[c].key \in ClientKeys \cup {c}
    /\ \A c, d \in DOMAIN commands : commands[c].key = commands[d].key => c = d

\* What a request has in hand at each place.
Placed(r) ==
    LET m == req[r] IN
    /\ m.op \in Picks /\ m.pc # "idle" => m.intent \in DOMAIN intents
    /\ m.op \in {"create", "edit", "reply"} /\ m.pc # "idle" => m.text \in Texts
    /\ m.op = "reply" /\ m.pc # "idle" => m.key \in ClientKeys
    /\ m.op = "create" /\ m.pc \in {"lock", "active", "write"} => m.hash # 0
    /\ m.op = "create" /\ m.pc = "write" =>
          \/ m.intent = 0 /\ m.saw = NoIntent
          \/ m.intent \in DOMAIN intents /\ m.saw \in Intent /\ m.saw.key = 0
    /\ m.op \in Picks /\ m.pc \in {"source", "write"} =>
          m.saw \in Intent /\ Reviewable(m.op, m.saw)
    /\ m.op \in Picks /\ m.pc = "write" => m.hash # 0
    /\ m.op = "list" /\ m.pc = "write" => \A k \in m.marks : k.id \in DOMAIN intents
    /\ m.pc \in Calling => m.cmd \in DOMAIN commands
    /\ m.pc \in Calling => m.op \in {"send", "reply"}
    /\ m.pc = "consume" => m.op = "send"
    /\ m.pc = "mark" => m.outcome \in Outcomes

TypeInv ==
    /\ RowsTyped /\ WorldTyped /\ ReqTyped /\ Budget /\ OneActive /\ KeysUnique
    /\ \A r \in Requests : Placed(r)

\* The ids of rows are numbers from 1 that Ids has.
LEMMA RowIds ==
  ASSUME RowsTyped, WorldTyped, Budget
  PROVE  /\ Len(intents) \in Nat /\ DOMAIN intents = 1..Len(intents)
         /\ Len(commands) \in Nat /\ DOMAIN commands = 1..Len(commands)
         /\ DOMAIN calls = 1..Len(commands) /\ DOMAIN posted = 1..Len(commands)
         /\ Len(intents) + Len(commands) <= MaxRequests
         /\ DOMAIN intents \subseteq Ids /\ DOMAIN commands \subseteq Ids
         /\ \A i \in DOMAIN intents : intents[i] \in Intent
         /\ \A c \in DOMAIN commands : commands[c] \in Command
  <1>1. /\ Len(intents) \in Nat /\ DOMAIN intents = 1..Len(intents)
        /\ Len(commands) \in Nat /\ DOMAIN commands = 1..Len(commands)
        /\ DOMAIN calls = 1..Len(commands) /\ DOMAIN posted = 1..Len(commands)
        /\ \A i \in DOMAIN intents : intents[i] \in Intent
        /\ \A c \in DOMAIN commands : commands[c] \in Command
    BY LenProperties, ElementOfSeq DEF RowsTyped
  <1>2. Cardinality(Fresh) \in Nat
    BY FS_CardinalityType DEF Budget
  <1>3. Len(intents) + Len(commands) <= MaxRequests
    BY <1>1, <1>2, ChannelDMReplyAssumption DEF Budget, WorldTyped
  <1> QED BY <1>1, <1>3, ChannelDMReplyAssumption DEF Ids

\* The command under a key, when keys are unique.
LEMMA CommandUnder ==
  ASSUME RowsTyped, KeysUnique, NEW key
  PROVE  /\ CommandOf(key) \in DOMAIN commands \cup {0}
         /\ CommandOf(key) # 0 => commands[CommandOf(key)].key = key
         /\ \A c \in DOMAIN commands : commands[c].key = key => CommandOf(key) = c
  <1> DEFINE S == {c \in 1..Len(commands) : commands[c].key = key}
  <1>1. CommandOf(key) = IF S # {} THEN Min(S) ELSE 0
    BY DEF CommandOf, SelectInSeq
  <1>2. DOMAIN commands = 1..Len(commands) /\ Len(commands) \in Nat
    BY LenProperties DEF RowsTyped
  <1>3. CASE S = {}
    BY <1>1, <1>2, <1>3
  <1>4. CASE S # {}
    <2>1. PICK c \in 1..Len(commands) : commands[c].key = key
      BY <1>4
    <2>2. S = {c}
      BY <1>2, <2>1 DEF KeysUnique
    <2>3. Min({c}) = c
      BY <2>1, <1>2 DEF Min
    <2>4. CommandOf(key) = c
      BY <1>1, <2>2, <2>3
    <2> QED BY <1>2, <2>1, <2>2, <2>4
  <1> QED BY <1>3, <1>4

\* The draft under review, when it is the only one.
LEMMA ActiveUnder ==
  ASSUME RowsTyped, OneActive
  PROVE  /\ ActiveIds # {} => Active \in ActiveIds /\ ActiveIds = {Active}
         /\ ActiveIds = {} => Active = 0
         /\ Active \in DOMAIN intents \cup {0}
         /\ \A i \in ActiveIds : i = Active
  <1>1. CASE ActiveIds = {}
    BY <1>1 DEF Active
  <1>2. CASE ActiveIds # {}
    <2>1. PICK i : i \in ActiveIds
      BY <1>2
    <2>2. ActiveIds = {i} /\ i \in DOMAIN intents /\ i \in Nat
      BY <2>1, LenProperties DEF OneActive, ActiveIds, RowsTyped
    <2>3. Min({i}) = i
      BY <2>2 DEF Min
    <2> QED BY <1>2, <2>2, <2>3 DEF Active
  <1> QED BY <1>1, <1>2

-----------------------------------------------------------------------------
(* What a step does to the rows. *)

\* Drafts that exist change: their version never, and none comes back under review.
Revises ==
    /\ intents' \in Seq(Intent)
    /\ Len(intents') = Len(intents)
    /\ \A i \in DOMAIN intents :
          /\ intents'[i].hash = intents[i].hash
          /\ intents'[i].state = "pending_review" => intents[i].state = "pending_review"

\* A request stores a new draft, the only one under review.
AddsDraft(r) ==
    /\ intents' \in Seq(Intent)
    /\ Len(intents') = Len(intents) + 1
    /\ ActiveIds' = {Len(intents) + 1}
    /\ req[r].pc = "write" /\ req'[r] = NoRequest

\* Commands that exist change: key, text and draft never.
Settles ==
    /\ commands' \in Seq(Command)
    /\ Len(commands') = Len(commands)
    /\ \A c \in DOMAIN commands :
          /\ commands'[c].key = commands[c].key
          /\ commands'[c].text = commands[c].text
          /\ commands'[c].of = commands[c].of
    /\ calls' \in Seq(Nat) /\ Len(calls') = Len(calls)
    /\ posted' \in Seq(Nat) /\ Len(posted') = Len(posted)

\* What a request that stores a command stores: the text of its draft, or of its own.
Issues(r, command) ==
    \/ /\ At(r, {"send"}, "write")
       /\ command = Pending(Len(commands) + 1, req[r].saw.text, req[r].intent)
    \/ At(r, {"reply"}, "write") /\ command = Pending(req[r].key, req[r].text, 0)

\* A request stores a new command, of a key that no command has.
AddsCommand(r) ==
    \E command \in Command :
        /\ command.key \in ClientKeys \cup {Len(commands) + 1}
        /\ \A c \in DOMAIN commands : commands[c].key # command.key
        /\ command.state = "pending" /\ ~command.started
        /\ commands' = Append(commands, command)
        /\ calls' = Append(calls, 0)
        /\ posted' = Append(posted, 0)
        /\ req[r].pc = "write" /\ Issues(r, command)
        /\ req'[r].pc = "checks" /\ req'[r].cmd = Len(commands) + 1

\* One draft is replaced.
LEMMA ReplacesDraft ==
  ASSUME RowsTyped, NEW i \in DOMAIN intents, NEW row \in Intent,
         intents' = [intents EXCEPT ![i] = row]
  PROVE  /\ intents' \in Seq(Intent)
         /\ Len(intents') = Len(intents)
         /\ DOMAIN intents' = DOMAIN intents
         /\ \A j \in DOMAIN intents : intents'[j] = IF j = i THEN row ELSE intents[j]
  <1>1. DOMAIN intents = 1..Len(intents)
    BY LenProperties DEF RowsTyped
  <1>2. /\ intents' \in Seq(Intent)
        /\ Len(intents') = Len(intents)
        /\ \A j \in DOMAIN intents : intents'[j] = IF j = i THEN row ELSE intents[j]
    BY <1>1, ExceptSeq DEF RowsTyped
  <1> QED BY <1>1, <1>2, LenProperties

\* A draft is appended.
LEMMA AppendsDraft ==
  ASSUME NEW old \in Seq(Intent), NEW row \in Intent
  PROVE  /\ Append(old, row) \in Seq(Intent)
         /\ Len(Append(old, row)) = Len(old) + 1
         /\ DOMAIN Append(old, row) = DOMAIN old \cup {Len(old) + 1}
         /\ \A j \in DOMAIN old : Append(old, row)[j] = old[j]
         /\ Append(old, row)[Len(old) + 1] = row
  <1>1. /\ Append(old, row) \in Seq(Intent)
        /\ Len(Append(old, row)) = Len(old) + 1
        /\ \A j \in 1..Len(old) : Append(old, row)[j] = old[j]
        /\ Append(old, row)[Len(old) + 1] = row
    BY AppendProperties
  <1>2. Len(old) \in Nat /\ DOMAIN old = 1..Len(old)
        /\ DOMAIN Append(old, row) = 1..(Len(old) + 1)
    BY <1>1, LenProperties
  <1> QED BY <1>1, <1>2

\* One command is replaced.
LEMMA ReplacesCommand ==
  ASSUME RowsTyped, NEW c \in DOMAIN commands, NEW row \in Command,
         commands' = [commands EXCEPT ![c] = row]
  PROVE  /\ commands' \in Seq(Command)
         /\ Len(commands') = Len(commands)
         /\ DOMAIN commands' = DOMAIN commands
         /\ \A d \in DOMAIN commands : commands'[d] = IF d = c THEN row ELSE commands[d]
  <1>1. DOMAIN commands = 1..Len(commands)
    BY LenProperties DEF RowsTyped
  <1>2. /\ commands' \in Seq(Command)
        /\ Len(commands') = Len(commands)
        /\ \A d \in DOMAIN commands : commands'[d] = IF d = c THEN row ELSE commands[d]
    BY <1>1, ExceptSeq DEF RowsTyped
  <1> QED BY <1>1, <1>2, LenProperties

\* A command is stored, with its counters.
LEMMA AppendsCommand ==
  ASSUME RowsTyped, NEW row \in Command, commands' = Append(commands, row),
         calls' = Append(calls, 0), posted' = Append(posted, 0)
  PROVE  /\ commands' \in Seq(Command) /\ calls' \in Seq(Nat) /\ posted' \in Seq(Nat)
         /\ Len(commands') = Len(commands) + 1
         /\ Len(calls') = Len(commands') /\ Len(posted') = Len(commands')
         /\ DOMAIN commands' = DOMAIN commands \cup {Len(commands) + 1}
         /\ commands'[Len(commands) + 1] = row
         /\ calls'[Len(commands) + 1] = 0 /\ posted'[Len(commands) + 1] = 0
         /\ \A c \in DOMAIN commands :
               commands'[c] = commands[c] /\ calls'[c] = calls[c] /\ posted'[c] = posted[c]
  <1>1. /\ commands' \in Seq(Command)
        /\ Len(commands') = Len(commands) + 1
        /\ \A c \in 1..Len(commands) : commands'[c] = commands[c]
        /\ commands'[Len(commands) + 1] = row
    BY AppendProperties DEF RowsTyped
  <1>2. /\ calls' \in Seq(Nat)
        /\ Len(calls') = Len(calls) + 1
        /\ \A c \in 1..Len(calls) : calls'[c] = calls[c]
        /\ calls'[Len(calls) + 1] = 0
    BY AppendProperties DEF RowsTyped
  <1>3. /\ posted' \in Seq(Nat)
        /\ Len(posted') = Len(posted) + 1
        /\ \A c \in 1..Len(posted) : posted'[c] = posted[c]
        /\ posted'[Len(posted) + 1] = 0
    BY AppendProperties DEF RowsTyped
  <1>4. /\ Len(commands) \in Nat /\ DOMAIN commands = 1..Len(commands)
        /\ Len(calls) = Len(commands) /\ Len(posted) = Len(commands)
        /\ DOMAIN commands' = 1..(Len(commands) + 1)
    BY <1>1, LenProperties DEF RowsTyped
  <1> QED BY <1>1, <1>2, <1>3, <1>4

\* One draft gets another text, state, key or command.
LEMMA RevisesOne ==
  ASSUME RowsTyped, NEW i \in DOMAIN intents, NEW row \in Intent,
         row.hash = intents[i].hash,
         row.state = "pending_review" => intents[i].state = "pending_review",
         intents' = [intents EXCEPT ![i] = row]
  PROVE  Revises
  BY ReplacesDraft DEF Revises

\* So does leaving the drafts alone.
LEMMA RevisesNone ==
  ASSUME RowsTyped, UNCHANGED intents
  PROVE  Revises
  BY DEF Revises, RowsTyped

\* A step that touches neither commands nor calls settles no command.
LEMMA SettlesNone ==
  ASSUME RowsTyped, UNCHANGED <<commands, calls, posted>>
  PROVE  Settles
  BY DEF Settles, RowsTyped

\* The actions that revise one draft, one at a time.
LEMMA IntentStep ==
  ASSUME TypeInv, NEW r \in Requests, Serve(r)
  PROVE  Revises \/ AddsDraft(r)
  <1> USE DEF TypeInv
  <1> DEFINE m == req[r]
             i == m.intent
  <1>0. /\ \A j \in DOMAIN intents : intents[j] \in Intent
        /\ Len(commands) \in Nat /\ DOMAIN commands \subseteq Ids
        /\ Len(intents) \in Nat /\ DOMAIN intents = 1..Len(intents)
        /\ DOMAIN intents \subseteq Ids
        /\ Len(commands) + 1 \in Ids \/ ~(r \in Fresh)
    <2>1. Cardinality(Fresh) \in Nat /\ (r \in Fresh => Cardinality(Fresh) # 0)
      BY FS_CardinalityType, FS_EmptySet DEF Budget
    <2>2. r \in Fresh => Len(intents) + Len(commands) + 1 <= MaxRequests
      BY <2>1, RowIds, ChannelDMReplyAssumption DEF Budget, WorldTyped
    <2> QED BY <2>2, RowIds, ChannelDMReplyAssumption DEF Ids
  <1>1. MemoryTyped(m) /\ Placed(r)
    BY DEF ReqTyped
  <1>2. CASE Rewrite(r)
    <2>1. i \in DOMAIN intents /\ m.text \in Texts
      BY <1>1, <1>2 DEF Rewrite, At, Placed, NoIntent, MemoryTyped
    <2> DEFINE row == [intents[i] EXCEPT !.text = m.text]
    <2>2. row \in Intent /\ row.hash = intents[i].hash /\ row.state = intents[i].state
      BY <1>0, <2>1 DEF Intent
    <2>3. intents' = [intents EXCEPT ![i] = row]
      BY <1>2, <2>1 DEF Rewrite
    <2> HIDE DEF row
    <2> QED BY <2>1, <2>2, <2>3, RevisesOne
  <1>3. CASE WriteEdit(r)
    <2>1. i \in DOMAIN intents /\ m.text \in Texts
      BY <1>1, <1>3 DEF WriteEdit, At, Placed, Picks
    <2> DEFINE row == [intents[i] EXCEPT !.text = m.text]
    <2>2. row \in Intent /\ row.hash = intents[i].hash /\ row.state = intents[i].state
      BY <1>0, <2>1 DEF Intent
    <2>3. intents' = [intents EXCEPT ![i] = row]
      BY <1>3, <2>1 DEF WriteEdit
    <2> HIDE DEF row
    <2> QED BY <2>1, <2>2, <2>3, RevisesOne
  <1>4. CASE WriteStale(r) \/ WriteDismissal(r)
    <2>1. i \in DOMAIN intents
      BY <1>1, <1>4 DEF WriteStale, WriteDismissal, At, Placed, Picks
    <2>2. PICK state \in {"stale", "dismissed"} : intents' = [intents EXCEPT ![i].state = state]
      BY <1>4 DEF WriteStale, WriteDismissal, MarkStale
    <2> DEFINE row == [intents[i] EXCEPT !.state = state]
    <2>3. row \in Intent /\ row.hash = intents[i].hash /\ row.state # "pending_review"
      BY <1>0, <2>1 DEF Intent
    <2>4. intents' = [intents EXCEPT ![i] = row]
      BY <2>1, <2>2
    <2> HIDE DEF row
    <2> QED BY <2>1, <2>3, <2>4, RevisesOne
  <1>5. ASSUME i \in DOMAIN intents, NEW c \in Ids, intents' = MarkConsumed(i, c)
        PROVE  Revises
    <2> DEFINE row == [intents[i] EXCEPT !.state = "consumed", !.command = c]
    <2>1. row \in Intent /\ row.hash = intents[i].hash /\ row.state # "pending_review"
      BY <1>0, <1>5 DEF Intent
    <2>2. intents' = [intents EXCEPT ![i] = row]
      BY <1>5 DEF MarkConsumed
    <2> HIDE DEF row
    <2> QED BY <1>5, <2>1, <2>2, RevisesOne
  <1>6. CASE SentBefore(r)
    <2>1. i \in DOMAIN intents
      BY <1>1, <1>6 DEF SentBefore, At, Placed, Picks
    <2>2. CommandOf(m.saw.key) \in Ids
      BY <1>0, CommandUnder, ChannelDMReplyAssumption DEF Ids
    <2> QED BY <1>5, <1>6, <2>1, <2>2, RevisesNone DEF SentBefore
  <1>7. CASE Consume(r)
    <2>1. i \in DOMAIN intents /\ m.cmd \in Ids
      BY <1>1, <1>7 DEF Consume, Placed, MemoryTyped, Picks, Calling
    <2> QED BY <1>5, <1>7, <2>1 DEF Consume
  <1>8. CASE Handoff(r)
    <2>1. i \in DOMAIN intents /\ r \in Fresh
      BY <1>1, <1>8 DEF Handoff, At, Placed, Picks, Fresh, Calling
    <2> DEFINE row == [intents[i] EXCEPT !.key = Len(commands) + 1]
    <2>2. row \in Intent /\ row.hash = intents[i].hash /\ row.state = intents[i].state
      BY <1>0, <2>1 DEF Intent
    <2>3. UNCHANGED intents \/ intents' = [intents EXCEPT ![i] = row]
      BY <1>8, <2>1 DEF Handoff, rows
    <2> HIDE DEF row
    <2> QED BY <2>1, <2>2, <2>3, RevisesOne, RevisesNone
  <1>9. CASE ListWrite(r)
    <2> DEFINE Row(j) == IF \E k \in m.marks : k.id = j
                         THEN LET k == CHOOSE k \in m.marks : k.id = j
                              IN  [intents[j] EXCEPT !.state = k.state,
                                     !.command = IF k.command = 0 THEN @ ELSE k.command]
                         ELSE intents[j]
    <2>1. intents' = [j \in DOMAIN intents |-> Row(j)]
      BY <1>9 DEF ListWrite
    <2>2. ASSUME NEW j \in DOMAIN intents
          PROVE  /\ Row(j) \in Intent /\ Row(j).hash = intents[j].hash
                 /\ Row(j).state = "pending_review" => intents[j].state = "pending_review"
      <3>1. CASE \E k \in m.marks : k.id = j
        <4> DEFINE k == CHOOSE k \in m.marks : k.id = j
        <4>1. k \in Marks
          BY <1>1, <3>1 DEF MemoryTyped
        <4>2. Row(j) = [intents[j] EXCEPT !.state = k.state,
                          !.command = IF k.command = 0 THEN intents[j].command ELSE k.command]
          BY <1>0, <3>1 DEF Intent
        <4> HIDE DEF k, Row
        <4> QED BY <1>0, <4>1, <4>2 DEF Marks, Intent
      <3>2. CASE ~\E k \in m.marks : k.id = j
        BY <1>0, <3>2
      <3> QED BY <3>1, <3>2
    <2> HIDE DEF Row
    <2>3. intents' \in [1..Len(intents) -> Intent]
      BY <1>0, <2>1, <2>2
    <2>4. intents' \in Seq(Intent) /\ Len(intents') = Len(intents)
      BY <1>0, <2>3
    <2> QED BY <2>1, <2>2, <2>4 DEF Revises
  <1>10. CASE Insert(r) /\ ~UNCHANGED intents
    <2> DEFINE old == IF i = 0 THEN intents ELSE MarkStale(i)
    <2>1. /\ At(r, {"create"}, "write")
          /\ ActiveIds \subseteq {i} /\ intents' = Append(old, Draft(r)) /\ End(r)
      BY <1>10 DEF Insert
    <2>2. Draft(r) \in Intent
      BY <1>1, <2>1, ChannelDMReplyAssumption
         DEF Draft, Intent, At, Placed, MemoryTyped, Ids
    <2>3. /\ old \in Seq(Intent) /\ Len(old) = Len(intents)
          /\ \A j \in DOMAIN intents : old[j].state # "pending_review"
      <3>1. CASE i = 0
        BY <1>0, <2>1, <3>1 DEF RowsTyped, ActiveIds
      <3>2. CASE i # 0
        <4>1. i \in DOMAIN intents
          BY <1>1, <2>1, <3>2 DEF At, Placed
        <4> DEFINE row == [intents[i] EXCEPT !.state = "stale"]
        <4>2. row \in Intent /\ row.state = "stale" /\ old = [intents EXCEPT ![i] = row]
          BY <1>0, <3>2, <4>1 DEF Intent, MarkStale
        <4> HIDE DEF row, old
        <4>3. /\ old \in Seq(Intent) /\ Len(old) = Len(intents)
              /\ \A j \in DOMAIN intents : old[j] = IF j = i THEN row ELSE intents[j]
          BY <1>0, <4>1, <4>2, ExceptSeq DEF RowsTyped
        <4> QED BY <2>1, <4>2, <4>3 DEF ActiveIds
      <3> QED BY <3>1, <3>2
    <2> HIDE DEF old
    <2>4. /\ intents' \in Seq(Intent) /\ Len(intents') = Len(intents) + 1
          /\ DOMAIN intents' = DOMAIN intents \cup {Len(intents) + 1}
          /\ \A j \in DOMAIN intents : intents'[j] = old[j]
          /\ intents'[Len(intents) + 1].state = "pending_review"
      <3>1. DOMAIN old = DOMAIN intents
        BY <1>0, <2>3, LenProperties
      <3> QED BY <2>1, <2>2, <2>3, <3>1, AppendsDraft DEF Draft
    <2>5. ActiveIds' = {Len(intents) + 1}
      BY <1>0, <2>3, <2>4 DEF ActiveIds
    <2>6. req'[r] = NoRequest
      BY <2>1, EndFields
    <2> QED BY <2>1, <2>4, <2>5, <2>6 DEF AddsDraft, At
  <1>11. CASE UNCHANGED intents
    BY <1>11, RevisesNone
  <1> QED BY <1>2, <1>3, <1>4, <1>6, <1>7, <1>8, <1>9, <1>10, <1>11
          DEF Serve, ReadContext, LockCandidate, ReadActive, LockIntent, LockSource, LookUp,
              Reserve, ChecksFail, StartDispatch, SendMessage, MarkOutcome, ListSource,
              ListIntents, AbortDeadlock, rows

\* The actions that touch commands, one at a time.
LEMMA CommandStep ==
  ASSUME TypeInv, NEW r \in Requests, Serve(r)
  PROVE  Settles \/ AddsCommand(r)
  <1> USE DEF TypeInv
  <1> DEFINE m == req[r]
             c == m.cmd
  <1>0. /\ Len(commands) \in Nat /\ DOMAIN commands = 1..Len(commands)
        /\ DOMAIN calls = 1..Len(commands) /\ DOMAIN posted = 1..Len(commands)
        /\ \A d \in DOMAIN commands : commands[d] \in Command
        /\ r \in Fresh => Len(commands) + 1 \in Ids
    <2>1. Cardinality(Fresh) \in Nat /\ (r \in Fresh => Cardinality(Fresh) # 0)
      BY FS_CardinalityType, FS_EmptySet DEF Budget
    <2>2. r \in Fresh => Len(intents) + Len(commands) + 1 <= MaxRequests
      BY <2>1, RowIds, ChannelDMReplyAssumption DEF Budget, WorldTyped
    <2> QED BY <2>2, RowIds, ChannelDMReplyAssumption DEF Ids
  <1>1. MemoryTyped(m) /\ Placed(r)
    BY DEF ReqTyped
  <1>2. ASSUME NEW row \in Command, c \in DOMAIN commands, UNCHANGED telegram,
               row.key = commands[c].key, row.text = commands[c].text,
               row.of = commands[c].of, commands' = [commands EXCEPT ![c] = row]
        PROVE  Settles
    BY <1>0, <1>2, ReplacesCommand DEF Settles, RowsTyped, telegram
  <1>3. ASSUME NEW state \in {"failed", "sent", "uncertain"}, Terminal(c, state),
               c \in DOMAIN commands, UNCHANGED telegram
        PROVE  Settles
    <2> DEFINE row == [commands[c] EXCEPT !.state = state]
    <2>1. /\ row \in Command /\ row.key = commands[c].key /\ row.text = commands[c].text
          /\ row.of = commands[c].of
      BY <1>0, <1>3 DEF Command
    <2>2. commands' = commands \/ commands' = [commands EXCEPT ![c] = row]
      BY <1>3 DEF Terminal
    <2> HIDE DEF row
    <2> QED BY <1>2, <1>3, <2>1, <2>2, SettlesNone DEF telegram
  <1>4. CASE ChecksFail(r)
    BY <1>1, <1>3, <1>4 DEF ChecksFail, Placed, Calling
  <1>5. CASE MarkOutcome(r)
    BY <1>1, <1>3, <1>5 DEF MarkOutcome, Placed, Calling, Outcomes
  <1>6. CASE StartDispatch(r)
    <2>1. c \in DOMAIN commands
      BY <1>1, <1>6 DEF StartDispatch, Placed, Calling
    <2> DEFINE row == [commands[c] EXCEPT !.started = TRUE]
    <2>2. /\ row \in Command /\ row.key = commands[c].key /\ row.text = commands[c].text
          /\ row.of = commands[c].of
      BY <1>0, <2>1 DEF Command
    <2>3. commands' = commands \/ commands' = [commands EXCEPT ![c] = row]
      BY <1>6, <2>1 DEF StartDispatch
    <2>4. UNCHANGED telegram
      BY <1>6 DEF StartDispatch
    <2> HIDE DEF row
    <2> QED BY <1>2, <2>1, <2>2, <2>3, <2>4, SettlesNone DEF telegram
  <1>7. CASE SendMessage(r)
    <2>1. c \in 1..Len(calls) /\ c \in 1..Len(posted)
      BY <1>0, <1>1, <1>7 DEF SendMessage, Placed, Calling, RowsTyped
    <2>2. calls[c] \in Nat /\ posted[c] \in Nat
      BY <2>1, ElementOfSeq DEF RowsTyped
    <2>3. PICK got \in {0, 1} : posted' = [posted EXCEPT ![c] = posted[c] + got]
      BY <1>7, <2>1, <1>0 DEF SendMessage
    <2>4. calls' = [calls EXCEPT ![c] = calls[c] + 1] /\ commands' = commands
      BY <1>7, <2>1, <1>0 DEF SendMessage, rows
    <2>5. calls[c] + 1 \in Nat /\ posted[c] + got \in Nat
      BY <2>2
    <2>6. calls' \in Seq(Nat) /\ Len(calls') = Len(calls)
      BY <2>1, <2>4, <2>5, ExceptSeq DEF RowsTyped
    <2>7. posted' \in Seq(Nat) /\ Len(posted') = Len(posted)
      BY <2>1, <2>3, <2>5, ExceptSeq DEF RowsTyped
    <2> QED BY <2>4, <2>6, <2>7 DEF Settles, RowsTyped
  <1>8. ASSUME NEW command \in Command, Store(r, command), m.pc = "write",
               Issues(r, command),
               command.key \in ClientKeys \cup {Len(commands) + 1},
               command.state = "pending", ~command.started,
               \A d \in DOMAIN commands : commands[d].key # command.key
        PROVE  AddsCommand(r)
    <2>1. Step(r, [pc |-> "checks", cmd |-> Len(commands) + 1])
      BY <1>8 DEF Store
    <2>2. req'[r].pc = "checks" /\ req'[r].cmd = Len(commands) + 1
      BY <2>1, StepFields DEF Fields
    <2> QED BY <1>8, <2>2 DEF AddsCommand, Store
  <1>9. CASE Handoff(r)
    <2>1. CASE UNCHANGED <<commands, telegram>>
      BY <2>1, SettlesNone DEF telegram
    <2>2. CASE ~UNCHANGED <<commands, telegram>>
      <3> DEFINE command == Pending(Len(commands) + 1, m.saw.text, m.intent)
      <3>1. Store(r, command) /\ m.pc = "write" /\ m.op = "send"
        BY <1>9, <2>2 DEF Handoff, At, rows
      <3>2. r \in Fresh /\ m.saw \in Intent
        BY <1>1, <3>1 DEF Fresh, Calling, Placed, Picks
      <3>3. /\ command \in Command /\ command.key = Len(commands) + 1
            /\ command.state = "pending" /\ ~command.started
        BY <1>0, <1>1, <3>2 DEF Pending, Command, Intent, MemoryTyped
      <3>4. ASSUME NEW d \in DOMAIN commands PROVE commands[d].key # Len(commands) + 1
        <4>1. commands[d].key \in ClientKeys \cup {d}
          BY DEF KeysUnique
        <4>2. Len(commands) + 1 \notin ClientKeys
          BY <1>0, <3>2, ChannelDMReplyAssumption DEF Ids
        <4> QED BY <1>0, <4>1, <4>2
      <3>5. Issues(r, command)
        BY <3>1 DEF Issues, At
      <3> HIDE DEF command
      <3> QED BY <1>8, <3>1, <3>3, <3>4, <3>5
    <2> QED BY <2>1, <2>2
  <1>10. CASE Reserve(r)
    <2>1. CASE UNCHANGED <<commands, telegram>>
      BY <2>1, SettlesNone DEF telegram
    <2>2. CASE ~UNCHANGED <<commands, telegram>>
      <3> DEFINE command == Pending(m.key, m.text, 0)
      <3>1. Store(r, command) /\ m.pc = "write" /\ m.op = "reply" /\ CommandOf(m.key) = 0
        BY <1>10, <2>2 DEF Reserve, At
      <3>2. m.text \in Texts /\ m.key \in ClientKeys
        BY <1>1, <3>1 DEF Placed
      <3>3. /\ command \in Command /\ command.key = m.key
            /\ command.state = "pending" /\ ~command.started
        BY <3>2, ChannelDMReplyAssumption DEF Pending, Command, Ids
      <3>4. \A d \in DOMAIN commands : commands[d].key # m.key
        BY <1>0, <3>1, CommandUnder
      <3>5. Issues(r, command)
        BY <3>1 DEF Issues, At
      <3> HIDE DEF command
      <3> QED BY <1>8, <3>1, <3>2, <3>3, <3>4, <3>5
    <2> QED BY <2>1, <2>2
  <1>11. CASE UNCHANGED <<commands, telegram>>
    BY <1>11, SettlesNone DEF telegram
  <1> QED BY <1>4, <1>5, <1>6, <1>7, <1>9, <1>10, <1>11
          DEF Serve, ReadContext, LockCandidate, ReadActive, Rewrite, Insert, LockIntent,
              LockSource, WriteStale, WriteEdit, WriteDismissal, SentBefore, LookUp, Consume,
              ListSource, ListIntents, ListWrite, AbortDeadlock, rows

\* What is stored keeps its place.
LEMMA RowsStep ==
  ASSUME TypeInv, NEW r \in Requests, Revises \/ AddsDraft(r), Settles \/ AddsCommand(r)
  PROVE  /\ RowsTyped' /\ OneActive' /\ KeysUnique'
         /\ DOMAIN intents \subseteq DOMAIN intents'
         /\ DOMAIN commands \subseteq DOMAIN commands'
         /\ Len(intents') = IF Revises THEN Len(intents) ELSE Len(intents) + 1
         /\ Len(commands') = IF Settles THEN Len(commands) ELSE Len(commands) + 1
  <1> USE DEF TypeInv
  <1>0. /\ Len(intents) \in Nat /\ DOMAIN intents = 1..Len(intents)
        /\ Len(commands) \in Nat /\ DOMAIN commands = 1..Len(commands)
    BY RowIds
  <1>1. /\ intents' \in Seq(Intent) /\ OneActive'
        /\ DOMAIN intents \subseteq DOMAIN intents'
        /\ Len(intents') = IF Revises THEN Len(intents) ELSE Len(intents) + 1
    <2>1. CASE Revises
      <3>1. DOMAIN intents' = DOMAIN intents /\ intents' \in Seq(Intent)
        BY <1>0, <2>1, LenProperties DEF Revises
      <3> QED BY <2>1, <3>1 DEF Revises, OneActive, ActiveIds
    <2>2. CASE ~Revises
      <3>1. DOMAIN intents' = 1..(Len(intents) + 1) /\ intents' \in Seq(Intent)
        BY <1>0, <2>2, LenProperties DEF AddsDraft
      <3> QED BY <1>0, <2>2, <3>1 DEF AddsDraft, OneActive
    <2> QED BY <2>1, <2>2
  <1>2. /\ commands' \in Seq(Command) /\ KeysUnique'
        /\ calls' \in Seq(Nat) /\ Len(calls') = Len(commands')
        /\ posted' \in Seq(Nat) /\ Len(posted') = Len(commands')
        /\ DOMAIN commands \subseteq DOMAIN commands'
        /\ Len(commands') = IF Settles THEN Len(commands) ELSE Len(commands) + 1
    <2>1. CASE Settles
      <3>1. DOMAIN commands' = DOMAIN commands
        BY <1>0, <2>1, LenProperties DEF Settles
      <3> QED BY <2>1, <3>1 DEF Settles, KeysUnique, RowsTyped
    <2>2. CASE ~Settles
      <3>1. PICK command \in Command :
               /\ command.key \in ClientKeys \cup {Len(commands) + 1}
               /\ \A c \in DOMAIN commands : commands[c].key # command.key
               /\ commands' = Append(commands, command)
               /\ calls' = Append(calls, 0)
               /\ posted' = Append(posted, 0)
        BY <2>2 DEF AddsCommand
      <3>2. /\ commands' \in Seq(Command) /\ calls' \in Seq(Nat) /\ posted' \in Seq(Nat)
            /\ Len(commands') = Len(commands) + 1
            /\ Len(calls') = Len(commands') /\ Len(posted') = Len(commands')
            /\ DOMAIN commands' = DOMAIN commands \cup {Len(commands) + 1}
            /\ commands'[Len(commands) + 1] = command
            /\ \A c \in DOMAIN commands : commands'[c] = commands[c]
        BY <3>1, AppendsCommand
      <3>3. KeysUnique'
        BY <1>0, <3>1, <3>2 DEF KeysUnique
      <3> QED BY <2>2, <3>2, <3>3
    <2> QED BY <2>1, <2>2
  <1> QED BY <1>1, <1>2 DEF RowsTyped

-----------------------------------------------------------------------------
(* What a step does to the memory of a request. *)

\* A request ends or goes on, and leaves the memory of the others alone.
LEMMA OthersKeep ==
  ASSUME ReqTyped, NEW r \in Requests, Begin(r) \/ Serve(r) \/ Die(r)
  PROVE  DOMAIN req' = Requests /\ \A q \in Requests \ {r} : req'[q] = req[q]
  <1>1. ASSUME NEW changes, Step(r, changes)
        PROVE  DOMAIN req' = Requests /\ \A q \in Requests \ {r} : req'[q] = req[q]
    BY <1>1, StepFields
  <1>2. CASE End(r)
    BY <1>2, EndFields
  <1>3. CASE Begin(r) \/ ReadContext(r) \/ LockCandidate(r) \/ ReadActive(r) \/ Insert(r)
    BY <1>1, <1>2, <1>3 DEF Begin, ReadContext, LockCandidate, ReadActive, Insert
  <1>4. CASE LockIntent(r) \/ LockSource(r) \/ LookUp(r) \/ SendMessage(r)
    BY <1>1, <1>2, <1>4 DEF LockIntent, LockSource, LookUp, SendMessage
  <1>5. CASE Handoff(r) \/ Reserve(r)
    BY <1>1, <1>2, <1>5 DEF Handoff, Reserve, Store
  <1>6. CASE ChecksFail(r) \/ StartDispatch(r) \/ MarkOutcome(r)
    BY <1>1, <1>2, <1>6 DEF ChecksFail, StartDispatch, MarkOutcome, Answered
  <1>7. CASE ListSource(r) \/ ListIntents(r)
    BY <1>1, <1>2, <1>7 DEF ListSource, ListIntents
  <1>8. CASE Rewrite(r) \/ WriteStale(r) \/ WriteEdit(r) \/ WriteDismissal(r) \/ SentBefore(r)
             \/ Consume(r) \/ ListWrite(r) \/ AbortDeadlock(r) \/ Die(r)
    BY <1>2, <1>8 DEF Rewrite, WriteStale, WriteEdit, WriteDismissal, SentBefore, Consume,
                      ListWrite, AbortDeadlock, Die
  <1> QED BY <1>3, <1>4, <1>5, <1>6, <1>7, <1>8 DEF Serve

\* The memory of a request that has ended holds whatever a place requires.
LEMMA EndPlaced ==
  ASSUME NEW r, req'[r] = NoRequest
  PROVE  Placed(r)'
  BY DEF Placed, NoRequest, Calling

\* Where a request that goes on gets, one action at a time.
LEMMA MemoryStep ==
  ASSUME TypeInv, NEW r \in Requests, Begin(r) \/ Serve(r) \/ Die(r),
         DOMAIN intents \subseteq DOMAIN intents', DOMAIN commands \subseteq DOMAIN commands'
  PROVE  MemoryTyped(req'[r]) /\ Placed(r)'
  <1> USE DEF TypeInv
  <1>0. /\ DOMAIN intents \subseteq Ids /\ DOMAIN commands \subseteq Ids /\ 0 \in Ids
        /\ Len(commands) \in Nat /\ DOMAIN commands = 1..Len(commands)
        /\ \A i \in DOMAIN intents : intents[i] \in Intent
        /\ 0 \notin DOMAIN intents
    BY RowIds, ChannelDMReplyAssumption DEF Ids
  <1>1. MemoryTyped(req[r]) /\ Placed(r)
    BY DEF ReqTyped
  <1>2. CASE End(r)
    BY <1>2, EndFields, EndPlaced
  <1>3. CASE Begin(r)
    <2>1. PICK op \in Ops, i \in DOMAIN intents \cup {0}, text \in Texts, key \in ClientKeys :
             /\ (i # 0) = (op \in {"edit", "dismiss", "send"})
             /\ Step(r, [op |-> op, pc |-> "start", intent |-> i,
                         text |-> IF op \in {"create", "edit", "reply"} THEN text ELSE 0,
                         key |-> IF op = "reply" THEN key ELSE 0])
      BY <1>3 DEF Begin
    <2>2. /\ DOMAIN req'[r] = Fields
          /\ req'[r].op = op /\ req'[r].pc = "start" /\ req'[r].intent = i
          /\ req'[r].text = IF op \in {"create", "edit", "reply"} THEN text ELSE 0
          /\ req'[r].key = IF op = "reply" THEN key ELSE 0
          /\ req'[r].hash = req[r].hash /\ req'[r].marks = req[r].marks
          /\ req'[r].cmd = req[r].cmd /\ req'[r].outcome = req[r].outcome
      BY <2>1, StepFields DEF Fields
    <2>3. MemoryTyped(req'[r])
      BY <1>0, <1>1, <2>1, <2>2 DEF MemoryTyped
    <2> QED BY <2>1, <2>2, <2>3 DEF Placed, Picks, Calling
  <1>4. CASE ReadContext(r) /\ ~End(r)
    <2>1. Step(r, [pc |-> "lock", hash |-> source]) /\ At(r, {"create"}, "start")
      BY <1>4 DEF ReadContext
    <2> QED BY <1>1, <2>1, StepFields, ChannelDMReplyAssumption
            DEF Fields, MemoryTyped, Placed, Picks, Calling, At, WorldTyped
  <1>5. CASE LockCandidate(r) /\ ~End(r)
    <2>1. Step(r, [pc |-> "active"]) /\ At(r, {"create"}, "lock")
      BY <1>5 DEF LockCandidate
    <2> QED BY <1>1, <2>1, StepFields DEF Fields, MemoryTyped, Placed, Picks, Calling, At
  <1>6. CASE ReadActive(r) /\ ~End(r)
    <2> DEFINE saw == IF Active = 0 THEN NoIntent ELSE intents[Active]
               hash == IF req[r].again THEN source ELSE req[r].hash
    <2>1. /\ Step(r, [pc |-> "write", intent |-> Active, saw |-> saw, hash |-> hash])
          /\ At(r, {"create"}, "active") /\ saw.key = 0
      BY <1>6 DEF ReadActive
    <2>2. hash \in 0..MaxSource /\ hash # 0
      BY <1>1, <2>1, ChannelDMReplyAssumption DEF Placed, At, MemoryTyped, WorldTyped
    <2>3. Active \in DOMAIN intents \cup {0}
      BY ActiveUnder
    <2>4. \/ Active = 0 /\ saw = NoIntent
          \/ Active \in DOMAIN intents /\ saw \in Intent
      BY <1>0, <2>3
    <2>5. /\ DOMAIN req'[r] = Fields
          /\ req'[r].pc = "write" /\ req'[r].intent = Active /\ req'[r].saw = saw
          /\ req'[r].hash = hash
          /\ req'[r].op = req[r].op /\ req'[r].text = req[r].text
          /\ req'[r].marks = req[r].marks
          /\ req'[r].cmd = req[r].cmd /\ req'[r].outcome = req[r].outcome
      BY <2>1, StepFields DEF Fields
    <2> HIDE DEF saw, hash
    <2>6. MemoryTyped(req'[r])
      BY <1>0, <1>1, <2>2, <2>3, <2>5 DEF MemoryTyped
    <2> QED BY <1>1, <2>1, <2>2, <2>4, <2>5, <2>6 DEF Placed, Picks, Calling, At
  <1>7. CASE Insert(r) /\ ~End(r)
    <2>1. /\ Step(r, [pc |-> "active", again |-> TRUE, intent |-> 0, saw |-> NoIntent])
          /\ At(r, {"create"}, "write")
      BY <1>7 DEF Insert
    <2> QED BY <1>0, <1>1, <2>1, StepFields
            DEF Fields, MemoryTyped, Placed, Picks, Calling, At
  <1>8. CASE LockIntent(r) /\ ~End(r)
    <2>1. /\ Step(r, [pc |-> "source", saw |-> intents[req[r].intent]])
          /\ At(r, Picks, "start") /\ Reviewable(req[r].op, intents[req[r].intent])
      BY <1>8 DEF LockIntent, Picks
    <2>2. /\ DOMAIN req'[r] = Fields
          /\ req'[r].pc = "source" /\ req'[r].saw = intents[req[r].intent]
          /\ req'[r].op = req[r].op /\ req'[r].text = req[r].text
          /\ req'[r].intent = req[r].intent
          /\ req'[r].hash = req[r].hash /\ req'[r].marks = req[r].marks
          /\ req'[r].cmd = req[r].cmd /\ req'[r].outcome = req[r].outcome
      BY <2>1, StepFields DEF Fields
    <2>3. req[r].intent \in DOMAIN intents
      BY <1>1, <2>1 DEF Placed, At
    <2>4. MemoryTyped(req'[r])
      BY <1>1, <2>2 DEF MemoryTyped
    <2> QED BY <1>0, <1>1, <2>1, <2>2, <2>3, <2>4 DEF Placed, Picks, Calling, At
  <1>9. CASE LockSource(r)
    <2>1. Step(r, [pc |-> "write", hash |-> source]) /\ At(r, Picks, "source")
      BY <1>9 DEF LockSource, Picks
    <2> QED BY <1>1, <2>1, StepFields, ChannelDMReplyAssumption
            DEF Fields, MemoryTyped, Placed, Picks, Calling, At, WorldTyped
  <1>10. ASSUME NEW command, Store(r, command), At(r, {"send", "reply"}, "write"),
                DOMAIN commands' = DOMAIN commands \cup {Len(commands) + 1},
                Len(commands) + 1 \in Ids
         PROVE  MemoryTyped(req'[r]) /\ Placed(r)'
    <2>1. Step(r, [pc |-> "checks", cmd |-> Len(commands) + 1])
      BY <1>10 DEF Store
    <2> QED BY <1>0, <1>1, <1>10, <2>1, StepFields
            DEF Fields, MemoryTyped, Placed, Picks, Calling, At
  <1>11. CASE (Handoff(r) \/ Reserve(r)) /\ ~End(r)
    <2>1. PICK command : Store(r, command) /\ At(r, {"send", "reply"}, "write")
      BY <1>11 DEF Handoff, Reserve, At
    <2>2. ~Settles
      BY <1>0, <2>1, AppendProperties DEF Store, Settles, RowsTyped
    <2>3. AddsCommand(r)
      BY <1>11, <2>2, CommandStep DEF Serve
    <2>4. /\ DOMAIN commands' = DOMAIN commands \cup {Len(commands) + 1}
      BY <2>3, AppendsCommand DEF AddsCommand
    <2>5. Len(commands) + 1 \in Ids
      <3>1. r \in Fresh
        BY <2>1 DEF Fresh, At, Calling
      <3>2. Cardinality(Fresh) \in Nat /\ Cardinality(Fresh) # 0
        BY <3>1, FS_CardinalityType, FS_EmptySet DEF Budget
      <3>3. Len(commands) + 1 <= MaxRequests
        BY <3>2, RowIds, ChannelDMReplyAssumption DEF Budget, WorldTyped
      <3> QED BY <1>0, <3>3, ChannelDMReplyAssumption DEF Ids
    <2> QED BY <1>10, <2>1, <2>4, <2>5
  <1>12. CASE LookUp(r) /\ ~End(r)
    <2>1. Step(r, [pc |-> "write"]) /\ At(r, {"reply"}, "start")
      BY <1>12 DEF LookUp
    <2> QED BY <1>1, <2>1, StepFields DEF Fields, MemoryTyped, Placed, Picks, Calling, At
  <1>13. ASSUME Answered(r), req[r].pc \in Calling, ~End(r)
         PROVE  MemoryTyped(req'[r]) /\ Placed(r)'
    <2>1. Step(r, [pc |-> "consume"]) /\ req[r].op = "send"
      BY <1>13 DEF Answered
    <2> QED BY <1>1, <1>13, <2>1, StepFields
            DEF Fields, MemoryTyped, Placed, Picks, Calling
  <1>14. CASE (ChecksFail(r) \/ MarkOutcome(r)) /\ ~End(r)
    BY <1>13, <1>14 DEF ChecksFail, MarkOutcome, Calling
  <1>15. CASE StartDispatch(r) /\ ~End(r)
    <2>1. CASE Answered(r)
      BY <1>13, <1>15, <2>1 DEF StartDispatch, Calling
    <2>2. CASE Step(r, [pc |-> "call"])
      BY <1>1, <1>15, <2>2, StepFields
         DEF StartDispatch, Fields, MemoryTyped, Placed, Picks, Calling
    <2> QED BY <1>15, <2>1, <2>2 DEF StartDispatch
  <1>16. CASE SendMessage(r)
    <2>1. PICK outcome \in Outcomes : Step(r, [pc |-> "mark", outcome |-> outcome])
      BY <1>16 DEF SendMessage
    <2> QED BY <1>1, <1>16, <2>1, StepFields
            DEF SendMessage, Fields, MemoryTyped, Placed, Picks, Calling
  <1>17. CASE ListSource(r)
    <2>1. Step(r, [pc |-> "intents", hash |-> source]) /\ At(r, {"list"}, "start")
      BY <1>17 DEF ListSource
    <2> QED BY <1>1, <2>1, StepFields, ChannelDMReplyAssumption
            DEF Fields, MemoryTyped, Placed, Picks, Calling, At, WorldTyped
  <1>18. CASE ListIntents(r) /\ ~End(r)
    <2> DEFINE marks == UNION {Settled(r, i) : i \in ActiveIds}
    <2>1. Step(r, [pc |-> "write", marks |-> marks]) /\ At(r, {"list"}, "intents")
      BY <1>18 DEF ListIntents
    <2>2. ASSUME NEW i \in ActiveIds, NEW k \in Settled(r, i)
          PROVE  k \in Marks /\ k.id \in DOMAIN intents
      <3>1. i \in DOMAIN intents /\ CommandOf(intents[i].key) \in Ids
        BY <1>0, CommandUnder DEF ActiveIds
      <3> QED BY <1>0, <2>2, <3>1 DEF Settled, Marks
    <2>3. marks \subseteq Marks /\ \A k \in marks : k.id \in DOMAIN intents
      BY <2>2
    <2>4. /\ DOMAIN req'[r] = Fields
          /\ req'[r].pc = "write" /\ req'[r].marks = marks /\ req'[r].op = req[r].op
          /\ req'[r].intent = req[r].intent /\ req'[r].hash = req[r].hash
          /\ req'[r].cmd = req[r].cmd /\ req'[r].outcome = req[r].outcome
      BY <2>1, StepFields DEF Fields
    <2> HIDE DEF marks
    <2> QED BY <1>1, <2>1, <2>3, <2>4 DEF MemoryTyped, Placed, Picks, Calling, At
  <1> QED BY <1>2, <1>3, <1>4, <1>5, <1>6, <1>7, <1>8, <1>9, <1>11, <1>12, <1>14, <1>15,
             <1>16, <1>17, <1>18
          DEF Serve, Rewrite, WriteStale, WriteEdit, WriteDismissal, SentBefore, Consume,
              ListWrite, AbortDeadlock, Die

-----------------------------------------------------------------------------
(* The type invariant holds. *)

\* A request that has a command, or has ended, does not store another one.
LEMMA StaysSpent ==
  ASSUME TypeInv, NEW r \in Requests, Serve(r) \/ Die(r), r \notin Fresh
  PROVE  r \notin Fresh'
  <1> USE DEF TypeInv
  <1>0. req[r].pc \in Calling \cup {"idle"}
    BY DEF Fresh
  <1>1. CASE End(r)
    BY <1>1, EndFields DEF Fresh, NoRequest
  <1>2. CASE ~End(r)
    <2>1. ~(ReadContext(r) \/ LockCandidate(r) \/ ReadActive(r) \/ Insert(r) \/ LockIntent(r)
            \/ LockSource(r) \/ LookUp(r) \/ Handoff(r) \/ Reserve(r) \/ ListSource(r)
            \/ ListIntents(r))
      BY <1>0 DEF ReadContext, LockCandidate, ReadActive, Insert, LockIntent, LockSource,
                  LookUp, Handoff, Reserve, ListSource, ListIntents, At, Calling
    <2>2. ASSUME NEW changes, Step(r, changes), "pc" \in DOMAIN changes,
                 changes["pc"] \in Calling
          PROVE  r \notin Fresh'
      BY <2>2, StepFields DEF Fresh, Fields
    <2>3. Answered(r) => r \notin Fresh'
      BY <1>2, <2>2 DEF Answered, Calling
    <2>4. CASE ChecksFail(r) \/ MarkOutcome(r)
      BY <2>3, <2>4 DEF ChecksFail, MarkOutcome
    <2>5. CASE StartDispatch(r) \/ SendMessage(r)
      BY <2>2, <2>3, <2>5 DEF StartDispatch, SendMessage, Calling
    <2> QED BY <1>2, <2>1, <2>4, <2>5
            DEF Serve, Die, Rewrite, WriteStale, WriteEdit, WriteDismissal, SentBefore,
                Consume, ListWrite, AbortDeadlock
  <1> QED BY <1>1, <1>2

\* What one request does keeps the number of rows within the requests so far.
LEMMA BudgetStep ==
  ASSUME TypeInv, NEW r \in Requests, Serve(r) \/ Die(r),
         DOMAIN req' = Requests, \A q \in Requests \ {r} : req'[q] = req[q],
         UNCHANGED asked, Revises \/ AddsDraft(r), Settles \/ AddsCommand(r),
         Revises \/ Settles
  PROVE  Budget'
  <1> USE DEF TypeInv
  <1>1. Fresh' \subseteq Fresh
    BY StaysSpent DEF Fresh
  <1>2. ~Revises \/ ~Settles => r \in Fresh /\ r \notin Fresh'
    BY DEF AddsDraft, AddsCommand, Fresh, Calling, NoRequest
  <1>3. IsFiniteSet(Fresh) /\ Cardinality(Fresh) \in Nat
    BY FS_CardinalityType DEF Budget
  <1>4. IsFiniteSet(Fresh') /\ Cardinality(Fresh') \in Nat
        /\ Cardinality(Fresh') <= Cardinality(Fresh)
    BY <1>1, <1>3, FS_Subset, FS_CardinalityType
  <1>5. r \in Fresh /\ r \notin Fresh' => Cardinality(Fresh') + 1 <= Cardinality(Fresh)
    <2> SUFFICES ASSUME r \in Fresh, r \notin Fresh'
                 PROVE  Cardinality(Fresh') + 1 <= Cardinality(Fresh)
      OBVIOUS
    <2>1. Fresh' \subseteq Fresh \ {r}
      BY <1>1
    <2>2. IsFiniteSet(Fresh \ {r}) /\ Cardinality(Fresh \ {r}) = Cardinality(Fresh) - 1
      BY <1>3, FS_RemoveElement
    <2>3. Cardinality(Fresh') <= Cardinality(Fresh \ {r})
      BY <2>1, <2>2, FS_Subset
    <2> QED BY <1>3, <1>4, <2>2, <2>3
  <1>6. Len(intents) \in Nat /\ Len(commands) \in Nat /\ asked \in Nat
        /\ Len(intents) + Len(commands) + Cardinality(Fresh) <= asked
    BY RowIds, ChannelDMReplyAssumption DEF Budget, WorldTyped
  <1>7. /\ Len(intents') = IF Revises THEN Len(intents) ELSE Len(intents) + 1
        /\ Len(commands') = IF Settles THEN Len(commands) ELSE Len(commands) + 1
    BY RowsStep
  <1>8. asked' = asked
    OBVIOUS
  <1>9. CASE Revises /\ Settles
    BY <1>3, <1>4, <1>6, <1>7, <1>8, <1>9 DEF Budget
  <1>10. CASE ~Revises /\ Settles
    BY <1>2, <1>3, <1>4, <1>5, <1>6, <1>7, <1>8, <1>10 DEF Budget
  <1>11. CASE Revises /\ ~Settles
    BY <1>2, <1>3, <1>4, <1>5, <1>6, <1>7, <1>8, <1>11 DEF Budget
  <1> QED BY <1>9, <1>10, <1>11

\* Nobody stores a draft and a command in one step.
LEMMA OneRow ==
  ASSUME TypeInv, NEW r \in Requests, Serve(r)
  PROVE  Revises \/ Settles
  <1>1. CASE Insert(r)
    BY <1>1, SettlesNone DEF Insert, TypeInv, telegram
  <1>2. CASE Handoff(r) /\ ~UNCHANGED intents
    <2>1. req'[r] # NoRequest
      <3>1. Step(r, [pc |-> "checks", cmd |-> Len(commands) + 1])
        BY <1>2 DEF Handoff, Store, rows
      <3>2. req'[r].pc = "checks"
        BY <3>1, StepFields DEF Fields, TypeInv
      <3> QED BY <3>2 DEF NoRequest
    <2> QED BY <1>2, <2>1, IntentStep DEF AddsDraft
  <1>3. CASE UNCHANGED intents
    BY <1>3, RevisesNone DEF TypeInv
  <1>4. CASE UNCHANGED <<commands, telegram>>
    BY <1>4, SettlesNone DEF TypeInv, telegram
  <1> QED BY <1>1, <1>2, <1>3, <1>4
          DEF Serve, ReadContext, LockCandidate, ReadActive, Rewrite, LockIntent, LockSource,
              WriteStale, WriteEdit, WriteDismissal, SentBefore, LookUp, Reserve, ChecksFail,
              StartDispatch, SendMessage, MarkOutcome, Consume, ListSource, ListIntents,
              ListWrite, AbortDeadlock, rows

\* Locks are only taken and released by requests.
LEMMA LockTyped ==
  ASSUME TypeInv, NEW r \in Requests, Begin(r) \/ Serve(r) \/ Die(r)
  PROVE  lock' \in [Ids -> Requests \cup {"free"}]
  <1> USE DEF TypeInv, WorldTyped
  <1>1. Unlocked(r) \in [Ids -> Requests \cup {"free"}]
    BY DEF Unlocked
  <1>2. ASSUME NEW i, Take(r, i) PROVE lock' \in [Ids -> Requests \cup {"free"}]
    BY <1>2 DEF Take
  <1>3. End(r) => lock' \in [Ids -> Requests \cup {"free"}]
    BY <1>1 DEF End
  <1>4. CASE ReadContext(r) \/ LockCandidate(r) \/ ReadActive(r) \/ LockIntent(r)
             \/ LockSource(r) \/ LookUp(r)
    BY <1>2, <1>3, <1>4 DEF ReadContext, LockCandidate, ReadActive, LockIntent, LockSource,
                            LookUp
  <1>5. CASE Handoff(r) \/ Reserve(r)
    BY <1>1, <1>3, <1>5 DEF Handoff, Reserve, Store
  <1>6. CASE ChecksFail(r) \/ StartDispatch(r) \/ MarkOutcome(r)
    BY <1>3, <1>6 DEF ChecksFail, StartDispatch, MarkOutcome, Answered
  <1> QED BY <1>3, <1>4, <1>5, <1>6
          DEF Serve, Begin, Die, Rewrite, Insert, WriteStale, WriteEdit, WriteDismissal,
              SentBefore, SendMessage, Consume, ListSource, ListIntents, ListWrite,
              AbortDeadlock

\* The other variables.
LEMMA CountersTyped ==
  ASSUME TypeInv, [Next]_vars
  PROVE  /\ locking' = locking /\ trusted' \in BOOLEAN /\ source' \in 1..MaxSource
         /\ asked' \in 0..MaxRequests /\ faults' \in 0..MaxFaults
  <1> USE ChannelDMReplyAssumption DEF TypeInv, WorldTyped
  <1>1. ASSUME NEW r \in Requests, Serve(r)
        PROVE  UNCHANGED <<locking, trusted, source, asked, faults>>
    BY <1>1 DEF Serve, ReadContext, LockCandidate, ReadActive, Rewrite, Insert, LockIntent,
                LockSource, WriteStale, WriteEdit, WriteDismissal, SentBefore, Handoff, LookUp,
                Reserve, ChecksFail, StartDispatch, SendMessage, MarkOutcome, Consume,
                ListSource, ListIntents, ListWrite, AbortDeadlock
  <1>2. ASSUME NEW r \in Requests, Begin(r)
        PROVE  /\ UNCHANGED <<locking, trusted, source, faults>>
               /\ asked < MaxRequests /\ asked' = asked + 1
    BY <1>2 DEF Begin
  <1>3. ASSUME NEW r \in Requests, Die(r)
        PROVE  /\ UNCHANGED <<locking, trusted, source, asked>>
               /\ faults < MaxFaults /\ faults' = faults + 1
    BY <1>3 DEF Die
  <1>4. CASE EditMessage \/ UNCHANGED vars
    BY <1>4 DEF EditMessage, vars
  <1>5. CASE Reroute
    <2>1. UNCHANGED <<locking, source, asked, faults>> /\ trusted' \in BOOLEAN
      BY <1>5 DEF Reroute
    <2> QED BY <2>1
  <1> QED BY <1>1, <1>2, <1>3, <1>4, <1>5 DEF Next

\* What stays as it is when nobody's memory and no row changes.
LEMMA QuietStep ==
  ASSUME TypeInv, UNCHANGED <<req, rows, telegram, asked>>
  PROVE  /\ RowsTyped' /\ ReqTyped' /\ Budget' /\ OneActive' /\ KeysUnique'
         /\ \A r \in Requests : Placed(r)'
  BY DEF TypeInv, rows, telegram, RowsTyped, ReqTyped, Budget, Fresh, OneActive, ActiveIds,
         KeysUnique, Placed

\* Every step keeps the invariant.
LEMMA TypeStep ==
  ASSUME TypeInv, [Next]_vars
  PROVE  TypeInv'
  <1>1. ASSUME NEW r \in Requests, Begin(r) \/ Serve(r) \/ Die(r),
               RowsTyped', Budget', OneActive', KeysUnique',
               DOMAIN intents \subseteq DOMAIN intents',
               DOMAIN commands \subseteq DOMAIN commands'
        PROVE  TypeInv'
    <2>1. MemoryTyped(req'[r]) /\ Placed(r)'
      BY <1>1, MemoryStep
    <2>2. DOMAIN req' = Requests /\ \A q \in Requests \ {r} : req'[q] = req[q]
      BY <1>1, OthersKeep DEF TypeInv
    <2>3. ReqTyped'
      BY <2>1, <2>2 DEF TypeInv, ReqTyped
    <2>4. ASSUME NEW q \in Requests \ {r} PROVE Placed(q)'
      <3>1. Placed(q) /\ req'[q] = req[q]
        BY <2>2 DEF TypeInv
      <3> QED BY <1>1, <3>1 DEF Placed
    <2>5. \A q \in Requests : Placed(q)'
      BY <2>1, <2>4
    <2>6. WorldTyped'
      <3>1. lock' \in [Ids -> Requests \cup {"free"}]
        BY <1>1, LockTyped
      <3> QED BY <3>1, CountersTyped DEF WorldTyped, TypeInv
    <2> QED BY <1>1, <2>3, <2>5, <2>6 DEF TypeInv
  <1>2. ASSUME NEW r \in Requests, Serve(r) PROVE TypeInv'
    <2>1. Revises \/ AddsDraft(r)
      BY <1>2, IntentStep
    <2>2. Settles \/ AddsCommand(r)
      BY <1>2, CommandStep
    <2>3. Revises \/ Settles
      BY <1>2, OneRow
    <2>4. /\ RowsTyped' /\ OneActive' /\ KeysUnique'
          /\ DOMAIN intents \subseteq DOMAIN intents'
          /\ DOMAIN commands \subseteq DOMAIN commands'
      BY <2>1, <2>2, RowsStep
    <2>5. DOMAIN req' = Requests /\ \A q \in Requests \ {r} : req'[q] = req[q]
      BY <1>2, OthersKeep DEF TypeInv
    <2>6. UNCHANGED asked
      BY <1>2 DEF Serve, ReadContext, LockCandidate, ReadActive, Rewrite, Insert, LockIntent,
                  LockSource, WriteStale, WriteEdit, WriteDismissal, SentBefore, Handoff,
                  LookUp, Reserve, ChecksFail, StartDispatch, SendMessage, MarkOutcome,
                  Consume, ListSource, ListIntents, ListWrite, AbortDeadlock
    <2>7. Budget'
      BY <1>2, <2>1, <2>2, <2>3, <2>5, <2>6, BudgetStep
    <2> QED BY <1>1, <1>2, <2>4, <2>7
  <1>3. ASSUME NEW r \in Requests, Die(r) PROVE TypeInv'
    <2>1. UNCHANGED <<rows, telegram, asked>>
      BY <1>3 DEF Die
    <2>2. Revises /\ Settles
      BY <2>1, RevisesNone, SettlesNone DEF TypeInv, rows, telegram
    <2>3. /\ RowsTyped' /\ OneActive' /\ KeysUnique'
          /\ DOMAIN intents \subseteq DOMAIN intents'
          /\ DOMAIN commands \subseteq DOMAIN commands'
      BY <2>2, RowsStep
    <2>4. DOMAIN req' = Requests /\ \A q \in Requests \ {r} : req'[q] = req[q]
      BY <1>3, OthersKeep DEF TypeInv
    <2>5. Budget'
      BY <1>3, <2>1, <2>2, <2>4, BudgetStep
    <2> QED BY <1>1, <1>3, <2>3, <2>5
  <1>4. ASSUME NEW r \in Requests, Begin(r) PROVE TypeInv'
    <2>1. UNCHANGED <<rows, telegram>> /\ asked' = asked + 1
      BY <1>4 DEF Begin
    <2>2. Revises /\ Settles
      BY <2>1, RevisesNone, SettlesNone DEF TypeInv, rows, telegram
    <2>3. /\ RowsTyped' /\ OneActive' /\ KeysUnique'
          /\ DOMAIN intents \subseteq DOMAIN intents'
          /\ DOMAIN commands \subseteq DOMAIN commands'
      BY <2>2, RowsStep
    <2>4. DOMAIN req' = Requests /\ \A q \in Requests \ {r} : req'[q] = req[q]
      BY <1>4, OthersKeep DEF TypeInv
    <2>5. Budget'
      <3>1. Fresh' \subseteq Fresh \cup {r}
        BY <2>4 DEF Fresh
      <3>2. /\ IsFiniteSet(Fresh) /\ Cardinality(Fresh) \in Nat
            /\ Len(intents) + Len(commands) + Cardinality(Fresh) <= asked
            /\ Len(intents) \in Nat /\ Len(commands) \in Nat /\ asked \in Nat
        BY FS_CardinalityType, RowIds, ChannelDMReplyAssumption
           DEF TypeInv, Budget, WorldTyped
      <3>3. IsFiniteSet(Fresh \cup {r})
            /\ Cardinality(Fresh \cup {r}) <= Cardinality(Fresh) + 1
            /\ Cardinality(Fresh \cup {r}) \in Nat
        <4>1. /\ IsFiniteSet(Fresh \cup {r})
              /\ Cardinality(Fresh \cup {r}) =
                    IF r \in Fresh THEN Cardinality(Fresh) ELSE Cardinality(Fresh) + 1
          BY <3>2, FS_AddElement
        <4> QED BY <3>2, <4>1
      <3>4. IsFiniteSet(Fresh') /\ Cardinality(Fresh') \in Nat
            /\ Cardinality(Fresh') <= Cardinality(Fresh \cup {r})
        BY <3>1, <3>3, FS_Subset, FS_CardinalityType
      <3>5. Len(intents') = Len(intents) /\ Len(commands') = Len(commands)
        BY <2>1 DEF rows
      <3> QED BY <2>1, <3>2, <3>3, <3>4, <3>5 DEF Budget
    <2> QED BY <1>1, <1>4, <2>3, <2>5
  <1>5. CASE EditMessage \/ Reroute \/ UNCHANGED vars
    <2>1. UNCHANGED <<req, rows, telegram, asked, lock>>
      BY <1>5 DEF EditMessage, Reroute, vars
    <2>2. WorldTyped'
      BY <2>1, CountersTyped DEF WorldTyped, TypeInv
    <2> QED BY <2>1, <2>2, QuietStep DEF TypeInv
  <1> QED BY <1>2, <1>3, <1>4, <1>5 DEF Next

\* It holds at the start.
LEMMA TypeInit == Init => TypeInv
  <1> SUFFICES ASSUME Init PROVE TypeInv
    OBVIOUS
  <1> USE ChannelDMReplyAssumption DEF Init
  <1>1. /\ intents \in Seq(Intent) /\ commands \in Seq(Command) /\ calls \in Seq(Nat)
        /\ posted \in Seq(Nat) /\ Len(intents) = 0 /\ Len(commands) = 0
        /\ Len(calls) = 0 /\ Len(posted) = 0
    BY EmptySeq
  <1>2. DOMAIN intents = {} /\ DOMAIN commands = {}
    BY <1>1, LenProperties
  <1>3. RowsTyped /\ OneActive /\ KeysUnique
    BY <1>1, <1>2 DEF RowsTyped, OneActive, ActiveIds, KeysUnique
  <1>4. WorldTyped
    BY DEF WorldTyped
  <1>5. MemoryTyped(NoRequest)
    BY DEF MemoryTyped, NoRequest, Fields, Ids
  <1>6. ReqTyped /\ Fresh = {}
    BY <1>5 DEF ReqTyped, Fresh, NoRequest
  <1>7. Budget
    BY <1>1, <1>6, FS_EmptySet DEF Budget
  <1>8. \A r \in Requests : Placed(r)
    BY DEF Placed, NoRequest, Calling
  <1> QED BY <1>3, <1>4, <1>6, <1>7, <1>8 DEF TypeInv

\* TypeInv is an invariant.
LEMMA TypeInvCorrect == Spec => []TypeInv
  <1>1. TypeInv /\ [Next]_vars => TypeInv'
    BY TypeStep
  <1> QED BY <1>1, TypeInit, PTL DEF Spec

\* The invariant is at least as strong as the type invariant of the model.
LEMMA TypeInvTypes == TypeInv => TypeOK
  <1> SUFFICES ASSUME TypeInv PROVE TypeOK
    OBVIOUS
  <1> USE DEF TypeInv
  <1>1. Cardinality(ActiveIds) <= 1
    <2>1. CASE ActiveIds = {}
      BY <2>1, FS_EmptySet
    <2>2. CASE ActiveIds # {}
      <3>1. ActiveIds = {Active}
        BY <2>2, ActiveUnder
      <3> QED BY <3>1, FS_Singleton
    <2> QED BY <2>1, <2>2
  <1> QED BY <1>1 DEF TypeOK, RowsTyped, WorldTyped, ReqTyped, MemoryTyped

\* In every reachable state, on either database, every variable has its type, rows stay
\* within the requests made, and one draft at most is under review.
THEOREM TypeCorrect == Spec => []TypeOK
  BY TypeInvCorrect, TypeInvTypes, PTL

-----------------------------------------------------------------------------
(* Telegram is asked once. *)

\* What the request that stored a command knows of it.
Asks(r) ==
    LET c == req[r].cmd IN
    /\ req[r].pc = "checks" => commands[c].state = "pending" /\ ~commands[c].started
    /\ req[r].pc \in {"call", "mark"} => commands[c].state = "pending" /\ commands[c].started
    /\ req[r].pc = "call" => calls[c] = 0 /\ posted[c] = 0
    /\ req[r].pc = "mark" =>
          /\ calls[c] = 1
          /\ req[r].outcome = "sent" => posted[c] = 1
          /\ req[r].outcome = "failed" => posted[c] = 0

\* What a command that no request has in hand says of Telegram.
Tells(c) ==
    /\ calls[c] <= 1
    /\ ~commands[c].started => calls[c] = 0 /\ posted[c] = 0
    /\ commands[c].state = "sent" => posted[c] = 1
    /\ commands[c].state = "failed" => posted[c] = 0

\* No two requests have the same command in hand.
OwnCommands ==
    \A r, q \in Requests :
        req[r].pc \in Calling /\ req[q].pc \in Calling /\ req[r].cmd = req[q].cmd => r = q

CallInv ==
    /\ OwnCommands
    /\ \A r \in Requests : Asks(r)
    /\ \A c \in DOMAIN commands : Tells(c)

\* A request that has a command after a step had it before, or has just stored it.
LEMMA CommandMemory ==
  ASSUME TypeInv, NEW r \in Requests, Begin(r) \/ Serve(r) \/ Die(r), req'[r].pc \in Calling
  PROVE  \/ /\ req[r].pc \in Calling /\ Settles
            /\ req'[r].cmd = req[r].cmd /\ req'[r].op = req[r].op
            /\ req'[r].intent = req[r].intent
            /\ \/ req'[r].pc = "consume"
               \/ StartDispatch(r) /\ req'[r].pc = "call" /\ ~Answered(r)
               \/ SendMessage(r) /\ req'[r].pc = "mark"
         \/ AddsCommand(r)
  <1> USE DEF TypeInv
  <1>1. ~End(r)
    BY EndFields DEF NoRequest, Calling
  <1>2. ASSUME NEW changes, Step(r, changes), "pc" \in DOMAIN changes
        PROVE  req'[r].pc = changes["pc"]
    BY <1>2, StepFields DEF Fields
  <1>3. ~(Begin(r) \/ ReadContext(r) \/ LockCandidate(r) \/ ReadActive(r) \/ Insert(r)
          \/ LockIntent(r) \/ LockSource(r) \/ LookUp(r) \/ ListSource(r) \/ ListIntents(r))
    <2> USE <1>1, <1>2 DEF Calling
    <2>1. ~Begin(r) /\ ~ReadContext(r)
      <3>1. ASSUME NEW op, NEW i, NEW text, NEW key,
                   Step(r, [op |-> op, pc |-> "start", intent |-> i, text |-> text,
                            key |-> key])
            PROVE  FALSE
        BY <3>1
      <3>2. ASSUME Begin(r) PROVE FALSE
        BY <3>1, <3>2 DEF Begin
      <3> QED BY <3>2 DEF ReadContext
    <2>2. ~LockCandidate(r) /\ ~ReadActive(r)
      BY DEF LockCandidate, ReadActive
    <2>3. ~Insert(r) /\ ~LockIntent(r)
      BY DEF Insert, LockIntent
    <2>4. ~LockSource(r) /\ ~LookUp(r)
      BY DEF LockSource, LookUp
    <2>5. ~ListSource(r) /\ ~ListIntents(r)
      BY DEF ListSource, ListIntents
    <2> QED BY <2>1, <2>2, <2>3, <2>4, <2>5
  <1>4. ASSUME NEW command, Store(r, command), Handoff(r) \/ Reserve(r)
        PROVE  AddsCommand(r)
    <2>1. ~Settles
      <3>1. Len(commands) \in Nat
        BY RowIds
      <3> QED BY <1>4, <3>1, AppendProperties DEF Store, Settles, RowsTyped
    <2> QED BY <1>4, <2>1, CommandStep DEF Serve
  <1>5. ASSUME NEW place, NEW outcome, req[r].pc \in Calling,
               \/ Step(r, [pc |-> place])
               \/ Step(r, [pc |-> place, outcome |-> outcome])
        PROVE  /\ req'[r].pc = place
               /\ req'[r].cmd = req[r].cmd /\ req'[r].op = req[r].op
               /\ req'[r].intent = req[r].intent
    BY <1>5, StepFields DEF Fields
  <1>6. ASSUME ChecksFail(r) \/ StartDispatch(r) \/ SendMessage(r) \/ MarkOutcome(r)
        PROVE  req[r].pc \in Calling /\ Settles
    <2>1. req[r].pc \in Calling
      BY <1>6 DEF ChecksFail, StartDispatch, SendMessage, MarkOutcome, Calling
    <2>2. ~AddsCommand(r)
      BY <2>1 DEF AddsCommand, Calling
    <2> QED BY <1>6, <2>1, <2>2, CommandStep DEF Serve
  <1>7. ASSUME Answered(r) PROVE Step(r, [pc |-> "consume"])
    BY <1>1, <1>7 DEF Answered
  <1>8. CASE ChecksFail(r) \/ MarkOutcome(r)
    BY <1>5, <1>6, <1>7, <1>8 DEF ChecksFail, MarkOutcome
  <1>9. CASE StartDispatch(r)
    <2>1. CASE Answered(r)
      BY <1>5, <1>6, <1>7, <1>9, <2>1
    <2>2. CASE ~Answered(r)
      BY <1>5, <1>6, <1>9, <2>2 DEF StartDispatch
    <2> QED BY <2>1, <2>2
  <1>10. CASE SendMessage(r)
    BY <1>5, <1>6, <1>10 DEF SendMessage
  <1>11. CASE Handoff(r) \/ Reserve(r)
    BY <1>1, <1>4, <1>11 DEF Handoff, Reserve
  <1> QED BY <1>1, <1>3, <1>8, <1>9, <1>10, <1>11
          DEF Serve, Rewrite, WriteStale, WriteEdit, WriteDismissal, SentBefore, Consume,
              ListWrite, AbortDeadlock, Die

\* A request that did not store a command leaves it alone.
LEMMA OtherCommands ==
  ASSUME TypeInv, NEW r \in Requests, Serve(r), NEW c \in DOMAIN commands,
         req[r].pc \in Calling => req[r].cmd # c
  PROVE  commands'[c] = commands[c] /\ calls'[c] = calls[c] /\ posted'[c] = posted[c]
  <1> USE DEF TypeInv
  <1>1. /\ DOMAIN commands = 1..Len(commands)
        /\ DOMAIN calls = 1..Len(commands) /\ DOMAIN posted = 1..Len(commands)
    BY RowIds
  <1>2. CASE AddsCommand(r)
    BY <1>2, AppendsCommand DEF AddsCommand
  <1>3. CASE ChecksFail(r) \/ MarkOutcome(r)
    BY <1>1, <1>3 DEF ChecksFail, MarkOutcome, Terminal, Calling, telegram
  <1>4. CASE StartDispatch(r)
    BY <1>1, <1>4 DEF StartDispatch, Calling, telegram
  <1>5. CASE SendMessage(r)
    BY <1>1, <1>5 DEF SendMessage, Calling, rows
  <1>6. CASE (Handoff(r) \/ Reserve(r)) /\ ~AddsCommand(r)
    <2>1. ASSUME NEW command, Store(r, command) PROVE FALSE
      <3>0. Len(commands) \in Nat
        BY RowIds
      <3>1. ~Settles
        BY <2>1, <3>0, AppendProperties DEF Store, Settles, RowsTyped
      <3> QED BY <1>6, <3>1, CommandStep DEF Serve
    <2>2. UNCHANGED <<commands, telegram>>
      BY <1>6, <2>1 DEF Handoff, Reserve, rows
    <2> QED BY <2>2 DEF telegram
  <1>7. CASE UNCHANGED <<commands, telegram>>
    BY <1>7 DEF telegram
  <1> QED BY <1>2, <1>3, <1>4, <1>5, <1>6, <1>7
          DEF Serve, ReadContext, LockCandidate, ReadActive, Rewrite, Insert, LockIntent,
              LockSource, WriteStale, WriteEdit, WriteDismissal, SentBefore, LookUp, Consume,
              ListSource, ListIntents, ListWrite, AbortDeadlock, rows

\* What a request does to its own command tells the truth.
LEMMA OwnCommandStep ==
  ASSUME TypeInv, CallInv, NEW r \in Requests, Serve(r), req[r].pc \in Calling,
         NEW c, req[r].cmd = c
  PROVE  Tells(c)' /\ (req'[r].pc \in Calling => Asks(r)')
  <1> USE DEF TypeInv
  <1>1. /\ c \in DOMAIN commands /\ c \in DOMAIN calls /\ c \in DOMAIN posted
        /\ commands[c] \in Command /\ calls[c] \in Nat /\ posted[c] \in Nat
    <2>1. c \in DOMAIN commands
      BY DEF Placed
    <2> QED BY <2>1, RowIds, ElementOfSeq DEF RowsTyped
  <1>2. Asks(r) /\ Tells(c) /\ Placed(r)
    BY <1>1 DEF CallInv
  <1>3. ~AddsCommand(r) /\ ~Begin(r)
    BY DEF AddsCommand, Calling, Begin
  <1>4. req'[r].pc \in Calling =>
          /\ req'[r].cmd = c
          /\ \/ req'[r].pc = "consume"
             \/ StartDispatch(r) /\ req'[r].pc = "call" /\ ~Answered(r)
             \/ SendMessage(r) /\ req'[r].pc = "mark"
    BY <1>3, CommandMemory
  <1>5. CASE ChecksFail(r) \/ MarkOutcome(r)
    <2>1. Tells(c)'
      BY <1>1, <1>2, <1>5
         DEF ChecksFail, MarkOutcome, Terminal, Asks, Tells, telegram, Command
    <2>2. \/ ~StartDispatch(r) /\ ~SendMessage(r)
          \/ req'[r].pc = "consume" \/ req'[r].pc \notin Calling
      <3>1. CASE End(r)
        BY <3>1, EndFields DEF NoRequest, Calling
      <3>2. CASE Step(r, [pc |-> "consume"])
        BY <3>2, StepFields DEF Fields
      <3> QED BY <1>5, <3>1, <3>2 DEF ChecksFail, MarkOutcome, Answered
    <2> QED BY <1>4, <2>1, <2>2 DEF Asks
  <1>6. CASE StartDispatch(r)
    <2>1. Tells(c)'
      BY <1>1, <1>2, <1>6 DEF StartDispatch, Asks, Tells, telegram, Command
    <2>2. ASSUME ~Answered(r), req'[r].pc = "call", req'[r].cmd = c PROVE Asks(r)'
      BY <1>1, <1>2, <1>6, <2>2 DEF StartDispatch, Asks, Tells, telegram, Command
    <2>3. ~SendMessage(r)
      BY <1>6 DEF StartDispatch, SendMessage
    <2> QED BY <1>4, <2>1, <2>2, <2>3 DEF Asks
  <1>7. CASE SendMessage(r)
    <2>1. PICK outcome \in Outcomes, got \in {0, 1} :
             /\ outcome = "sent" => got = 1
             /\ outcome = "failed" => got = 0
             /\ posted' = [posted EXCEPT ![c] = posted[c] + got]
             /\ Step(r, [pc |-> "mark", outcome |-> outcome])
      BY <1>1, <1>7 DEF SendMessage
    <2>2. calls' = [calls EXCEPT ![c] = calls[c] + 1] /\ commands' = commands
      BY <1>1, <1>7 DEF SendMessage, rows
    <2>3. req'[r].pc = "mark" /\ req'[r].outcome = outcome /\ req'[r].cmd = c
      BY <2>1, StepFields DEF Fields
    <2>4. /\ calls[c] = 0 /\ posted[c] = 0
          /\ commands[c].state = "pending" /\ commands[c].started
      BY <1>2, <1>7 DEF SendMessage, Asks
    <2>5. calls'[c] = 1 /\ posted'[c] = got /\ commands'[c] = commands[c]
      BY <1>1, <2>1, <2>2, <2>4
    <2> QED BY <2>1, <2>3, <2>4, <2>5 DEF Asks, Tells
  <1>8. CASE ~(ChecksFail(r) \/ MarkOutcome(r) \/ StartDispatch(r) \/ SendMessage(r))
    <2>1. UNCHANGED <<commands, telegram>>
      BY <1>8 DEF Serve, ReadContext, LockCandidate, ReadActive, Rewrite, Insert, LockIntent,
                  LockSource, WriteStale, WriteEdit, WriteDismissal, SentBefore, Handoff,
                  LookUp, Reserve, Consume, ListSource, ListIntents, ListWrite, AbortDeadlock,
                  rows, At, Calling
    <2> QED BY <1>2, <1>4, <1>8, <2>1 DEF Tells, Asks, telegram
  <1> QED BY <1>5, <1>6, <1>7, <1>8

\* Every step keeps what commands and requests say of Telegram.
LEMMA CallStep ==
  ASSUME TypeInv, CallInv, [Next]_vars
  PROVE  CallInv'
  <1> USE DEF TypeInv
  <1>1. ASSUME NEW r \in Requests, Begin(r) \/ Die(r) PROVE CallInv'
    <2>1. UNCHANGED <<commands, telegram>>
      BY <1>1 DEF Begin, Die, rows
    <2>2. \A q \in Requests \ {r} : req'[q] = req[q]
      BY <1>1, OthersKeep
    <2>3. req'[r].pc \notin Calling
      <3>1. CASE End(r)
        BY <3>1, EndFields DEF NoRequest, Calling
      <3>2. ASSUME NEW changes, Step(r, changes), "pc" \in DOMAIN changes,
                   changes["pc"] = "start"
            PROVE  req'[r].pc \notin Calling
        BY <3>2, StepFields DEF Fields, Calling
      <3> QED BY <1>1, <3>1, <3>2 DEF Begin, Die
    <2> QED BY <2>1, <2>2, <2>3 DEF CallInv, OwnCommands, Asks, Tells, telegram, Calling
  <1>2. ASSUME NEW r \in Requests, Serve(r) PROVE CallInv'
    <2>0. /\ Len(commands) \in Nat /\ DOMAIN commands = 1..Len(commands)
          /\ \A q \in Requests \ {r} : req'[q] = req[q]
          /\ \A q \in Requests : req[q].pc \in Calling => req[q].cmd \in DOMAIN commands
      BY <1>2, RowIds, OthersKeep DEF Placed
    <2>1. CASE AddsCommand(r)
      <3>1. PICK command \in Command :
               /\ command.state = "pending" /\ ~command.started
               /\ commands' = Append(commands, command)
               /\ calls' = Append(calls, 0)
               /\ posted' = Append(posted, 0)
        BY <2>1 DEF AddsCommand
      <3>2. req'[r].pc = "checks" /\ req'[r].cmd = Len(commands) + 1
        BY <2>1 DEF AddsCommand
      <3>3. /\ DOMAIN commands' = DOMAIN commands \cup {Len(commands) + 1}
            /\ commands'[Len(commands) + 1] = command
            /\ calls'[Len(commands) + 1] = 0 /\ posted'[Len(commands) + 1] = 0
            /\ \A c \in DOMAIN commands :
                  commands'[c] = commands[c] /\ calls'[c] = calls[c] /\ posted'[c] = posted[c]
        BY <3>1, AppendsCommand
      <3>4. OwnCommands'
        BY <2>0, <3>2 DEF CallInv, OwnCommands
      <3>5. ASSUME NEW q \in Requests PROVE Asks(q)'
        <4>1. CASE q = r
          BY <3>1, <3>2, <3>3, <4>1 DEF Asks
        <4>2. CASE q # r
          BY <2>0, <3>3, <4>2 DEF CallInv, Asks, Calling
        <4> QED BY <4>1, <4>2
      <3>6. ASSUME NEW c \in DOMAIN commands' PROVE Tells(c)'
        <4>1. CASE c = Len(commands) + 1
          <5>1. /\ commands'[c].state = "pending" /\ ~commands'[c].started
                /\ calls'[c] = 0 /\ posted'[c] = 0
            BY <3>1, <3>3, <4>1
          <5> QED BY <5>1 DEF Tells
        <4>2. CASE c \in DOMAIN commands
          BY <3>3, <4>2 DEF CallInv, Tells
        <4> QED BY <3>3, <4>1, <4>2
      <3> QED BY <3>4, <3>5, <3>6 DEF CallInv
    <2>2. CASE ~AddsCommand(r)
      <3>1. DOMAIN commands' = DOMAIN commands
        BY <1>2, <2>0, <2>2, CommandStep, LenProperties DEF Settles
      <3>2. req'[r].pc \in Calling => req[r].pc \in Calling /\ req'[r].cmd = req[r].cmd
        BY <1>2, <2>2, CommandMemory
      <3>3. OwnCommands'
        BY <2>0, <3>2 DEF CallInv, OwnCommands
      <3>4. ASSUME NEW q \in Requests PROVE Asks(q)'
        <4>1. CASE q = r
          BY <1>2, <3>2, <4>1, OwnCommandStep DEF Asks, Calling
        <4>2. CASE q # r /\ req[q].pc \in Calling
          <5>1. req[r].pc \in Calling => req[r].cmd # req[q].cmd
            BY <4>2 DEF CallInv, OwnCommands
          <5>2. /\ commands'[req[q].cmd] = commands[req[q].cmd]
                /\ calls'[req[q].cmd] = calls[req[q].cmd]
                /\ posted'[req[q].cmd] = posted[req[q].cmd]
            BY <1>2, <2>0, <4>2, <5>1, OtherCommands
          <5> QED BY <2>0, <4>2, <5>2 DEF CallInv, Asks
        <4>3. CASE q # r /\ req[q].pc \notin Calling
          BY <2>0, <4>3 DEF Asks, Calling
        <4> QED BY <4>1, <4>2, <4>3
      <3>5. ASSUME NEW c \in DOMAIN commands' PROVE Tells(c)'
        <4>1. CASE req[r].pc \in Calling /\ req[r].cmd = c
          BY <1>2, <4>1, OwnCommandStep
        <4>2. CASE ~(req[r].pc \in Calling /\ req[r].cmd = c)
          BY <1>2, <3>1, <4>2, OtherCommands DEF CallInv, Tells
        <4> QED BY <4>1, <4>2
      <3> QED BY <3>3, <3>4, <3>5 DEF CallInv
    <2> QED BY <2>1, <2>2
  <1>3. CASE EditMessage \/ Reroute \/ UNCHANGED vars
    <2>1. UNCHANGED <<req, commands, telegram>>
      BY <1>3 DEF EditMessage, Reroute, vars, rows
    <2> QED BY <2>1 DEF CallInv, OwnCommands, Asks, Tells, telegram
  <1> QED BY <1>1, <1>2, <1>3 DEF Next

\* CallInv is an invariant, on either database.
LEMMA CallInvCorrect == Spec => []CallInv
  <1>1. Init => CallInv
    <2> SUFFICES ASSUME Init PROVE CallInv
      OBVIOUS
    <2>1. DOMAIN commands = {}
      BY EmptySeq, LenProperties DEF Init
    <2> QED BY <2>1 DEF Init, CallInv, OwnCommands, Asks, NoRequest, Calling
  <1>2. TypeInv /\ CallInv /\ [Next]_vars => CallInv'
    BY CallStep
  <1> QED BY <1>1, <1>2, TypeInvCorrect, PTL DEF Spec

-----------------------------------------------------------------------------
(* With row locks a draft and its command belong together. *)

\* A draft that was handed over, and what its command says of it.
HandedOver(i) ==
    LET c == intents[i].key IN
    /\ c \in DOMAIN commands
    /\ commands[c].key = c /\ commands[c].of = i /\ commands[c].text = intents[i].text
    /\ intents[i].command \in {0, c}

\* What a request that has locked rows, or has read them to mark them, may rely on.
Holds(r) ==
    LET m == req[r] IN
    /\ m.op = "create" /\ m.pc = "write" /\ m.intent # 0 =>
          lock[m.intent] = r /\ intents[m.intent] = m.saw
    /\ m.op \in Picks /\ m.pc \in {"source", "write"} =>
          lock[m.intent] = r /\ intents[m.intent] = m.saw
    /\ m.op \in Picks /\ m.pc = "write" => lock[0] = r /\ m.hash = source
    /\ m.op = "send" /\ m.pc \in Calling => intents[m.intent].key = m.cmd
    /\ m.op = "list" /\ m.pc = "write" =>
          \A k \in m.marks :
              /\ k.state = "consumed" => k.command # 0 /\ intents[k.id].key = k.command
              /\ k.state = "stale" => k.command = 0

HandoffInv ==
    /\ \A i \in DOMAIN intents :
          IF intents[i].key = 0
          THEN intents[i].command = 0 /\ intents[i].state # "consumed"
          ELSE HandedOver(i)
    /\ \A c \in DOMAIN commands :
          commands[c].of # 0 =>
             commands[c].of \in DOMAIN intents /\ intents[commands[c].of].key = c
    /\ \A r \in Requests : Holds(r)

\* How a draft may change: what was handed over keeps key and text, and is only ever linked
\* to its command; what was not is not linked or consumed.
Proper(old, new) ==
    IF old.key = 0
    THEN /\ new.command = old.command
         /\ new.state = "consumed" => old.state = "consumed"
    ELSE /\ new.key = old.key /\ new.text = old.text
         /\ new.command \in {old.command, old.key}

\* A request hands a draft over, with the key of the command it stores.
HandsOver(r) == At(r, {"send"}, "write") /\ Len(commands') = Len(commands) + 1

\* What a request does to the drafts: those it changes nobody else has locked.
Drafts(r) ==
    /\ DOMAIN intents \subseteq DOMAIN intents'
    /\ \A j \in DOMAIN intents :
          /\ Proper(intents[j], intents'[j])
          /\ intents'[j] = intents[j] \/ lock[j] \in {"free", r}
          /\ intents'[j].key = intents[j].key \/ (HandsOver(r) /\ j = req[r].intent)
    /\ \A j \in DOMAIN intents' \ DOMAIN intents :
          intents'[j].key = 0 /\ intents'[j].command = 0
          /\ intents'[j].state = "pending_review"

\* A request replaces a draft that nobody else has locked.
LEMMA DraftsOne ==
  ASSUME RowsTyped, NEW r, NEW i \in DOMAIN intents, NEW row \in Intent,
         lock[i] \in {"free", r}, Proper(intents[i], row),
         row.key = intents[i].key \/ (HandsOver(r) /\ i = req[r].intent),
         intents' = [intents EXCEPT ![i] = row]
  PROVE  Drafts(r)
  <1>1. /\ DOMAIN intents' = DOMAIN intents
        /\ \A j \in DOMAIN intents : intents'[j] = IF j = i THEN row ELSE intents[j]
    BY ReplacesDraft
  <1>2. \A j \in DOMAIN intents : Proper(intents[j], intents[j])
    BY DEF Proper
  <1> QED BY <1>1, <1>2 DEF Drafts

\* A request leaves the drafts alone.
LEMMA DraftsNone ==
  ASSUME UNCHANGED intents, NEW r
  PROVE  Drafts(r)
  BY DEF Drafts, Proper

\* The actions that write drafts, one at a time.
LEMMA DraftStep ==
  ASSUME TypeInv, locking, HandoffInv, NEW r \in Requests, Serve(r)
  PROVE  Drafts(r)
  <1> USE DEF TypeInv
  <1> DEFINE m == req[r]
             i == m.intent
  <1>0. /\ \A j \in DOMAIN intents : intents[j] \in Intent
        /\ Len(commands) \in Nat /\ DOMAIN commands = 1..Len(commands)
        /\ Len(intents) \in Nat /\ DOMAIN intents = 1..Len(intents)
        /\ DOMAIN commands \subseteq Ids
    BY RowIds
  <1>1. MemoryTyped(m) /\ Placed(r) /\ Holds(r)
    BY DEF ReqTyped, HandoffInv
  <1>2. CASE Rewrite(r)
    <2>1. i \in DOMAIN intents /\ m.text \in Texts /\ m.saw.key = 0
          /\ lock[i] = r /\ intents[i] = m.saw
      BY <1>0, <1>1, <1>2 DEF Rewrite, At, Placed, Holds, NoIntent, MemoryTyped
    <2> DEFINE row == [intents[i] EXCEPT !.text = m.text]
    <2>2. /\ row \in Intent /\ row.key = intents[i].key /\ row.command = intents[i].command
          /\ row.state = intents[i].state
      BY <1>0, <2>1 DEF Intent
    <2>3. intents' = [intents EXCEPT ![i] = row]
      BY <1>2, <2>1 DEF Rewrite
    <2> HIDE DEF row
    <2>4. Proper(intents[i], row)
      BY <2>1, <2>2 DEF Proper
    <2> QED BY <2>1, <2>2, <2>3, <2>4, DraftsOne
  <1>3. CASE WriteEdit(r)
    <2>1. i \in DOMAIN intents /\ m.text \in Texts /\ m.saw.key = 0
          /\ lock[i] = r /\ intents[i] = m.saw
      BY <1>1, <1>3 DEF WriteEdit, At, Placed, Holds, Picks, Reviewable
    <2> DEFINE row == [intents[i] EXCEPT !.text = m.text]
    <2>2. /\ row \in Intent /\ row.key = intents[i].key /\ row.command = intents[i].command
          /\ row.state = intents[i].state
      BY <1>0, <2>1 DEF Intent
    <2>3. intents' = [intents EXCEPT ![i] = row]
      BY <1>3, <2>1 DEF WriteEdit
    <2> HIDE DEF row
    <2>4. Proper(intents[i], row)
      BY <2>1, <2>2 DEF Proper
    <2> QED BY <2>1, <2>2, <2>3, <2>4, DraftsOne
  <1>4. CASE WriteStale(r) \/ WriteDismissal(r)
    <2>1. i \in DOMAIN intents /\ lock[i] = r /\ intents[i] = m.saw
      BY <1>1, <1>4 DEF WriteStale, WriteDismissal, At, Placed, Holds, Picks
    <2>2. PICK state \in {"stale", "dismissed"} : intents' = [intents EXCEPT ![i].state = state]
      BY <1>4 DEF WriteStale, WriteDismissal, MarkStale
    <2> DEFINE row == [intents[i] EXCEPT !.state = state]
    <2>3. /\ row \in Intent /\ row.key = intents[i].key /\ row.command = intents[i].command
          /\ row.text = intents[i].text /\ row.state # "consumed"
      BY <1>0, <2>1 DEF Intent
    <2>4. intents' = [intents EXCEPT ![i] = row]
      BY <2>1, <2>2
    <2> HIDE DEF row
    <2>5. Proper(intents[i], row)
      BY <2>3 DEF Proper
    <2> QED BY <2>1, <2>3, <2>4, <2>5, DraftsOne
  <1>5. ASSUME i \in DOMAIN intents, NEW c \in Ids, intents' = MarkConsumed(i, c),
               intents[i].key = c, c # 0, lock[i] \in {"free", r}
        PROVE  Drafts(r)
    <2> DEFINE row == [intents[i] EXCEPT !.state = "consumed", !.command = c]
    <2>1. /\ row \in Intent /\ row.key = intents[i].key /\ row.command = c
          /\ row.text = intents[i].text
      BY <1>0, <1>5 DEF Intent
    <2>2. intents' = [intents EXCEPT ![i] = row]
      BY <1>5 DEF MarkConsumed
    <2> HIDE DEF row
    <2>3. Proper(intents[i], row)
      BY <1>5, <2>1 DEF Proper
    <2> QED BY <1>5, <2>1, <2>2, <2>3, DraftsOne
  <1>6. CASE SentBefore(r)
    <2>1. i \in DOMAIN intents /\ lock[i] = r /\ intents[i] = m.saw /\ m.saw.key # 0
      BY <1>1, <1>6 DEF SentBefore, At, Placed, Holds, Picks
    <2>2. m.saw.key \in DOMAIN commands /\ commands[m.saw.key].key = m.saw.key
      BY <2>1 DEF HandoffInv, HandedOver
    <2>3. CommandOf(m.saw.key) = m.saw.key
      BY <2>2, CommandUnder
    <2> QED BY <1>0, <1>5, <1>6, <2>1, <2>2, <2>3, DraftsNone DEF SentBefore
  <1>7. CASE Consume(r)
    <2>1. i \in DOMAIN intents /\ m.cmd \in DOMAIN commands /\ intents[i].key = m.cmd
      BY <1>1, <1>7 DEF Consume, Placed, Holds, Picks, Calling
    <2> QED BY <1>0, <1>5, <1>7, <2>1 DEF Consume, Free
  <1>8. CASE Handoff(r)
    <2>1. /\ i \in DOMAIN intents /\ lock[i] = r /\ intents[i] = m.saw /\ m.saw.key = 0
          /\ r \in Fresh
      BY <1>1, <1>8 DEF Handoff, At, Placed, Holds, Picks, Fresh, Calling
    <2> DEFINE row == [intents[i] EXCEPT !.key = Len(commands) + 1]
    <2>2. Len(commands) + 1 \in Ids
      <3>1. Cardinality(Fresh) \in Nat /\ Cardinality(Fresh) # 0
        BY <2>1, FS_CardinalityType, FS_EmptySet DEF Budget
      <3>2. Len(commands) + 1 <= MaxRequests
        BY <3>1, RowIds, ChannelDMReplyAssumption DEF Budget, WorldTyped
      <3> QED BY <1>0, <3>2, ChannelDMReplyAssumption DEF Ids
    <2>3. /\ row \in Intent /\ row.command = intents[i].command
          /\ row.state = intents[i].state
      BY <1>0, <2>1, <2>2 DEF Intent
    <2>4. UNCHANGED intents \/ (intents' = [intents EXCEPT ![i] = row] /\ HandsOver(r))
      BY <1>0, <1>8, <2>1, AppendProperties DEF Handoff, rows, HandsOver, Store
    <2> HIDE DEF row
    <2>5. Proper(intents[i], row)
      BY <2>1, <2>3 DEF Proper
    <2> QED BY <1>8, <2>1, <2>3, <2>4, <2>5, DraftsOne, DraftsNone
  <1>9. CASE ListWrite(r)
    <2> DEFINE Row(j) == IF \E k \in m.marks : k.id = j
                         THEN LET k == CHOOSE k \in m.marks : k.id = j
                              IN  [intents[j] EXCEPT !.state = k.state,
                                     !.command = IF k.command = 0 THEN @ ELSE k.command]
                         ELSE intents[j]
    <2>1. intents' = [j \in DOMAIN intents |-> Row(j)]
      BY <1>9 DEF ListWrite
    <2>2. ASSUME NEW j \in DOMAIN intents
          PROVE  /\ Proper(intents[j], Row(j)) /\ Row(j).key = intents[j].key
                 /\ Row(j) = intents[j] \/ lock[j] \in {"free", r}
      <3>1. CASE \E k \in m.marks : k.id = j
        <4> DEFINE k == CHOOSE k \in m.marks : k.id = j
        <4>1. k \in Marks /\ k \in m.marks /\ k.id = j
          BY <1>1, <3>1 DEF MemoryTyped
        <4>2. Row(j) = [intents[j] EXCEPT !.state = k.state,
                          !.command = IF k.command = 0 THEN intents[j].command ELSE k.command]
          BY <1>0, <3>1 DEF Intent
        <4>3. /\ k.state = "consumed" => k.command # 0 /\ intents[j].key = k.command
              /\ k.state = "stale" => k.command = 0
              /\ lock[j] \in {"free", r}
          BY <1>1, <1>9, <4>1 DEF ListWrite, At, Holds, Free
        <4>4. k.state \in {"consumed", "stale"}
          BY <4>1 DEF Marks
        <4> HIDE DEF k, Row
        <4>5. /\ Row(j).key = intents[j].key /\ Row(j).text = intents[j].text
              /\ Row(j).state = k.state
              /\ Row(j).command = IF k.command = 0 THEN intents[j].command ELSE k.command
          BY <1>0, <4>2 DEF Intent
        <4> QED BY <4>3, <4>4, <4>5 DEF Proper
      <3>2. CASE ~\E k \in m.marks : k.id = j
        BY <3>2 DEF Proper
      <3> QED BY <3>1, <3>2
    <2> HIDE DEF Row
    <2> QED BY <2>1, <2>2 DEF Drafts
  <1>10. CASE Insert(r) /\ ~UNCHANGED intents
    <2> DEFINE old == IF i = 0 THEN intents ELSE MarkStale(i)
    <2>1. /\ At(r, {"create"}, "write") /\ intents' = Append(old, Draft(r))
      BY <1>10 DEF Insert
    <2>2. Draft(r) \in Intent
      BY <1>1, <2>1, ChannelDMReplyAssumption
         DEF Draft, Intent, At, Placed, MemoryTyped, Ids
    <2>3. /\ old \in Seq(Intent) /\ Len(old) = Len(intents)
          /\ \A j \in DOMAIN intents :
                /\ Proper(intents[j], old[j]) /\ old[j].key = intents[j].key
                /\ old[j] = intents[j] \/ lock[j] \in {"free", r}
      <3>1. CASE i = 0
        BY <1>0, <2>1, <3>1 DEF RowsTyped, Proper
      <3>2. CASE i # 0
        <4>1. i \in DOMAIN intents /\ lock[i] = r
          BY <1>1, <2>1, <3>2 DEF At, Placed, Holds
        <4> DEFINE row == [intents[i] EXCEPT !.state = "stale"]
        <4>2. /\ row \in Intent /\ row.key = intents[i].key /\ row.text = intents[i].text
              /\ row.command = intents[i].command /\ row.state = "stale"
              /\ old = [intents EXCEPT ![i] = row]
          BY <1>0, <3>2, <4>1 DEF Intent, MarkStale
        <4> HIDE DEF row, old
        <4>3. /\ old \in Seq(Intent) /\ Len(old) = Len(intents)
              /\ \A j \in DOMAIN intents : old[j] = IF j = i THEN row ELSE intents[j]
          BY <1>0, <4>1, <4>2, ExceptSeq DEF RowsTyped
        <4> QED BY <4>1, <4>2, <4>3 DEF Proper
      <3> QED BY <3>1, <3>2
    <2> HIDE DEF old
    <2>4. /\ DOMAIN intents' = DOMAIN intents \cup {Len(intents) + 1}
          /\ \A j \in DOMAIN intents : intents'[j] = old[j]
          /\ intents'[Len(intents) + 1] = Draft(r)
      <3>1. DOMAIN old = DOMAIN intents
        BY <1>0, <2>3, LenProperties
      <3> QED BY <2>1, <2>2, <2>3, <3>1, AppendsDraft
    <2>5. Draft(r).key = 0 /\ Draft(r).command = 0 /\ Draft(r).state = "pending_review"
      BY DEF Draft
    <2> QED BY <2>3, <2>4, <2>5 DEF Drafts
  <1>11. CASE UNCHANGED intents
    BY <1>11, DraftsNone
  <1> QED BY <1>2, <1>3, <1>4, <1>6, <1>7, <1>8, <1>9, <1>10, <1>11
          DEF Serve, ReadContext, LockCandidate, ReadActive, LockIntent, LockSource, LookUp,
              Reserve, ChecksFail, StartDispatch, SendMessage, MarkOutcome, ListSource,
              ListIntents, AbortDeadlock, rows

\* Only the request itself releases what it has locked.
LEMMA LocksKeep ==
  ASSUME TypeInv, locking, NEW r \in Requests, Begin(r) \/ Serve(r) \/ Die(r),
         NEW q \in Requests \ {r}, NEW i \in Ids, lock[i] = q
  PROVE  lock'[i] = q
  <1> USE DEF TypeInv, WorldTyped
  <1>0. q # r /\ q # "free"
    BY ChannelDMReplyAssumption
  <1>1. Unlocked(r)[i] = q
    BY <1>0 DEF Unlocked
  <1>2. ASSUME NEW j, Free(r, j), Take(r, j) PROVE lock'[i] = q
    BY <1>0, <1>2 DEF Take, Free
  <1>3. End(r) => lock'[i] = q
    BY <1>1 DEF End
  <1>4. CASE ReadContext(r) \/ LockCandidate(r) \/ ReadActive(r)
    BY <1>2, <1>3, <1>4 DEF ReadContext, LockCandidate, ReadActive
  <1>5. CASE LockIntent(r) \/ LockSource(r) \/ LookUp(r)
    BY <1>2, <1>3, <1>5 DEF LockIntent, LockSource, LookUp
  <1>6. CASE Handoff(r) \/ Reserve(r)
    BY <1>1, <1>3, <1>6 DEF Handoff, Reserve, Store
  <1>7. CASE ChecksFail(r) \/ StartDispatch(r) \/ MarkOutcome(r)
    BY <1>3, <1>7 DEF ChecksFail, StartDispatch, MarkOutcome, Answered
  <1> QED BY <1>3, <1>4, <1>5, <1>6, <1>7
          DEF Serve, Begin, Die, Rewrite, Insert, WriteStale, WriteEdit, WriteDismissal,
              SentBefore, SendMessage, Consume, ListSource, ListIntents, ListWrite,
              AbortDeadlock

\* Who locks a row has it.
LEMMA Taken ==
  ASSUME TypeInv, locking, NEW r \in Requests, NEW i \in Ids, Take(r, i)
  PROVE  lock'[i] = r /\ \A j \in Ids : lock[j] = r => lock'[j] = r
  BY DEF Take, TypeInv, WorldTyped

\* A command is stored by a direct reply, or by the handoff of a draft.
LEMMA HandoffOrReserve ==
  ASSUME TypeInv, NEW r \in Requests, Serve(r), AddsCommand(r)
  PROVE  /\ ~End(r)
         /\ At(r, {"reply"}, "write") => Reserve(r)
         /\ At(r, {"send"}, "write") => Handoff(r)
  <1>1. ~End(r)
    BY EndFields DEF AddsCommand, NoRequest, TypeInv
  <1>2. At(r, {"reply"}, "write") => Reserve(r)
    BY <1>1 DEF Serve, ReadContext, LockCandidate, ReadActive, Rewrite, Insert, LockIntent,
                LockSource, WriteStale, WriteEdit, WriteDismissal, SentBefore, Handoff, LookUp,
                ChecksFail, StartDispatch, SendMessage, MarkOutcome, Consume, ListSource,
                ListIntents, ListWrite, AbortDeadlock, At
  <1>3. At(r, {"send"}, "write") => Handoff(r)
    BY <1>1 DEF Serve, ReadContext, LockCandidate, ReadActive, Rewrite, Insert, LockIntent,
                LockSource, WriteStale, WriteEdit, WriteDismissal, SentBefore, Reserve, LookUp,
                ChecksFail, StartDispatch, SendMessage, MarkOutcome, Consume, ListSource,
                ListIntents, ListWrite, AbortDeadlock, At
  <1> QED BY <1>1, <1>2, <1>3

\* It says what its draft says, and the draft gets its key.
LEMMA NewCommand ==
  ASSUME TypeInv, NEW r \in Requests, Serve(r), AddsCommand(r)
  PROVE  /\ DOMAIN commands' = DOMAIN commands \cup {Len(commands) + 1}
         /\ Len(commands') = Len(commands) + 1
         /\ Issues(r, commands'[Len(commands) + 1])
         /\ \A c \in DOMAIN commands : commands'[c] = commands[c]
         /\ At(r, {"reply"}, "write") => UNCHANGED intents
         /\ At(r, {"send"}, "write") =>
              /\ req[r].saw.key = 0 /\ ~Outdated(r)
              /\ intents' = [intents EXCEPT ![req[r].intent].key = Len(commands) + 1]
  <1>1. PICK command \in Command :
           /\ Issues(r, command)
           /\ commands' = Append(commands, command)
           /\ calls' = Append(calls, 0) /\ posted' = Append(posted, 0)
    BY DEF AddsCommand
  <1>2. /\ DOMAIN commands' = DOMAIN commands \cup {Len(commands) + 1}
        /\ Len(commands') = Len(commands) + 1
        /\ commands'[Len(commands) + 1] = command
        /\ \A c \in DOMAIN commands : commands'[c] = commands[c]
    BY <1>1, AppendsCommand DEF TypeInv
  <1>3. At(r, {"reply"}, "write") => UNCHANGED intents
    BY HandoffOrReserve DEF Reserve
  <1>4. At(r, {"send"}, "write") =>
              /\ req[r].saw.key = 0 /\ ~Outdated(r)
              /\ intents' = [intents EXCEPT ![req[r].intent].key = Len(commands) + 1]
    BY HandoffOrReserve DEF Handoff
  <1> QED BY <1>1, <1>2, <1>3, <1>4

\* A command is stored for one draft, which keeps its key.
LEMMA HandedStep ==
  ASSUME TypeInv, locking, HandoffInv, NEW r \in Requests, Serve(r)
  PROVE  /\ \A i \in DOMAIN intents' :
               IF intents'[i].key = 0
               THEN intents'[i].command = 0 /\ intents'[i].state # "consumed"
               ELSE HandedOver(i)'
         /\ \A c \in DOMAIN commands' :
               commands'[c].of # 0 =>
                  commands'[c].of \in DOMAIN intents' /\ intents'[commands'[c].of].key = c
  <1> USE DEF TypeInv
  <1>0. /\ Len(commands) \in Nat /\ DOMAIN commands = 1..Len(commands)
        /\ Len(intents) \in Nat /\ DOMAIN intents = 1..Len(intents)
        /\ \A i \in DOMAIN intents : intents[i] \in Intent
    BY RowIds
  <1>1. Drafts(r) /\ (Settles \/ AddsCommand(r))
    BY DraftStep, CommandStep
  <1>2. CASE Settles
    <2>0. Len(commands') = Len(commands)
      BY <1>2 DEF Settles
    <2>1. DOMAIN commands' = DOMAIN commands /\ ~HandsOver(r)
      <3>0. \A n \in Nat : n # n + 1
        OBVIOUS
      <3>1. ~HandsOver(r)
        BY <1>0, <2>0, <3>0 DEF HandsOver
      <3>2. DOMAIN commands' = DOMAIN commands
        BY <1>0, <1>2, LenProperties DEF Settles
      <3> QED BY <3>1, <3>2
    <2>2. ASSUME NEW i \in DOMAIN intents, intents[i].key # 0
          PROVE  HandedOver(i)'
      <3> DEFINE c == intents[i].key
      <3>1. /\ c \in DOMAIN commands /\ commands[c].key = c /\ commands[c].of = i
            /\ commands[c].text = intents[i].text /\ intents[i].command \in {0, c}
        BY <2>2 DEF HandoffInv, HandedOver
      <3>2. /\ intents'[i].key = c /\ intents'[i].text = intents[i].text
            /\ intents'[i].command \in {0, c}
        BY <1>1, <2>2, <3>1 DEF Drafts, Proper
      <3>3. /\ commands'[c].key = c /\ commands'[c].of = i
            /\ commands'[c].text = intents[i].text /\ c \in DOMAIN commands'
        BY <1>2, <2>1, <3>1 DEF Settles
      <3> HIDE DEF c
      <3> QED BY <3>2, <3>3 DEF HandedOver
    <2>3. ASSUME NEW i \in DOMAIN intents, intents[i].key = 0
          PROVE  intents'[i].key = 0 /\ intents'[i].command = 0
                 /\ intents'[i].state # "consumed"
      BY <1>1, <2>1, <2>3 DEF HandoffInv, Drafts, Proper
    <2>4. \A i \in DOMAIN intents : intents'[i].key = intents[i].key
      BY <1>1, <2>1 DEF Drafts
    <2>5. \A j \in DOMAIN intents' :
             IF intents'[j].key = 0
             THEN intents'[j].command = 0 /\ intents'[j].state # "consumed"
             ELSE HandedOver(j)'
      <3>1. ASSUME NEW j \in DOMAIN intents
            PROVE  IF intents'[j].key = 0
                   THEN intents'[j].command = 0 /\ intents'[j].state # "consumed"
                   ELSE HandedOver(j)'
        <4>1. CASE intents[j].key = 0
          BY <2>3, <4>1
        <4>2. CASE intents[j].key # 0
          <5>1. HandedOver(j)'
            BY <2>2, <4>2
          <5>2. intents'[j].key = intents[j].key
            BY <2>4
          <5> QED BY <4>2, <5>1, <5>2
        <4> QED BY <4>1, <4>2
      <3>2. ASSUME NEW j \in DOMAIN intents', j \notin DOMAIN intents
            PROVE  /\ intents'[j].key = 0 /\ intents'[j].command = 0
                   /\ intents'[j].state # "consumed"
        BY <1>1, <3>2 DEF Drafts
      <3> QED BY <3>1, <3>2
    <2>6. ASSUME NEW c \in DOMAIN commands', commands'[c].of # 0
          PROVE  commands'[c].of \in DOMAIN intents' /\ intents'[commands'[c].of].key = c
      <3>1. c \in DOMAIN commands /\ commands'[c].of = commands[c].of
        BY <1>2, <2>1, <2>6 DEF Settles
      <3>2. commands[c].of \in DOMAIN intents /\ intents[commands[c].of].key = c
        BY <2>6, <3>1 DEF HandoffInv
      <3> QED BY <1>1, <2>4, <3>1, <3>2 DEF Drafts
    <2> QED BY <2>5, <2>6
  <1>3. CASE AddsCommand(r)
    <2> DEFINE new == Len(commands) + 1
    <2>1. /\ DOMAIN commands' = DOMAIN commands \cup {new} /\ new \notin DOMAIN commands
          /\ new # 0 /\ Issues(r, commands'[new])
          /\ \A c \in DOMAIN commands : commands'[c] = commands[c]
          /\ At(r, {"reply"}, "write") => UNCHANGED intents
          /\ At(r, {"send"}, "write") =>
               /\ req[r].saw.key = 0
               /\ intents' = [intents EXCEPT ![req[r].intent].key = new]
      <3>1. new \notin DOMAIN commands /\ new # 0
        BY <1>0
      <3> QED BY <1>3, <3>1, NewCommand
    <2> HIDE DEF new
    <2>2. CASE At(r, {"reply"}, "write")
      <3>1. commands'[new].of = 0 /\ UNCHANGED intents
        BY <2>1, <2>2 DEF Issues, At, Pending
      <3> QED BY <2>1, <3>1 DEF HandoffInv, HandedOver
    <2>3. CASE At(r, {"send"}, "write")
      <3>0. PICK i \in DOMAIN intents : i = req[r].intent
        BY <2>3 DEF At, Placed, Picks
      <3>1. /\ commands'[new].of = i /\ commands'[new].key = new
            /\ commands'[new].text = req[r].saw.text
        BY <2>1, <2>3, <3>0 DEF Issues, At, Pending, new
      <3>2. i \in DOMAIN intents /\ intents[i] = req[r].saw /\ Placed(r)
        BY <2>3, <3>0 DEF At, Placed, HandoffInv, Holds, Picks
      <3> DEFINE row == [intents[i] EXCEPT !.key = new]
      <3>3. /\ row.key = new /\ row.text = intents[i].text /\ row.command = intents[i].command
            /\ intents' = [intents EXCEPT ![i] = row]
        BY <1>0, <2>1, <2>3, <3>0, <3>2 DEF Intent
      <3> HIDE DEF row
      <3>4. /\ DOMAIN intents' = DOMAIN intents /\ intents'[i] = row
            /\ \A j \in DOMAIN intents : j # i => intents'[j] = intents[j]
        BY <3>2, <3>3
      <3>5. intents[i].key = 0 /\ intents[i].command = 0
        BY <2>1, <2>3, <3>2 DEF HandoffInv
      <3>6. HandedOver(i)'
        <4>1. /\ intents'[i].key = new /\ intents'[i].command = 0
              /\ intents'[i].text = commands'[new].text
          BY <3>1, <3>2, <3>3, <3>4, <3>5
        <4>2. new \in DOMAIN commands' /\ commands'[new].key = new /\ commands'[new].of = i
          BY <2>1, <3>1
        <4> QED BY <4>1, <4>2 DEF HandedOver
      <3>7. ASSUME NEW j \in DOMAIN intents, j # i, intents[j].key # 0
            PROVE  HandedOver(j)'
        BY <2>1, <3>4, <3>7 DEF HandoffInv, HandedOver
      <3>8. ASSUME NEW c \in DOMAIN commands, commands[c].of # 0
            PROVE  commands[c].of \in DOMAIN intents /\ intents'[commands[c].of].key = c
        <4>1. commands[c].of # i
          BY <3>5, <3>8, <1>0 DEF HandoffInv
        <4> QED BY <3>4, <3>8, <4>1 DEF HandoffInv
      <3>9. \A j \in DOMAIN intents' :
               IF intents'[j].key = 0
               THEN intents'[j].command = 0 /\ intents'[j].state # "consumed"
               ELSE HandedOver(j)'
        <4>1. ASSUME NEW j \in DOMAIN intents', j # i, intents'[j].key = 0
              PROVE  intents'[j].command = 0 /\ intents'[j].state # "consumed"
          BY <3>4, <4>1 DEF HandoffInv
        <4>2. intents'[i].key # 0
          BY <2>1, <3>3, <3>4
        <4>3. ASSUME NEW j \in DOMAIN intents', intents'[j].key # 0
              PROVE  HandedOver(j)'
          BY <3>4, <3>6, <3>7, <4>3
        <4> QED BY <4>1, <4>2, <4>3
      <3> QED BY <2>1, <3>1, <3>2, <3>3, <3>4, <3>8, <3>9
    <2> QED BY <2>1, <2>2, <2>3 DEF Issues
  <1> QED BY <1>1, <1>2, <1>3

\* What the others have locked or read stays as they know it.
LEMMA HoldsOthers ==
  ASSUME TypeInv, locking, HandoffInv, NEW r \in Requests, Serve(r), NEW q \in Requests \ {r}
  PROVE  Holds(q)'
  <1> USE DEF TypeInv
  <1> DEFINE m == req[q]
  <1>0. /\ DOMAIN intents \subseteq Ids /\ DOMAIN commands \subseteq Ids /\ 0 \in Ids
        /\ 0 \notin DOMAIN commands
    BY RowIds, ChannelDMReplyAssumption DEF Ids
  <1>1. req'[q] = m /\ source' = source
    <2>1. source' = source
      BY DEF Serve, ReadContext, LockCandidate, ReadActive, Rewrite, Insert, LockIntent,
             LockSource, WriteStale, WriteEdit, WriteDismissal, SentBefore, Handoff, LookUp,
             Reserve, ChecksFail, StartDispatch, SendMessage, MarkOutcome, Consume,
             ListSource, ListIntents, ListWrite, AbortDeadlock
    <2> QED BY <2>1, OthersKeep
  <1>2. Placed(q) /\ Holds(q) /\ Drafts(r)
    BY DraftStep DEF HandoffInv
  <1>3. q # r /\ q # "free"
    BY ChannelDMReplyAssumption
  <1>4. ASSUME NEW i \in DOMAIN intents, lock[i] = q
        PROVE  lock'[i] = q /\ intents'[i] = intents[i]
    BY <1>0, <1>2, <1>3, <1>4, LocksKeep DEF Drafts
  <1>5. ASSUME NEW i \in DOMAIN intents, intents[i].key # 0
        PROVE  intents'[i].key = intents[i].key
    BY <1>2, <1>5 DEF Drafts, Proper
  <1>6. m.op = "create" /\ m.pc = "write" /\ m.intent # 0 =>
          lock'[m.intent] = q /\ intents'[m.intent] = m.saw
    BY <1>2, <1>4 DEF Placed, Holds
  <1>7. m.op \in Picks /\ m.pc \in {"source", "write"} =>
          lock'[m.intent] = q /\ intents'[m.intent] = m.saw
    BY <1>2, <1>4 DEF Placed, Holds
  <1>8. m.op \in Picks /\ m.pc = "write" => lock'[0] = q /\ m.hash = source'
    BY <1>0, <1>1, <1>2, LocksKeep DEF Holds
  <1>9. m.op = "send" /\ m.pc \in Calling => intents'[m.intent].key = m.cmd
    <2> SUFFICES ASSUME m.op = "send", m.pc \in Calling PROVE intents'[m.intent].key = m.cmd
      OBVIOUS
    <2>1. m.intent \in DOMAIN intents /\ m.cmd \in DOMAIN commands
      BY <1>2 DEF Placed, Picks, Calling
    <2>2. intents[m.intent].key = m.cmd /\ m.cmd # 0
      BY <1>0, <1>2, <2>1 DEF Holds
    <2> QED BY <1>5, <2>1, <2>2
  <1>10. m.op = "list" /\ m.pc = "write" =>
          \A k \in m.marks :
              /\ k.state = "consumed" => k.command # 0 /\ intents'[k.id].key = k.command
              /\ k.state = "stale" => k.command = 0
    BY <1>2, <1>5 DEF Placed, Holds
  <1> HIDE DEF m
  <1> QED BY <1>1, <1>6, <1>7, <1>8, <1>9, <1>10 DEF Holds

\* At other places there is nothing to rely on.
LEMMA HoldsNothing ==
  ASSUME NEW r, req'[r].pc \notin Calling \cup {"source", "write"}
  PROVE  Holds(r)'
  BY DEF Holds

\* What a request locks or reads it may rely on.
LEMMA HoldsOwn ==
  ASSUME TypeInv, locking, HandoffInv, NEW r \in Requests, Serve(r)
  PROVE  Holds(r)'
  <1> USE DEF TypeInv
  <1>0. /\ DOMAIN intents \subseteq Ids /\ DOMAIN commands \subseteq Ids /\ 0 \in Ids
        /\ 0 \notin DOMAIN commands /\ 0 \notin DOMAIN intents
    BY RowIds, ChannelDMReplyAssumption DEF Ids
  <1>1. Placed(r) /\ Holds(r) /\ Drafts(r)
    BY DraftStep DEF HandoffInv
  <1>2. CASE End(r)
    <2>1. req'[r] = NoRequest
      BY <1>2, EndFields
    <2> QED BY <2>1, HoldsNothing DEF NoRequest, Calling
  <1>3. ASSUME NEW changes, Step(r, changes), "pc" \in DOMAIN changes,
               changes["pc"] \in {"lock", "active", "intents"}
        PROVE  Holds(r)'
    <2>1. req'[r].pc = changes["pc"]
      BY <1>3, StepFields DEF Fields
    <2> QED BY <1>3, <2>1, HoldsNothing DEF Calling
  <1>4. CASE ReadContext(r) \/ LockCandidate(r) \/ Insert(r) \/ ListSource(r)
    BY <1>2, <1>3, <1>4 DEF ReadContext, LockCandidate, Insert, ListSource
  <1>5. CASE ReadActive(r) /\ ~End(r)
    <2> DEFINE saw == IF Active = 0 THEN NoIntent ELSE intents[Active]
               hash == IF req[r].again THEN source ELSE req[r].hash
    <2>1. /\ Step(r, [pc |-> "write", intent |-> Active, saw |-> saw, hash |-> hash])
          /\ At(r, {"create"}, "active")
          /\ Active # 0 => Take(r, Active)
          /\ UNCHANGED intents
      BY <1>5 DEF ReadActive, rows
    <2> HIDE DEF hash
    <2>2. /\ req'[r].pc = "write" /\ req'[r].intent = Active /\ req'[r].saw = saw
          /\ req'[r].op = "create"
      BY <2>1, StepFields DEF Fields, At
    <2>3. Active # 0 => Active \in Ids
      BY <1>0, ActiveUnder
    <2>4. Active # 0 => lock'[Active] = r /\ intents'[Active] = saw
      BY <2>1, <2>3, Taken
    <2> HIDE DEF saw
    <2> QED BY <2>2, <2>4 DEF Holds, Picks, Calling
  <1>6. CASE LockIntent(r) /\ ~End(r)
    <2>1. /\ Step(r, [pc |-> "source", saw |-> intents[req[r].intent]])
          /\ At(r, Picks, "start") /\ Take(r, req[r].intent)
          /\ UNCHANGED intents
      BY <1>6 DEF LockIntent, rows, Picks
    <2>2. /\ req'[r].pc = "source" /\ req'[r].intent = req[r].intent
          /\ req'[r].saw = intents[req[r].intent] /\ req'[r].op = req[r].op
      BY <2>1, StepFields DEF Fields
    <2>3. req[r].intent \in Ids
      BY <1>0, <1>1, <2>1 DEF Placed, At
    <2>4. lock'[req[r].intent] = r
      BY <2>1, <2>3, Taken
    <2> QED BY <2>1, <2>2, <2>4 DEF Holds, Calling
  <1>7. CASE LockSource(r)
    <2>1. /\ Step(r, [pc |-> "write", hash |-> source])
          /\ At(r, Picks, "source") /\ Take(r, 0)
          /\ UNCHANGED <<intents, source>>
      BY <1>7 DEF LockSource, rows, Picks
    <2>2. /\ req'[r].pc = "write" /\ req'[r].intent = req[r].intent
          /\ req'[r].saw = req[r].saw /\ req'[r].op = req[r].op /\ req'[r].hash = source
      BY <2>1, StepFields DEF Fields
    <2>3. req[r].intent \in Ids /\ lock[req[r].intent] = r /\ intents[req[r].intent] = req[r].saw
      BY <1>0, <1>1, <2>1 DEF Placed, Holds, At
    <2>4. lock'[req[r].intent] = r /\ lock'[0] = r
      BY <1>0, <2>1, <2>3, Taken
    <2> QED BY <2>1, <2>2, <2>3, <2>4 DEF Holds, Picks, Calling, At
  <1>8. CASE LookUp(r) /\ ~End(r)
    <2>1. Step(r, [pc |-> "write"]) /\ At(r, {"reply"}, "start")
      BY <1>8 DEF LookUp
    <2>2. req'[r].pc = "write" /\ req'[r].op = "reply"
      BY <2>1, StepFields DEF Fields, At
    <2> QED BY <2>2 DEF Holds, Picks, Calling
  <1>9. CASE ListIntents(r) /\ ~End(r)
    <2> DEFINE marks == UNION {Settled(r, i) : i \in ActiveIds}
    <2>1. /\ Step(r, [pc |-> "write", marks |-> marks])
          /\ At(r, {"list"}, "intents") /\ UNCHANGED intents
      BY <1>9 DEF ListIntents, rows
    <2>2. ASSUME NEW k \in marks
          PROVE  /\ k.state = "consumed" => k.command # 0 /\ intents[k.id].key = k.command
                 /\ k.state = "stale" => k.command = 0
      <3>1. PICK i \in ActiveIds : k \in Settled(r, i)
        OBVIOUS
      <3>2. CASE intents[i].key = 0
        BY <3>1, <3>2 DEF Settled
      <3>3. CASE intents[i].key # 0
        <4>1. /\ intents[i].key \in DOMAIN commands
              /\ commands[intents[i].key].key = intents[i].key
          BY <3>1, <3>3 DEF HandoffInv, HandedOver, ActiveIds
        <4>2. CommandOf(intents[i].key) = intents[i].key
          BY <4>1, CommandUnder
        <4> QED BY <3>1, <3>3, <4>2 DEF Settled
      <3> QED BY <3>2, <3>3
    <2> HIDE DEF marks
    <2>3. req'[r].pc = "write" /\ req'[r].op = "list" /\ req'[r].marks = marks
      BY <2>1, StepFields DEF Fields, At
    <2> QED BY <2>1, <2>2, <2>3 DEF Holds, Picks, Calling
  <1>10. CASE req'[r].pc \in Calling
    <2>1. CASE AddsCommand(r)
      <3>1. req'[r].pc = "checks" /\ req'[r].cmd = Len(commands) + 1
        BY <2>1 DEF AddsCommand
      <3>2. CASE At(r, {"send"}, "write")
        <4>1. intents' = [intents EXCEPT ![req[r].intent].key = Len(commands) + 1]
          BY <2>1, <3>2, NewCommand
        <4>2. req[r].intent \in DOMAIN intents /\ intents[req[r].intent] \in Intent
          BY <1>1, <3>2, RowIds DEF Placed, Picks, At
        <4>3. intents'[req[r].intent].key = Len(commands) + 1
          BY <4>1, <4>2 DEF Intent
        <4>4. req'[r].intent = req[r].intent /\ req'[r].op = "send"
          <5>1. Handoff(r)
            BY <2>1, <3>2, HandoffOrReserve
          <5>2. Step(r, [pc |-> "checks", cmd |-> Len(commands) + 1])
            BY <3>1, <5>1, EndFields DEF Handoff, Store, NoRequest
          <5> QED BY <3>2, <5>2, StepFields DEF Fields, At
        <4> QED BY <3>1, <4>3, <4>4 DEF Holds, Picks, Calling
      <3>3. CASE At(r, {"reply"}, "write")
        <4>1. Reserve(r)
          BY <2>1, <3>3, HandoffOrReserve
        <4>2. Step(r, [pc |-> "checks", cmd |-> Len(commands) + 1])
          BY <3>1, <4>1, EndFields DEF Reserve, Store, NoRequest
        <4>3. req'[r].op = "reply"
          BY <3>3, <4>2, StepFields DEF Fields, At
        <4> QED BY <3>1, <4>3 DEF Holds, Picks
      <3> QED BY <2>1, <3>2, <3>3 DEF AddsCommand, Issues
    <2>2. CASE ~AddsCommand(r)
      <3>1. /\ req[r].pc \in Calling /\ req'[r].cmd = req[r].cmd
            /\ req'[r].op = req[r].op /\ req'[r].intent = req[r].intent
        BY <1>10, <2>2, CommandMemory
      <3>2. ASSUME req[r].op = "send" PROVE intents'[req[r].intent].key = req[r].cmd
        <4>1. req[r].intent \in DOMAIN intents /\ req[r].cmd \in DOMAIN commands
          BY <1>1, <3>1, <3>2 DEF Placed, Picks, Calling
        <4>2. intents[req[r].intent].key = req[r].cmd /\ req[r].cmd # 0
          BY <1>0, <1>1, <3>1, <3>2, <4>1 DEF Holds
        <4> QED BY <1>1, <4>1, <4>2 DEF Drafts, Proper
      <3> QED BY <1>10, <3>1, <3>2 DEF Holds, Picks, Calling
    <2> QED BY <2>1, <2>2
  <1>11. CASE Handoff(r) \/ Reserve(r) \/ ChecksFail(r) \/ StartDispatch(r) \/ SendMessage(r)
              \/ MarkOutcome(r)
    <2> SUFFICES ASSUME ~End(r) PROVE req'[r].pc \in Calling
      BY <1>2, <1>10
    <2>1. ASSUME NEW changes, Step(r, changes), "pc" \in DOMAIN changes,
                 changes["pc"] \in Calling
          PROVE  req'[r].pc \in Calling
      BY <2>1, StepFields DEF Fields
    <2>2. CASE Handoff(r) \/ Reserve(r)
      BY <2>1, <2>2 DEF Handoff, Reserve, Store, Calling
    <2>3. CASE ChecksFail(r) \/ StartDispatch(r) \/ MarkOutcome(r)
      BY <2>1, <2>3 DEF ChecksFail, StartDispatch, MarkOutcome, Answered, Calling
    <2>4. CASE SendMessage(r)
      BY <2>1, <2>4 DEF SendMessage, Calling
    <2> QED BY <1>11, <2>2, <2>3, <2>4
  <1> QED BY <1>2, <1>4, <1>5, <1>6, <1>7, <1>8, <1>9, <1>11
          DEF Serve, Rewrite, WriteStale, WriteEdit, WriteDismissal, SentBefore, Consume,
              ListWrite, AbortDeadlock

\* Every step keeps drafts and commands together.
LEMMA HandoffStep ==
  ASSUME TypeInv, locking => HandoffInv, [Next]_vars
  PROVE  (locking => HandoffInv)'
  <1> USE DEF TypeInv
  <1> SUFFICES ASSUME locking, HandoffInv PROVE HandoffInv'
    BY CountersTyped
  <1>0. DOMAIN intents \subseteq Ids /\ 0 \in Ids
    BY RowIds, ChannelDMReplyAssumption DEF Ids
  <1>1. ASSUME NEW r \in Requests, Serve(r) PROVE HandoffInv'
    <2>1. ASSUME NEW q \in Requests PROVE Holds(q)'
      BY <1>1, HoldsOwn, HoldsOthers
    <2>2. /\ \A i \in DOMAIN intents' :
               IF intents'[i].key = 0
               THEN intents'[i].command = 0 /\ intents'[i].state # "consumed"
               ELSE HandedOver(i)'
          /\ \A c \in DOMAIN commands' :
               commands'[c].of # 0 =>
                  commands'[c].of \in DOMAIN intents' /\ intents'[commands'[c].of].key = c
      BY <1>1, HandedStep
    <2> QED BY <2>1, <2>2 DEF HandoffInv
  <1>2. ASSUME NEW r \in Requests, Begin(r) \/ Die(r) PROVE HandoffInv'
    <2>1. UNCHANGED <<intents, commands, source>>
      BY <1>2 DEF Begin, Die, rows
    <2>2. req'[r].pc \notin Calling \cup {"source", "write"}
      <3>1. CASE End(r)
        BY <3>1, EndFields DEF NoRequest, Calling
      <3>2. ASSUME NEW changes, Step(r, changes), "pc" \in DOMAIN changes,
                   changes["pc"] = "start"
            PROVE  req'[r].pc \notin Calling \cup {"source", "write"}
        BY <3>2, StepFields DEF Fields, Calling
      <3> QED BY <1>2, <3>1, <3>2 DEF Begin, Die
    <2>3. ASSUME NEW q \in Requests PROVE Holds(q)'
      <3>1. CASE q = r
        BY <2>2, <3>1, HoldsNothing
      <3>2. CASE q # r
        <4>1. req'[q] = req[q]
          BY <1>2, <3>2, OthersKeep
        <4>2. \A i \in Ids : lock[i] = q => lock'[i] = q
          BY <1>2, <3>2, LocksKeep
        <4>3. Placed(q) /\ Holds(q)
          BY DEF HandoffInv
        <4> QED BY <1>0, <2>1, <4>1, <4>2, <4>3 DEF Holds, Placed
      <3> QED BY <3>1, <3>2
    <2> QED BY <2>1, <2>3 DEF HandoffInv, HandedOver
  <1>3. CASE EditMessage
    <2>1. UNCHANGED <<intents, commands, lock, req>> /\ lock[0] = "free"
      BY <1>3 DEF EditMessage, rows
    <2>2. ASSUME NEW q \in Requests PROVE Holds(q)'
      <3>1. Holds(q) /\ q # "free"
        BY ChannelDMReplyAssumption DEF HandoffInv
      <3> QED BY <2>1, <3>1 DEF Holds
    <2> QED BY <2>1, <2>2 DEF HandoffInv, HandedOver
  <1>4. CASE Reroute \/ UNCHANGED vars
    <2>1. UNCHANGED <<intents, commands, lock, req, source>>
      BY <1>4 DEF Reroute, vars, rows
    <2> QED BY <2>1 DEF HandoffInv, HandedOver, Holds
  <1> QED BY <1>1, <1>2, <1>3, <1>4 DEF Next

\* HandoffInv is an invariant where rows are locked.
LEMMA HandoffInvCorrect == Spec => [](locking => HandoffInv)
  <1>1. Init => (locking => HandoffInv)
    <2> SUFFICES ASSUME Init PROVE HandoffInv
      OBVIOUS
    <2>1. DOMAIN commands = {} /\ DOMAIN intents = {}
      BY EmptySeq, LenProperties DEF Init
    <2> QED BY <2>1 DEF Init, HandoffInv, Holds, NoRequest, Calling
  <1>2. TypeInv /\ (locking => HandoffInv) /\ [Next]_vars => (locking => HandoffInv)'
    BY HandoffStep
  <1> QED BY <1>1, <1>2, TypeInvCorrect, PTL DEF Spec

-----------------------------------------------------------------------------
(* The theorems. *)

\* No reply is sent twice: for any number of requests that retry a key, find a command
\* pending or send the same draft, send_message is called at most once for a command, a
\* command called sent or failed tells the truth, and where rows are locked a draft has one
\* command (ChannelDMReplyService.execute, ChannelDMReplyIntentService.send).
THEOREM CalledOnce == Spec => []AtMostOneCall
  <1>1. TypeInv /\ CallInv /\ (locking => HandoffInv) => AtMostOneCall
    <2> SUFFICES ASSUME TypeInv, CallInv, locking => HandoffInv PROVE AtMostOneCall
      OBVIOUS
    <2>0. /\ DOMAIN commands = 1..Len(commands) /\ DOMAIN calls = 1..Len(commands)
          /\ DOMAIN intents = 1..Len(intents)
      BY RowIds DEF TypeInv
    <2>1. ASSUME NEW c \in DOMAIN commands
          PROVE  /\ calls[c] <= IF commands[c].started THEN 1 ELSE 0
                 /\ commands[c].state = "sent" => posted[c] = 1
                 /\ commands[c].state = "failed" => posted[c] = 0
      BY <2>0 DEF CallInv, Tells
    <2>2. ASSUME locking, NEW i \in DOMAIN intents
          PROVE  Cardinality({c \in DOMAIN commands : commands[c].of = i}) <= 1
      <3> DEFINE S == {c \in DOMAIN commands : commands[c].of = i}
      <3>1. S \subseteq {intents[i].key}
        BY <2>0, <2>2 DEF HandoffInv
      <3>2. IsFiniteSet({intents[i].key}) /\ Cardinality({intents[i].key}) = 1
        BY FS_Singleton
      <3> QED BY <3>1, <3>2, FS_Subset
    <2> QED BY <2>1, <2>2 DEF AtMostOneCall
  <1> QED BY <1>1, TypeInvCorrect, CallInvCorrect, HandoffInvCorrect, PTL

\* Where rows are locked, what Telegram is asked to send for a draft is what the draft still
\* says, and it was handed over while it was under review and the message was the one it
\* answers, whatever edits, lists, dismissals and deaths come between
\* (ChannelDMReplyIntentService.send, edit, read_many, _lock_current_source).
THEOREM SentAsReviewedCorrect == Spec => SentAsReviewed
  <1> DEFINE Says == locking => \A i \in DOMAIN intents :
                         intents[i].key # 0 =>
                            /\ Bound(intents[i], CommandOf(intents[i].key))
                            /\ intents[i].command \in {0, CommandOf(intents[i].key)}
             Reviewed == locking /\ Len(commands') > Len(commands) =>
                           LET i == Last(commands').of
                           IN  i # 0 => intents[i].state = "pending_review"
                                        /\ intents[i].hash = source
  <1>1. TypeInv /\ (locking => HandoffInv) => Says
    <2> SUFFICES ASSUME TypeInv, HandoffInv, NEW i \in DOMAIN intents, intents[i].key # 0
                 PROVE  /\ Bound(intents[i], CommandOf(intents[i].key))
                        /\ intents[i].command \in {0, CommandOf(intents[i].key)}
      OBVIOUS
    <2>1. HandedOver(i)
      BY DEF HandoffInv
    <2>2. CommandOf(intents[i].key) = intents[i].key
      BY <2>1, CommandUnder DEF HandedOver, TypeInv
    <2> QED BY <2>1, <2>2 DEF HandedOver, Bound
  <1>2. TypeInv /\ (locking => HandoffInv) /\ [Next]_vars => [Reviewed]_vars
    <2> SUFFICES ASSUME TypeInv, HandoffInv, [Next]_vars, locking,
                        Len(commands') > Len(commands), Last(commands').of # 0
                 PROVE  LET i == Last(commands').of
                        IN  intents[i].state = "pending_review" /\ intents[i].hash = source
      OBVIOUS
    <2>0. Len(commands) \in Nat
      BY RowIds DEF TypeInv
    <2>1. ~UNCHANGED commands
      BY <2>0
    <2>2. PICK r \in Requests : Serve(r)
      BY <2>1 DEF Next, Begin, Die, EditMessage, Reroute, vars, rows
    <2>3. AddsCommand(r)
      BY <2>0, <2>2, CommandStep DEF Settles
    <2>4. /\ Len(commands') = Len(commands) + 1
          /\ Issues(r, commands'[Len(commands) + 1])
          /\ At(r, {"send"}, "write") => req[r].saw.key = 0 /\ ~Outdated(r)
      BY <2>2, <2>3, NewCommand
    <2>5. Last(commands') = commands'[Len(commands) + 1]
      BY <2>4 DEF Last
    <2>6. At(r, {"send"}, "write") /\ Last(commands').of = req[r].intent
      BY <2>4, <2>5 DEF Issues, Pending
    <2>7. /\ req[r].intent \in DOMAIN intents /\ intents[req[r].intent] = req[r].saw
          /\ req[r].hash = source /\ Reviewable("send", req[r].saw)
      BY <2>6 DEF TypeInv, Placed, HandoffInv, Holds, At, Picks
    <2>8. intents[req[r].intent].state # "consumed"
      BY <2>4, <2>6, <2>7 DEF HandoffInv
    <2> QED BY <2>4, <2>6, <2>7, <2>8 DEF Reviewable, Outdated
  <1>3. Spec => []Says
    BY <1>1, TypeInvCorrect, HandoffInvCorrect, PTL
  <1>4. Spec => [][Reviewed]_vars
    BY <1>2, TypeInvCorrect, HandoffInvCorrect, PTL DEF Spec
  <1> QED BY <1>3, <1>4 DEF SentAsReviewed
=============================================================================
