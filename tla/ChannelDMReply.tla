----------------------------- MODULE ChannelDMReply -----------------------------
(***************************************************************************)
(* Replies to a message a subscriber sent to the channel                   *)
(* (src/app/services/channel_dm_reply_intents.py, channel_dm_replies.py).  *)
(*                                                                         *)
(* Requests of one owner about one candidate overlap: they draft a reply,  *)
(* edit, dismiss or send it, list the drafts, or reply directly under an   *)
(* idempotency key of their own.  A draft (intent) is bound to the text it *)
(* answers, which the subscriber may edit meanwhile.  A sent draft becomes *)
(* a command; the request that stored it asks Telegram, once.              *)
(*                                                                         *)
(* On PostgreSQL the rows are locked as they are read; on SQLite, the      *)
(* default, nothing is, and what was read is written back by primary key.  *)
(***************************************************************************)
EXTENDS Integers, SequencesExt, FiniteSetsExt

CONSTANTS
    Requests,    \* requests that may be under way at once
    RowLocks,    \* the databases: TRUE one that locks rows, FALSE SQLite
    Texts,       \* reply texts
    ClientKeys,  \* idempotency keys of direct replies
    MaxRequests, \* bound: requests in all
    MaxSource,   \* bound: versions of the subscriber's message
    MaxFaults    \* bound: deaths of a request

ASSUME ChannelDMReplyAssumption ==
    /\ RowLocks \subseteq BOOLEAN
    /\ "free" \notin Requests
    /\ ClientKeys \cap (0..MaxRequests) = {}  \* the key of a handoff is drawn anew
    /\ MaxRequests \in Nat /\ MaxSource \in Nat \ {0} /\ MaxFaults \in Nat

VARIABLES
    locking,  \* rows are locked: the database at hand
    source,   \* SourceDocument.content_hash: the version of the message
    trusted,  \* the connector, its channel and the stored identity agree
    intents,  \* ChannelDMReplyIntent rows, by id
    commands, \* ChannelDMReplyCommand rows, by id
    lock,     \* who holds candidate and document (0) or an intent
    req,      \* the requests under way
    asked,    \* requests so far
    calls,    \* send_message calls, by command
    posted,   \* replies the subscriber got, by command
    faults    \* deaths so far

rows == <<intents, commands>>
telegram == <<calls, posted>>
vars == <<locking, source, trusted, rows, lock, req, asked, telegram, faults>>

Ops == {"create", "edit", "dismiss", "send", "reply", "list"}
NoIntent == [text |-> 0, hash |-> 0, state |-> "none", key |-> 0, command |-> 0]
NoRequest == [op |-> "none", pc |-> "idle", intent |-> 0, text |-> 0, key |-> 0,
              hash |-> 0, saw |-> NoIntent, again |-> FALSE, marks |-> {},
              cmd |-> 0, outcome |-> "none"]

\* Ids are given in order; no more intents or commands than requests.
Ids == 0..MaxRequests

Init ==
    /\ locking \in RowLocks
    /\ source = 1
    /\ trusted = TRUE
    /\ intents = <<>> /\ commands = <<>>
    /\ lock = [i \in Ids |-> "free"]
    /\ req = [r \in Requests |-> NoRequest]
    /\ asked = 0
    /\ calls = <<>> /\ posted = <<>>
    /\ faults = 0

-----------------------------------------------------------------------------
(* Rows and locks. *)

Free(r, i) == ~locking \/ lock[i] \in {"free", r}

Take(r, i) == lock' = IF locking THEN [lock EXCEPT ![i] = r] ELSE lock

\* Faulty variant: a session outlives its request.
StillLocked(r) == lock

Unlocked(r) == [i \in Ids |-> IF lock[i] = r THEN "free" ELSE lock[i]]

\* The session of the request ends: its locks go with it.
End(r) ==
    /\ req' = [req EXCEPT ![r] = NoRequest]
    /\ lock' = Unlocked(r)

\* The request goes on with changes to some fields of its memory.
Step(r, changes) ==
    req' = [req EXCEPT ![r] =
              [f \in DOMAIN @ |-> IF f \in DOMAIN changes THEN changes[f] ELSE @[f]]]

At(r, op, pc) == req[r].op \in op /\ req[r].pc = pc

\* The unique slot: one intent under review.
ActiveIds == {i \in DOMAIN intents : intents[i].state = "pending_review"}
Active == IF ActiveIds = {} THEN 0 ELSE Min(ActiveIds)

CommandOf(key) == SelectInSeq(commands, LAMBDA c : c.key = key)

\* _assert_command_binding
Bound(intent, c) == c # 0 /\ commands[c].text = intent.text

MarkStale(i) == [intents EXCEPT ![i].state = "stale"]
MarkConsumed(i, c) == [intents EXCEPT ![i].state = "consumed", ![i].command = c]

-----------------------------------------------------------------------------
(* A request arrives. *)

Begin(r) ==
    /\ req[r].pc = "idle" /\ asked < MaxRequests
    /\ \E op \in Ops, i \in DOMAIN intents \cup {0}, text \in Texts, key \in ClientKeys :
          /\ (i # 0) = (op \in {"edit", "dismiss", "send"})
          /\ Step(r, [op |-> op, pc |-> "start", intent |-> i,
                      text |-> IF op \in {"create", "edit", "reply"} THEN text ELSE 0,
                      key |-> IF op = "reply" THEN key ELSE 0])
    /\ asked' = asked + 1
    /\ UNCHANGED <<locking, source, trusted, rows, lock, telegram, faults>>

-----------------------------------------------------------------------------
(* create_manual, create_ai: a draft for the version of the message that was read. *)

\* load_context; an AI draft is then generated, or not.
ReadContext(r) ==
    /\ At(r, {"create"}, "start")
    /\ \/ trusted /\ Step(r, [pc |-> "lock", hash |-> source]) /\ UNCHANGED lock
       \/ End(r)
    /\ UNCHANGED <<locking, source, trusted, rows, asked, telegram, faults>>

\* The message must not have changed since.
LockCandidate(r) ==
    /\ At(r, {"create"}, "lock") /\ Free(r, 0)
    /\ IF source = req[r].hash
         THEN Step(r, [pc |-> "active"]) /\ Take(r, 0)
         ELSE End(r)
    /\ UNCHANGED <<locking, source, trusted, rows, asked, telegram, faults>>

\* The draft under review, which a handoff protects; after a lost insert the winner must
\* answer the same version.
ReadActive(r) ==
    /\ At(r, {"create"}, "active") /\ Free(r, Active)
    /\ LET saw == IF Active = 0 THEN NoIntent ELSE intents[Active]
       IN  IF \/ saw.key # 0
              \/ req[r].again /\ saw.hash # source
             THEN End(r)
             ELSE Step(r, [pc |-> "write", intent |-> Active, saw |-> saw,
                              hash |-> IF req[r].again THEN source ELSE req[r].hash])
                  /\ (IF Active = 0 THEN UNCHANGED lock ELSE Take(r, Active))
    /\ UNCHANGED <<locking, source, trusted, rows, asked, telegram, faults>>

Draft(r) == [text |-> req[r].text, hash |-> req[r].hash, state |-> "pending_review",
             key |-> 0, command |-> 0]

\* The draft under review takes the new text.
Rewrite(r) ==
    /\ At(r, {"create"}, "write") /\ req[r].saw.hash = req[r].hash
    /\ intents' = [intents EXCEPT ![req[r].intent].text = req[r].text]
    /\ End(r)
    /\ UNCHANGED <<locking, source, trusted, commands, asked, telegram, faults>>

\* Faulty variant: the slot is not unique.
InsertAnyway(r) ==
    /\ At(r, {"create"}, "write") /\ req[r].saw.hash # req[r].hash
    /\ intents' = Append(IF req[r].intent = 0 THEN intents ELSE MarkStale(req[r].intent), Draft(r))
    /\ End(r)
    /\ UNCHANGED <<locking, source, trusted, commands, asked, telegram, faults>>

\* A new draft, the old one stale; the unique slot may be taken meanwhile.
Insert(r) ==
    /\ At(r, {"create"}, "write") /\ req[r].saw.hash # req[r].hash
    /\ IF ActiveIds \subseteq {req[r].intent}
         THEN /\ intents' = Append(IF req[r].intent = 0 THEN intents ELSE MarkStale(req[r].intent),
                                   Draft(r))
              /\ End(r)
         ELSE /\ ~req[r].again
              /\ Step(r, [pc |-> "active", again |-> TRUE, intent |-> 0, saw |-> NoIntent])
              /\ UNCHANGED <<intents, lock>>
    /\ UNCHANGED <<locking, source, trusted, commands, asked, telegram, faults>>

-----------------------------------------------------------------------------
(* edit, dismiss, send: the intent is read, then the message. *)

\* Faulty variant: a handoff does not protect the draft.
ReviewableAnyway(op, intent) ==
    \/ op = "send" /\ intent.state \in {"pending_review", "consumed"}
    \/ op # "send" /\ intent.state = "pending_review"

Reviewable(op, intent) ==
    \/ op = "send" /\ intent.state \in {"pending_review", "consumed"}
    \/ op # "send" /\ intent.state = "pending_review" /\ intent.key = 0

LockIntent(r) ==
    /\ At(r, {"edit", "dismiss", "send"}, "start") /\ Free(r, req[r].intent)
    /\ IF Reviewable(req[r].op, intents[req[r].intent])
         THEN /\ Step(r, [pc |-> "source", saw |-> intents[req[r].intent]])
              /\ Take(r, req[r].intent)
         ELSE End(r)
    /\ UNCHANGED <<locking, source, trusted, rows, asked, telegram, faults>>

LockSource(r) ==
    /\ At(r, {"edit", "dismiss", "send"}, "source") /\ Free(r, 0)
    /\ Step(r, [pc |-> "write", hash |-> source])
    /\ Take(r, 0)
    /\ UNCHANGED <<locking, source, trusted, rows, asked, telegram, faults>>

\* Faulty variant: the message may have changed.
NeverOutdated(r) == FALSE

\* The draft answers a version that is no longer there.
Outdated(r) == req[r].saw.hash # req[r].hash

WriteStale(r) ==
    /\ At(r, {"edit", "dismiss", "send"}, "write")
    /\ req[r].saw.state = "pending_review" /\ req[r].saw.key = 0 /\ Outdated(r)
    /\ intents' = MarkStale(req[r].intent)
    /\ End(r)
    /\ UNCHANGED <<locking, source, trusted, commands, asked, telegram, faults>>

WriteEdit(r) ==
    /\ At(r, {"edit"}, "write") /\ ~Outdated(r)
    /\ intents' = [intents EXCEPT ![req[r].intent].text = req[r].text]
    /\ End(r)
    /\ UNCHANGED <<locking, source, trusted, commands, asked, telegram, faults>>

WriteDismissal(r) ==
    /\ At(r, {"dismiss"}, "write") /\ ~Outdated(r)
    /\ intents' = [intents EXCEPT ![req[r].intent].state = "dismissed"]
    /\ End(r)
    /\ UNCHANGED <<locking, source, trusted, commands, asked, telegram, faults>>

\* Sent before: the command is linked, if it is not yet, and shown.
SentBefore(r) ==
    /\ At(r, {"send"}, "write") /\ req[r].saw.key # 0
    /\ LET c == CommandOf(req[r].saw.key)
       IN  intents' = IF req[r].saw.state = "pending_review" /\ Bound(req[r].saw, c)
                        THEN MarkConsumed(req[r].intent, c)
                        ELSE intents
    /\ End(r)
    /\ UNCHANGED <<locking, source, trusted, commands, asked, telegram, faults>>

\* What a request stores before it may ask Telegram; of is the intent (0: none).
Pending(key, text, of) == [key |-> key, text |-> text, state |-> "pending",
                           started |-> FALSE, of |-> of]

Store(r, command) ==
    /\ commands' = Append(commands, command)
    /\ calls' = Append(calls, 0) /\ posted' = Append(posted, 0)
    /\ Step(r, [pc |-> "checks", cmd |-> Len(commands) + 1])
    /\ lock' = Unlocked(r)

\* The handoff: a new key in the intent, and the command under it, in one transaction.
Handoff(r) ==
    /\ At(r, {"send"}, "write") /\ req[r].saw.key = 0 /\ ~Outdated(r)
    /\ \/ /\ trusted
          /\ intents' = [intents EXCEPT ![req[r].intent].key = Len(commands) + 1]
          /\ Store(r, Pending(Len(commands) + 1, req[r].saw.text, req[r].intent))
       \/ /\ ~trusted
          /\ End(r)
          /\ UNCHANGED <<rows, telegram>>
    /\ UNCHANGED <<locking, source, trusted, asked, faults>>

-----------------------------------------------------------------------------
(* ChannelDMReplyService.execute. *)

\* A direct reply: a command under the key is the answer, whatever became of it.
LookUp(r) ==
    /\ At(r, {"reply"}, "start") /\ Free(r, 0)
    /\ IF CommandOf(req[r].key) # 0 \/ ~trusted
         THEN End(r)
         ELSE Step(r, [pc |-> "write"]) /\ Take(r, 0)
    /\ UNCHANGED <<locking, source, trusted, rows, asked, telegram, faults>>

\* Faulty variant: whoever finds the command pending goes on with it.
ReserveOrResume(r) ==
    /\ At(r, {"reply"}, "write")
    /\ IF CommandOf(req[r].key) = 0
         THEN Store(r, Pending(req[r].key, req[r].text, 0))
         ELSE /\ Step(r, [pc |-> "call", cmd |-> CommandOf(req[r].key)])
              /\ lock' = Unlocked(r)
              /\ UNCHANGED <<commands, telegram>>
    /\ UNCHANGED <<locking, source, trusted, intents, asked, faults>>

\* The key is unique: of two requests one stores the command, the other gets it.
Reserve(r) ==
    /\ At(r, {"reply"}, "write")
    /\ IF CommandOf(req[r].key) = 0
         THEN Store(r, Pending(req[r].key, req[r].text, 0))
         ELSE End(r) /\ UNCHANGED <<commands, telegram>>
    /\ UNCHANGED <<locking, source, trusted, intents, asked, faults>>

\* What follows the command: send links it to its intent.
Answered(r) ==
    IF req[r].op = "send"
      THEN Step(r, [pc |-> "consume"]) /\ UNCHANGED lock
      ELSE End(r)

\* _mark_terminal
Terminal(c, state) ==
    commands' = IF commands[c].state = "pending" THEN [commands EXCEPT ![c].state = state]
                                                 ELSE commands

\* Routing and rights, read from Telegram, forbid it.
ChecksFail(r) ==
    /\ req[r].pc = "checks"
    /\ Terminal(req[r].cmd, "failed")
    /\ Answered(r)
    /\ UNCHANGED <<locking, source, trusted, intents, asked, telegram, faults>>

\* Only the first to start a command goes on.
StartDispatch(r) ==
    /\ req[r].pc = "checks"
    /\ LET c == req[r].cmd
       IN  IF commands[c].state = "pending" /\ ~commands[c].started
             THEN /\ commands' = [commands EXCEPT ![c].started = TRUE]
                  /\ Step(r, [pc |-> "call"]) /\ UNCHANGED lock
             ELSE Answered(r) /\ UNCHANGED commands
    /\ UNCHANGED <<locking, source, trusted, intents, asked, telegram, faults>>

\* A refusal is definite; after any other error the reply may be there.
Outcomes == {"sent", "failed", "uncertain"}

SendMessage(r) ==
    /\ req[r].pc = "call"
    /\ \E outcome \in Outcomes, got \in {0, 1} :
          /\ outcome = "sent" => got = 1
          /\ outcome = "failed" => got = 0
          /\ posted' = [posted EXCEPT ![req[r].cmd] = @ + got]
          /\ Step(r, [pc |-> "mark", outcome |-> outcome])
    /\ calls' = [calls EXCEPT ![req[r].cmd] = @ + 1]
    /\ UNCHANGED <<locking, source, trusted, rows, lock, asked, faults>>

MarkOutcome(r) ==
    /\ req[r].pc = "mark"
    /\ Terminal(req[r].cmd, req[r].outcome)
    /\ Answered(r)
    /\ UNCHANGED <<locking, source, trusted, intents, asked, telegram, faults>>

\* The row is locked again, but the session still shows the intent as it was stored.
Consume(r) ==
    /\ req[r].pc = "consume" /\ Free(r, req[r].intent)
    /\ intents' = MarkConsumed(req[r].intent, req[r].cmd)
    /\ End(r)
    /\ UNCHANGED <<locking, source, trusted, commands, asked, telegram, faults>>

-----------------------------------------------------------------------------
(* read_many: drafts are listed, and what their rows leave open is settled. *)

ListSource(r) ==
    /\ At(r, {"list"}, "start")
    /\ Step(r, [pc |-> "intents", hash |-> source])
    /\ UNCHANGED <<locking, source, trusted, rows, lock, asked, telegram, faults>>

\* Handed over: consumed by its command.  Not handed over, of another version: stale.
Settled(r, i) ==
    IF intents[i].key # 0
      THEN {[id |-> i, state |-> "consumed", command |-> CommandOf(intents[i].key)]}
      ELSE IF intents[i].hash # req[r].hash
             THEN {[id |-> i, state |-> "stale", command |-> 0]}
             ELSE {}

\* An intent that disagrees with its command fails the whole list.
ListIntents(r) ==
    /\ At(r, {"list"}, "intents")
    /\ LET marks == UNION {Settled(r, i) : i \in ActiveIds}
       IN  IF \/ marks = {}
              \/ \E m \in marks : m.state = "consumed" /\ ~Bound(intents[m.id], m.command)
             THEN End(r)
             ELSE Step(r, [pc |-> "write", marks |-> marks]) /\ UNCHANGED lock
    /\ UNCHANGED <<locking, source, trusted, rows, asked, telegram, faults>>

\* By primary key, whatever the intents have become.
ListWrite(r) ==
    /\ At(r, {"list"}, "write")
    /\ \A m \in req[r].marks : Free(r, m.id)
    /\ intents' = [i \in DOMAIN intents |->
                     IF \E m \in req[r].marks : m.id = i
                       THEN LET m == CHOOSE m \in req[r].marks : m.id = i
                            IN  [intents[i] EXCEPT !.state = m.state,
                                     !.command = IF m.command = 0 THEN @ ELSE m.command]
                       ELSE intents[i]]
    /\ End(r)
    /\ UNCHANGED <<locking, source, trusted, commands, asked, telegram, faults>>

-----------------------------------------------------------------------------
(* The world around. *)

\* The subscriber edits the message (telegram_channel_dms.py, source_reconciliation.py).
EditMessage ==
    /\ source < MaxSource
    /\ ~locking \/ lock[0] = "free"
    /\ source' = source + 1
    /\ UNCHANGED <<locking, trusted, rows, lock, req, asked, telegram, faults>>

\* The connector is disabled or enabled, the channel moved.
Reroute ==
    /\ trusted' = ~trusted
    /\ UNCHANGED <<locking, source, rows, lock, req, asked, telegram, faults>>

\* The request is gone with its process or its connection.
Die(r) ==
    /\ req[r].pc # "idle" /\ faults < MaxFaults
    /\ faults' = faults + 1
    /\ End(r)
    /\ UNCHANGED <<locking, source, trusted, rows, asked, telegram>>

\* The row a request needs next (-1: none).
Wanted(r) ==
    CASE At(r, {"create"}, "lock") \/ req[r].pc = "source" \/ At(r, {"reply"}, "start") -> 0
      [] req[r].pc = "active" /\ Active # 0 -> Active
      [] At(r, {"edit", "dismiss", "send"}, "start") \/ req[r].pc = "consume" -> req[r].intent
      [] OTHER -> -1

WaitsFor(r, q) == r # q /\ Wanted(r) # -1 /\ lock[Wanted(r)] = q

\* Drafting locks the candidate first, sending the intent: the database ends a deadlock.
AbortDeadlock(r) ==
    /\ \E q \in Requests : WaitsFor(r, q) /\ WaitsFor(q, r)
    /\ End(r)
    /\ UNCHANGED <<locking, source, trusted, rows, asked, telegram, faults>>

Serve(r) ==
    \/ ReadContext(r) \/ LockCandidate(r) \/ ReadActive(r) \/ Rewrite(r) \/ Insert(r)
    \/ LockIntent(r) \/ LockSource(r) \/ WriteStale(r) \/ WriteEdit(r) \/ WriteDismissal(r)
    \/ SentBefore(r) \/ Handoff(r) \/ LookUp(r) \/ Reserve(r)
    \/ ChecksFail(r) \/ StartDispatch(r) \/ SendMessage(r) \/ MarkOutcome(r) \/ Consume(r)
    \/ ListSource(r) \/ ListIntents(r) \/ ListWrite(r)
    \/ AbortDeadlock(r)

Next ==
    \/ \E r \in Requests : Begin(r) \/ Serve(r) \/ Die(r)
    \/ EditMessage \/ Reroute

Spec == Init /\ [][Next]_vars

\* A request that runs goes on, and the database ends deadlocks.
FairSpec == Spec /\ \A r \in Requests : WF_vars(Serve(r))

-----------------------------------------------------------------------------
(* Properties. *)

Intent == [text : Texts, hash : 1..MaxSource, key : Ids, command : Ids,
           state : {"pending_review", "consumed", "stale", "dismissed"}]
Command == [key : ClientKeys \cup Ids, text : Texts, started : BOOLEAN, of : Ids,
            state : {"pending", "sent", "failed", "uncertain"}]

\* Every variable has its type, and one draft at most is under review.
TypeOK ==
    /\ locking \in RowLocks /\ trusted \in BOOLEAN
    /\ source \in 1..MaxSource
    /\ intents \in Seq(Intent) /\ commands \in Seq(Command)
    /\ lock \in [Ids -> Requests \cup {"free"}]
    /\ \A r \in Requests : req[r].op \in Ops \cup {"none"} /\ req[r].intent \in Ids
    /\ asked \in 0..MaxRequests /\ faults \in 0..MaxFaults
    /\ Cardinality(ActiveIds) <= 1

\* No reply is sent twice: whoever retries the key or finds the command pending, uncertain
\* or half done, Telegram is asked once for a command (ChannelDMReplyService: any existing
\* row is a no-resend evidence barrier), where rows are locked a draft has one command
\* however many tabs send it, and a command called sent or failed tells the truth.
AtMostOneCall ==
    /\ \A c \in DOMAIN commands :
          /\ calls[c] <= IF commands[c].started THEN 1 ELSE 0
          /\ commands[c].state = "sent" => posted[c] = 1
          /\ commands[c].state = "failed" => posted[c] = 0
    /\ locking => \A i \in DOMAIN intents :
                      Cardinality({c \in DOMAIN commands : commands[c].of = i}) <= 1

\* Where rows are locked, what was sent for a draft is what the draft still says, and it was
\* handed over while it was under review and the message was the one it answers: no edit,
\* draft or list slips in between (send, edit, _upsert_current, _lock_current_source).
SentAsReviewed ==
    /\ [](locking => \A i \in DOMAIN intents :
                         intents[i].key # 0 =>
                            /\ Bound(intents[i], CommandOf(intents[i].key))
                            /\ intents[i].command \in {0, CommandOf(intents[i].key)})
    /\ [][locking /\ Len(commands') > Len(commands) =>
             LET i == Last(commands').of
             IN  i # 0 => intents[i].state = "pending_review" /\ intents[i].hash = source]_vars

\* Every request that does not die is answered, though drafting and sending lock their
\* rows in opposite orders.
RequestsEnd == \A r \in Requests : req[r].pc # "idle" ~> req[r].pc = "idle"

================================================================================
