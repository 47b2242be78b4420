---------------------------- MODULE CandidateInbox -----------------------------
(***************************************************************************)
(* One candidate of the Sources Inbox: it is enriched and rewritten by     *)
(* language models, edited, dismissed, restored and accepted as a draft    *)
(* (src/app/services/candidate_*.py), while polls of its source store new  *)
(* texts (source_reconciliation.py) and old runs are removed               *)
(* (ai_run_retention.py).                                                  *)
(*                                                                         *)
(* The database has row locks.  Enrichment, rewriting and Apply lock the   *)
(* candidate and its document, a draft locks the candidate; steps are the  *)
(* transactions, and a draft and a poll, which hold less than all they     *)
(* read, are two steps each.  A run is its input and its fate; what a      *)
(* model says is left out.                                                 *)
(***************************************************************************)
EXTENDS Integers, SequencesExt, FiniteSetsExt

CONSTANTS
    Requests,    \* requests of the Studio that may be under way at once
    Worker,      \* LocalCandidateEnrichmentWorker
    Texts,       \* contents the source may have
    Kinds,       \* what requests ask of the models
    Instructions,  \* operations of an edit, instructions of a prompted rewrite
    KeepRecent,    \* keep_recent
    MaxEvents    \* bound: requests, polls, changes of the policy, deaths, leases outlived

ASSUME CandidateInboxAssumption ==
    /\ Worker \notin Requests
    /\ Texts # {} /\ Kinds \subseteq {"local", "channel_ai", "plain", "structured", "prompted"} /\ KeepRecent \in Nat \ {0}
    /\ 0 \notin Instructions
    /\ MaxEvents \in Nat

VARIABLES
    text,       \* SourceDocument.content
    policy,     \* SourceConnector.reuse_policy
    candidate,  \* ContentCandidate
    runs,       \* CandidateEnrichmentRun and CandidateRewriteRun, in order of creation
    old,        \* the runs up to this one are older than the retention horizon
    drafts,     \* ContentItems made of the candidate
    work,       \* memory of the worker and of the requests
    poll,       \* memory of a poll
    sweep,      \* memory of the retention
    overtaken,  \* history: the candidate was restored while a retention was under way
    events      \* what the bound counts

vars == <<text, policy, candidate, runs, old, drafts, work, poll, sweep, overtaken, events>>

Actors == Requests \cup {Worker}
None == 0
Policies == {"summarize", "rewrite_with_attribution"}
Enrichers == {"local", "channel_ai"}
Rewriters == {"plain", "structured"}
Terminal == {"completed", "failed", "stale", "discarded", "abandoned"}

\* The run an edit starts from, if it is one, and what the editor asks for.
Variant(base, instruction) == [base |-> base, instruction |-> instruction]
NoVariant == Variant(None, None)

NewRun(by, variant, key) ==
    [by |-> by, variant |-> variant, text |-> key.text, policy |-> key.policy,
     status |-> "running", live |-> TRUE]

NoWork == [pc |-> "idle", by |-> "local", run |-> None, expected |-> None, text |-> None]
NoMeta == [policy |-> "summarize", enriched |-> None, rewritten |-> None]
NoPoll == [pc |-> "idle", policy |-> "summarize", meta |-> NoMeta]
NoSweep == [pc |-> "idle", enriched |-> None, rewritten |-> None]

\* The source was polled once.
Init ==
    /\ text = CHOOSE content \in Texts : TRUE
    /\ policy = "rewrite_with_attribution"
    /\ candidate = [status |-> "new", summary |-> None, item |-> None,
                    meta |-> [policy |-> policy, enriched |-> None, rewritten |-> None]]
    /\ runs = <<>> /\ old = 0 /\ drafts = <<>>
    /\ work = [a \in Actors |-> NoWork]
    /\ poll = NoPoll /\ sweep = NoSweep /\ overtaken = FALSE
    /\ events = 0

-----------------------------------------------------------------------------
(* Inputs, runs and pointers. *)

\* The hash of an enrichment has the policy of the candidate, that of a rewrite the
\* connector's.
Key(by) == [text |-> text, policy |-> IF by \in Enrichers THEN candidate.meta.policy ELSE policy]

HasInput(i, by, variant, key) ==
    /\ runs[i].by = by /\ runs[i].variant = variant
    /\ runs[i].text = key.text /\ runs[i].policy = key.policy

Found(by, variant, status) ==
    {i \in DOMAIN runs : runs[i].status = status /\ HasInput(i, by, variant, Key(by))}

\* Faulty variant: a run that nobody leases blocks for ever.
BusyForEver(by, variant) == Found(by, variant, "running") # {}

Busy(by, variant) == \E i \in Found(by, variant, "running") : runs[i].live

\* A run that has ended has no lease.
Ended(i, status) == [runs[i] EXCEPT !.status = status, !.live = FALSE]

\* Expired runs are taken over.
Abandoned(by, variant) ==
    [i \in DOMAIN runs |-> IF i \in Found(by, variant, "running")
                           THEN Ended(i, "abandoned") ELSE runs[i]]

Pointed(i) ==
    IF runs[i].by \in Enrichers
    THEN [candidate EXCEPT !.summary = i, !.meta.enriched = i]
    ELSE [candidate EXCEPT !.meta.rewritten = i]

\* current_candidate_rewrite_run, for a text and a policy that were read.
Current(key) ==
    LET i == candidate.meta.rewritten
    IN  IF i # None /\ runs[i].status = "completed" /\ runs[i].text = key.text /\ runs[i].policy = key.policy
        THEN i ELSE None

\* The structured proposal an editor sees.
Proposal ==
    LET i == Current(Key("structured"))
    IN  IF /\ candidate.status = "new" /\ policy = "rewrite_with_attribution"
           /\ i # None /\ runs[i].by = "structured"
        THEN i ELSE None

-----------------------------------------------------------------------------
(* Locks. *)

CandidateFree == \A a \in Actors : work[a].pc # "draft"
\* Faulty variant: a poll does not keep the document locked.
DocumentNotKept == poll.pc \in {"idle", "read", "write"}

DocumentFree == poll.pc # "write"
LocksFree == CandidateFree /\ DocumentFree

Idle(a) == work[a].pc = "idle"
Stop(a) == work' = [work EXCEPT ![a] = NoWork]

Event == events < MaxEvents /\ events' = events + 1

Asking(q) == Idle(q) /\ Event

-----------------------------------------------------------------------------
(* A run begins. *)

Refused(by, expected) ==
    \/ candidate.status # "new"
    \/ by \in Rewriters /\ policy # "rewrite_with_attribution"
    \/ expected # None /\ candidate.meta.rewritten # expected

\* Another request has the same input under way.
TurnAway(a, by, variant, expected) ==
    /\ Refused(by, expected) \/ (Found(by, variant, "completed") = {} /\ Busy(by, variant))
    /\ Stop(a) /\ UNCHANGED <<candidate, runs>>

Reuse(a, by, variant, expected) ==
    /\ ~Refused(by, expected) /\ Found(by, variant, "completed") # {}
    /\ candidate' = Pointed(Max(Found(by, variant, "completed")))
    /\ Stop(a) /\ UNCHANGED runs

Open(a, by, variant, expected) ==
    /\ ~Refused(by, expected) /\ Found(by, variant, "completed") = {} /\ ~Busy(by, variant)
    /\ runs' = Append(Abandoned(by, variant), NewRun(by, variant, Key(by)))
    /\ work' = [work EXCEPT ![a] = [NoWork EXCEPT !.pc = "model", !.by = by, !.run = Len(runs) + 1,
                                                  !.expected = expected]]
    /\ UNCHANGED candidate

Begin(a, by, variant, expected) ==
    /\ LocksFree
    /\ \/ TurnAway(a, by, variant, expected)
       \/ Reuse(a, by, variant, expected)
       \/ Open(a, by, variant, expected)
    /\ UNCHANGED <<text, policy, old, drafts, poll, sweep, overtaken>>

\* An instruction makes the rewrite another one.
AskRun(q) ==
    /\ Asking(q)
    /\ \E kind \in Kinds :
          IF kind = "prompted"
          THEN \E instruction \in Instructions :
                  Begin(q, "structured", Variant(None, instruction), None)
          ELSE Begin(q, kind, NoVariant, None)

\* The worker, and the batch an editor asks for, choose candidates nobody has enriched;
\* the candidate is enriched later.
Select ==
    /\ Idle(Worker) /\ candidate.status = "new" /\ candidate.summary = None
    /\ work' = [work EXCEPT ![Worker].pc = "selected"]
    /\ UNCHANGED <<text, policy, candidate, runs, old, drafts, poll, sweep, overtaken, events>>

EnrichSelected ==
    /\ work[Worker].pc = "selected"
    /\ Begin(Worker, "local", NoVariant, None)
    /\ UNCHANGED events

\* An edit starts from the proposal the editor names, read without a lock.
ReadProposal(q) ==
    /\ Asking(q) /\ Proposal # None
    /\ work' = [work EXCEPT ![q].pc = "edit", ![q].expected = Proposal]
    /\ UNCHANGED <<text, policy, candidate, runs, old, drafts, poll, sweep, overtaken>>

\* Another operation on the same proposal is another input.
EditProposal(q) ==
    /\ work[q].pc = "edit"
    /\ \E operation \in Instructions :
          Begin(q, "structured", Variant(work[q].expected, operation), work[q].expected)
    /\ UNCHANGED events

-----------------------------------------------------------------------------
(* A run ends. *)

\* Faulty variant: the proposal an edit started from is not compared again.
VerdictWithoutExpected(a) ==
    LET i == work[a].run
        key == Key(runs[i].by)
    IN  IF candidate.status # "new" THEN "discarded"
        ELSE IF runs[i].text # key.text \/ runs[i].policy # key.policy THEN "stale"
        ELSE "completed"

\* What becomes of an answer.
Verdict(a) ==
    LET i == work[a].run
        key == Key(runs[i].by)
    IN  IF candidate.status # "new" THEN "discarded"
        ELSE IF runs[i].text # key.text \/ runs[i].policy # key.policy THEN "stale"
        ELSE IF work[a].expected # None /\ candidate.meta.rewritten # work[a].expected THEN "stale"
        ELSE "completed"

Answering(a) == work[a].pc = "model" /\ LocksFree

Finish(a) ==
    LET i == work[a].run
    IN
    /\ Answering(a)
    /\ IF runs[i].status # "running" THEN UNCHANGED <<candidate, runs>>
       ELSE /\ runs' = [runs EXCEPT ![i] = Ended(i, Verdict(a))]
            /\ candidate' = IF Verdict(a) = "completed" THEN Pointed(i) ELSE candidate
    /\ Stop(a)
    /\ UNCHANGED <<text, policy, old, drafts, poll, sweep, overtaken, events>>

\* The model gives nothing that is of use; the local one always answers.
ModelFails(a) ==
    LET i == work[a].run
    IN
    /\ Answering(a) /\ work[a].by # "local"
    /\ runs' = IF runs[i].status = "running" THEN [runs EXCEPT ![i] = Ended(i, "failed")] ELSE runs
    /\ Stop(a)
    /\ UNCHANGED <<text, policy, candidate, old, drafts, poll, sweep, overtaken, events>>

\* The lease of a run passes.
Expire(i) ==
    /\ runs[i].status = "running" /\ runs[i].live
    /\ IF \E a \in Actors : work[a].pc = "model" /\ work[a].run = i
       THEN Event ELSE UNCHANGED events
    /\ runs' = [runs EXCEPT ![i].live = FALSE]
    /\ UNCHANGED <<text, policy, candidate, old, drafts, work, poll, sweep, overtaken>>

\* The process goes, or the worker's deadline passes: the run stays behind.  What dies
\* elsewhere leaves nothing.
Die(a) ==
    /\ work[a].pc = "model" /\ Event
    /\ Stop(a)
    /\ UNCHANGED <<text, policy, candidate, runs, old, drafts, poll, sweep, overtaken>>

-----------------------------------------------------------------------------
(* The candidate becomes a draft. *)

\* Faulty variant: the candidate is accepted before its draft has a number.
DraftUnstored(content, wanted) ==
    /\ candidate' = [candidate EXCEPT !.status = "accepted", !.item = Len(drafts) + 1]
    /\ UNCHANGED drafts

Draft(content, wanted) ==
    LET rewrite == IF policy = "rewrite_with_attribution"
                   THEN Current([text |-> content, policy |-> policy]) ELSE None
    IN
    /\ drafts' = Append(drafts, [text |-> content, policy |-> policy, rewrite |-> rewrite,
                                 wanted |-> wanted])
    /\ candidate' = [candidate EXCEPT !.status = "accepted", !.item = Len(drafts) + 1]

\* Faulty variant: the candidate is not locked.
OpenDraftUnlocked(q) ==
    /\ Asking(q) /\ candidate.item = None
    /\ work' = [work EXCEPT ![q].pc = "draft", ![q].text = text]
    /\ UNCHANGED <<text, policy, candidate, runs, old, drafts, poll, sweep, overtaken>>

\* The candidate is locked and its document read; one that has a draft gives that one.
OpenDraft(q) ==
    /\ Asking(q) /\ CandidateFree /\ candidate.item = None
    /\ work' = [work EXCEPT ![q].pc = "draft", ![q].text = text]
    /\ UNCHANGED <<text, policy, candidate, runs, old, drafts, poll, sweep, overtaken>>

\* The policy and the rewrite are read, the draft is stored.
StoreDraft(q) ==
    /\ work[q].pc = "draft"
    /\ Draft(work[q].text, None)
    /\ Stop(q)
    /\ UNCHANGED <<text, policy, runs, old, poll, sweep, overtaken, events>>

\* The proposal the editor saw becomes the draft, if it still is the proposal.
Apply(q, wanted) ==
    /\ Asking(q) /\ LocksFree
    /\ Proposal = wanted /\ candidate.item = None
    /\ Draft(text, wanted)
    /\ UNCHANGED <<text, policy, runs, old, work, poll, sweep, overtaken>>

\* Dismiss and restore, whatever the status was.
SetStatus(q, status) ==
    /\ Asking(q) /\ CandidateFree /\ candidate.status # status
    /\ candidate' = [candidate EXCEPT !.status = status]
    /\ overtaken' = (overtaken \/ (status = "new" /\ sweep.pc = "scanned"))
    /\ UNCHANGED <<text, policy, runs, old, drafts, work, poll, sweep>>

-----------------------------------------------------------------------------
(* The source. *)

SetPolicy ==
    /\ Event
    /\ policy' \in Policies \ {policy}
    /\ UNCHANGED <<text, candidate, runs, old, drafts, work, poll, sweep, overtaken>>

\* A poll begins with the connector; its policy may change before the texts are there.
\* One that fails then leaves nothing.
ReadSource ==
    /\ poll.pc = "idle" /\ Event
    /\ poll' = [NoPoll EXCEPT !.pc = "read", !.policy = policy]
    /\ UNCHANGED <<text, policy, candidate, runs, old, drafts, work, sweep, overtaken>>

\* The document is written, and stays locked; the candidate is read.
StoreText ==
    /\ poll.pc = "read"
    /\ text' \in Texts
    /\ poll' = [poll EXCEPT !.pc = "write", !.meta = candidate.meta]
    /\ UNCHANGED <<policy, candidate, runs, old, drafts, work, sweep, overtaken, events>>

\* The metadata is one column and written as a whole, when it differs from what was read.
StoreCandidate ==
    /\ poll.pc = "write"
    /\ IF poll.meta.policy = poll.policy THEN UNCHANGED candidate
       ELSE /\ CandidateFree
            /\ candidate' = [candidate EXCEPT !.meta = [poll.meta EXCEPT !.policy = poll.policy]]
    /\ poll' = NoPoll
    /\ UNCHANGED <<text, policy, runs, old, drafts, work, sweep, overtaken, events>>

-----------------------------------------------------------------------------
(* Retention. *)

\* Ninety days pass.
Age ==
    /\ old < Len(runs)
    /\ \A i \in DOMAIN runs : ~runs[i].live
    /\ \A a \in Actors : Idle(a)
    /\ poll.pc = "idle" /\ sweep.pc = "idle"
    /\ old' = Len(runs)
    /\ UNCHANGED <<text, policy, candidate, runs, drafts, work, poll, sweep, overtaken, events>>

\* Active candidates are left alone; the pointers of the others are read.
Scan ==
    /\ sweep.pc = "idle" /\ candidate.status # "new"
    /\ sweep' = [pc |-> "scanned", enriched |-> candidate.meta.enriched,
                 rewritten |-> candidate.meta.rewritten]
    /\ UNCHANGED <<text, policy, candidate, runs, old, drafts, work, poll, overtaken, events>>

OldRuns(table) == {i \in 1..old : runs[i].by \in table /\ runs[i].status \in Terminal}

Recent(table) == {i \in OldRuns(table) : Cardinality({j \in OldRuns(table) : j > i}) < KeepRecent}

\* Old terminal runs go, except the current one and the newest of the old.
Sweep ==
    LET gone == (OldRuns(Enrichers) \ (Recent(Enrichers) \cup {sweep.enriched}))
                \cup (OldRuns(Rewriters) \ (Recent(Rewriters) \cup {sweep.rewritten}))
    IN
    /\ sweep.pc = "scanned"
    /\ runs' = [i \in DOMAIN runs |-> IF i \in gone THEN [runs[i] EXCEPT !.status = "gone"] ELSE runs[i]]
    /\ sweep' = NoSweep
    /\ UNCHANGED <<text, policy, candidate, old, drafts, work, poll, overtaken, events>>

-----------------------------------------------------------------------------

Ask(q) ==
    \/ AskRun(q) \/ ReadProposal(q) \/ OpenDraft(q)
    \/ \E i \in DOMAIN runs : Apply(q, i)
    \/ \E status \in {"new", "dismissed"} : SetStatus(q, status)

Serve(q) == EditProposal(q) \/ StoreDraft(q) \/ Finish(q)
Enrich == Select \/ EnrichSelected \/ Finish(Worker)

Next ==
    \/ Enrich
    \/ \E q \in Requests : Ask(q) \/ Serve(q) \/ ModelFails(q)
    \/ \E a \in Actors : Die(a)
    \/ \E i \in DOMAIN runs : Expire(i)
    \/ SetPolicy \/ ReadSource \/ StoreText \/ StoreCandidate \/ Age \/ Scan \/ Sweep

Spec == Init /\ [][Next]_vars

\* The worker is on, answers and transactions come to an end, time passes.
Fairness ==
    /\ WF_vars(Enrich)
    /\ \A q \in Requests : WF_vars(Serve(q))
    /\ WF_vars(StoreCandidate)
    /\ WF_vars(\E i \in DOMAIN runs : Expire(i))

FairSpec == Spec /\ Fairness

-----------------------------------------------------------------------------
(* Properties. *)

Pointers == [policy : Policies, enriched : Nat, rewritten : Nat]

\* Every variable has its type.
TypeOK ==
    /\ text \in Texts /\ policy \in Policies
    /\ candidate.status \in {"new", "dismissed", "accepted"} /\ candidate.meta \in Pointers
    /\ candidate.summary \in 0..Len(runs) /\ candidate.item \in 0..Len(drafts)
    /\ \A i \in DOMAIN runs :
          /\ runs[i].by \in Enrichers \cup Rewriters
          /\ runs[i].variant \in [base : 0..(i - 1), instruction : Instructions \cup {None}]
          /\ runs[i].status \in Terminal \cup {"running", "gone"}
    /\ old \in 0..Len(runs)
    /\ \A a \in Actors : work[a].pc \in {"idle", "selected", "edit", "model", "draft"}
    /\ events \in 0..MaxEvents

\* The run that a step makes current, in the table it belongs to.
MadeCurrent ==
    {i \in {candidate.meta'.enriched} \ {candidate.meta.enriched} : i # None}
    \cup {i \in {candidate.meta'.rewritten} \ {candidate.meta.rewritten} : i # None}

\* A run becomes current only when it is completed and made of the text and the policy that
\* are in force, on a candidate that is active, and an edit only on top of the proposal it
\* started from; and what has ended stays as it ended: an answer that comes late, when the
\* lease was taken over, the source changed or another edit came first, changes nothing
\* (candidate_enrichment.py, candidate_rewrite.py: second part of enrich and rewrite).
CurrentIsEarned ==
    [][ /\ \A i \in DOMAIN runs :
              runs[i].status # "running" => runs'[i].status \in {runs[i].status, "gone"}
        /\ \A i \in MadeCurrent :
              /\ runs'[i].status = "completed" /\ candidate.status = "new"
              /\ HasInput(i, runs[i].by, runs[i].variant, Key(runs[i].by))
              /\ runs[i].variant.base # None =>
                    candidate.meta.rewritten = runs[i].variant.base ]_vars

\* The summary an editor sees is the one of the run the candidate points to: no writer of
\* the metadata, which is one column, takes back what another has written
\* (source_reconciliation.py and the two services write it as a whole).  The retention
\* takes a current run away only if the candidate was restored between its two steps
\* (ai_run_retention.py: "current run IDs referenced by candidate metadata are always
\* preserved").
PointersHold ==
    /\ candidate.summary = candidate.meta.enriched
    /\ \A i \in {candidate.meta.enriched, candidate.meta.rewritten} \ {None} :
          runs[i].status = "gone" => overtaken

\* Whoever asks for drafts, there is one, and it has the rewrite of the text and the policy
\* it carries; applied, the one the editor saw (candidate_drafts.py,
\* candidate_current_structured_rewrite.py: "CandidateDraftService runs in the same
\* transaction").
DraftAsSeen ==
    /\ Len(drafts) <= 1
    /\ \A d \in ToSet(drafts) :
          /\ d.wanted # None => d.rewrite = d.wanted
          /\ d.rewrite # None => /\ runs[d.rewrite].text = d.text
                                 /\ runs[d.rewrite].policy = d.policy

\* A candidate that stays active is enriched, whatever died: an abandoned run delays it by
\* its lease, not for ever (ai_run_leases.py: "Fail toward recovery rather than blocking a
\* candidate forever").
UntouchedIsEnriched == []<>(candidate.status # "new" \/ candidate.summary # None)
================================================================================
