------------------------- MODULE DraftApproval_proofs -------------------------
(* Proofs about DraftApproval, for any drafts, requests, databases and bounds. *)
EXTENDS DraftApproval, FiniteSetTheorems, SequenceTheorems, TLAPS

-----------------------------------------------------------------------------
(* Types, with what a request remembers of the approval it stands on. *)

PartRows == [item : Items, revision : Nat, state : PartStates]

ApprovalRows ==
    [kind : {"draft", "series"}, state : States, claim : Nat, fresh : BOOLEAN, zone : Nat,
     parts : Seq(PartRows)]

EntryRows == [item : Items, revision : Nat, by : Nat \X Nat, live : BOOLEAN, moved : BOOLEAN]

Pcs == {"idle", "approve", "reject", "claim", "recheck", "swap", "item", "mark", "fence",
        "queue", "settle", "finish", "fail", "stale", "failed", "rejected", "take"}

RequestRows ==
    [pc : Pcs, id : Nat, pos : Nat \ {0}, token : Nat, done : Nat, mem : Seq(PartStates),
     marks : SUBSET Nat, verdict : {"none", "failed", "stale"}]

\* The request works under a token of its own.
Working == {"recheck", "item", "mark", "fence", "queue", "settle"}

\* A single draft is an approval of one part.
Sized(x) == Len(x.parts) \in 1..Drafts /\ (x.kind = "draft" => Len(x.parts) = 1)

Issued(x, n) == x.claim <= n

RowsTyped ==
    /\ issued \in Nat /\ row \in Seq(ApprovalRows)
    /\ \A a \in Approvals : Sized(row[a]) /\ Issued(row[a], issued)

\* Whoever scheduled exists.
Author(by, rows) ==
    \/ by = Owner
    \/ \E a \in DOMAIN rows : \E k \in 1..Len(rows[a].parts) : by = <<a, k>>

EntriesTyped == entry \in Seq(EntryRows) /\ \A s \in Entries : Author(entry[s].by, row)

\* Where a request stands with its approval and the part it is at.
Placed(m, rows, n) ==
    /\ m.token <= n
    /\ m.pc = "idle" => m.pos = 1
    /\ m.pc # "idle" =>
         /\ m.id \in DOMAIN rows
         /\ rows[m.id].kind = "draft" => m.pos = 1
         /\ m.pc \notin {"item", "mark", "fence", "queue", "settle", "fail"} => m.pos = 1
         /\ m.pc \in {"mark", "fence", "queue", "settle", "fail"} => m.pos <= Len(rows[m.id].parts)
         /\ m.pc = "item" => m.pos <= Len(rows[m.id].parts) + 1
         /\ m.pc \in {"item", "mark", "settle", "fail", "swap"} => rows[m.id].kind = "series"
         /\ m.pc \in {"take", "finish"} => rows[m.id].kind = "draft"
         /\ m.pc \in {"item", "mark", "fence", "queue", "settle"} /\ rows[m.id].kind = "series" =>
               Len(m.mem) = Len(rows[m.id].parts)
         /\ m.pc = "fail" => m.verdict # "none"
         /\ m.pc \in Working => m.token # NoToken

RequestsTyped ==
    req \in [Requests -> RequestRows] /\ \A r \in Requests : Placed(req[r], row, issued)

WorldTyped ==
    /\ locking \in BOOLEAN
    /\ changes \in 0..MaxChanges /\ faults \in 0..MaxFaults
    /\ revision \in [Items -> Nat] /\ \A c \in Items : revision[c] \in 1..(changes + 1)
    /\ zone \in 0..changes

TypeInv == RowsTyped /\ EntriesTyped /\ RequestsTyped /\ WorldTyped

\* What no step does to an approval: change what it is about, or return to an earlier state;
\* a claim is dropped or replaced by a new one, and begins with a new one.
Kept(old, new, n, finished) ==
    /\ new.kind = old.kind /\ Len(new.parts) = Len(old.parts)
    /\ \A k \in 1..Len(old.parts) :
          /\ new.parts[k].item = old.parts[k].item
          /\ new.parts[k].revision = old.parts[k].revision
          /\ new.parts[k].state = "pending" => old.parts[k].state = "pending"
    /\ new.state = "pending_review" => old.state = "pending_review"
    /\ new.state = "executed" => old.state = "executed" \/ finished
    /\ new.claim \in {old.claim, NoToken, n + 1}
    /\ new.state = "executing" /\ new.claim = old.claim => old.state = "executing"

Progress(finished) ==
    /\ issued' \in {issued, issued + 1}
    /\ Approvals \subseteq DOMAIN row'
    /\ \A a \in Approvals : Kept(row[a], row'[a], issued, finished)
    /\ \A a \in DOMAIN row' \ Approvals : row'[a].state = "pending_review"

\* The rows are sequences, and what they hold.
LEMMA Typed ==
  ASSUME TypeInv
  PROVE  /\ issued \in Nat /\ Drafts \in Nat \ {0} /\ MaxChanges \in Nat /\ MaxFaults \in Nat
         /\ Approvals = 1..Len(row) /\ Len(row) \in Nat /\ Entries = 1..Len(entry) /\ Len(entry) \in Nat
         /\ \A a \in Approvals : /\ row[a] \in ApprovalRows /\ row[a].parts \in Seq(PartRows)
                                 /\ Len(row[a].parts) \in Nat
                                 /\ DOMAIN row[a].parts = 1..Len(row[a].parts)
                                 /\ \A k \in 1..Len(row[a].parts) : row[a].parts[k] \in PartRows
         /\ \A s \in Entries : entry[s] \in EntryRows
         /\ req \in [Requests -> RequestRows]
         /\ \A r \in Requests : req[r] \in RequestRows /\ Placed(req[r], row, issued)
  <1>1. row \in Seq(ApprovalRows) /\ entry \in Seq(EntryRows)
    BY DEF TypeInv, RowsTyped, EntriesTyped
  <1>2. \A a \in Approvals : row[a] \in ApprovalRows
    BY <1>1 DEF Approvals
  <1>3. \A s \in Entries : entry[s] \in EntryRows
    BY <1>1 DEF Entries
  <1>4. \A a \in Approvals : row[a].parts \in Seq(PartRows)
    BY <1>2 DEF ApprovalRows
  <1>5. \A a \in Approvals : /\ Len(row[a].parts) \in Nat
                             /\ DOMAIN row[a].parts = 1..Len(row[a].parts)
                             /\ \A k \in 1..Len(row[a].parts) : row[a].parts[k] \in PartRows
    BY <1>4
  <1> QED BY <1>1, <1>2, <1>3, <1>4, <1>5, DraftApprovalAssumption
          DEF TypeInv, RowsTyped, RequestsTyped, Approvals, Entries

\* A row is replaced by one that keeps what is to be kept.
LEMMA RowReplaced ==
  ASSUME TypeInv, NEW a \in Approvals, NEW next \in ApprovalRows, NEW finished \in BOOLEAN,
         Kept(row[a], next, issued, finished), issued' \in {issued, issued + 1},
         Issued(next, issued'), row' = [row EXCEPT ![a] = next]
  PROVE  RowsTyped' /\ Progress(finished)
  <1>1. /\ issued \in Nat /\ row \in Seq(ApprovalRows) /\ Approvals = 1..Len(row) /\ Len(row) \in Nat
        /\ \A b \in Approvals : row[b] \in ApprovalRows /\ Sized(row[b]) /\ Issued(row[b], issued)
    BY Typed DEF TypeInv, RowsTyped
  <1>2. row' \in Seq(ApprovalRows) /\ Len(row') = Len(row) /\ DOMAIN row' = Approvals
    BY <1>1, ExceptSeq DEF Approvals
  <1>3. row'[a] = next /\ \A b \in Approvals : b # a => row'[b] = row[b]
    BY <1>1
  <1>4. Sized(next)
    BY <1>1 DEF Kept, Sized
  <1>5. \A b \in Approvals : Issued(row[b], issued')
    <2>1. \A b \in Approvals : row[b].claim \in Nat /\ row[b].claim <= issued
      BY <1>1 DEF ApprovalRows, Issued
    <2>2. issued' \in Nat /\ issued <= issued'
      BY <1>1
    <2> QED BY <1>1, <2>1, <2>2 DEF Issued
  <1>6. \A b \in Approvals : Kept(row[b], row[b], issued, finished)
    BY DEF Kept
  <1>7. RowsTyped'
    BY <1>1, <1>2, <1>3, <1>4, <1>5 DEF RowsTyped, Approvals
  <1> QED BY <1>2, <1>3, <1>6, <1>7 DEF Progress

\* Nothing happens to the rows.
LEMMA RowsUnchanged ==
  ASSUME TypeInv, UNCHANGED <<row, issued>>
  PROVE  RowsTyped' /\ Progress(FALSE)
  BY DEF TypeInv, RowsTyped, Progress, Kept, Approvals, Sized, Issued

\* What a request remembers stays right whatever happens to the rows.
LEMMA Standing ==
  ASSUME TypeInv, NEW finished \in BOOLEAN, Progress(finished), NEW q \in Requests
  PROVE  Placed(req[q], row', issued')
  <1> DEFINE n == req[q]
  <1>0. n \in RequestRows /\ Placed(n, row, issued) /\ issued \in Nat
    BY Typed
  <1>1. n.token <= issued'
    <2>1. n.token \in Nat /\ n.token <= issued
      BY <1>0 DEF Placed, RequestRows
    <2>2. issued' \in Nat /\ issued <= issued'
      BY <1>0 DEF Progress
    <2> QED BY <1>0, <2>1, <2>2
  <1>2. n.pc # "idle" => /\ n.id \in DOMAIN row' /\ row'[n.id].kind = row[n.id].kind
                         /\ Len(row'[n.id].parts) = Len(row[n.id].parts)
    BY <1>0 DEF Placed, Progress, Kept, Approvals
  <1> HIDE DEF n
  <1>3. Placed(n, row', issued')
    BY <1>0, <1>1, <1>2 DEF Placed
  <1> QED BY <1>3 DEF n

\* A request writes its own memory only.
LEMMA Moved ==
  ASSUME TypeInv, NEW finished \in BOOLEAN, Progress(finished), NEW r \in Requests,
         NEW m \in RequestRows, Placed(m, row', issued'), req' = [req EXCEPT ![r] = m]
  PROVE  RequestsTyped'
  <1>1. \A q \in Requests : req[q] \in RequestRows /\ Placed(req[q], row', issued')
    BY Typed, Standing
  <1> QED BY <1>1, Typed DEF RequestsTyped

-----------------------------------------------------------------------------
(* What the writes do to an approval. *)

\* An approval is concluded.
LEMMA Concluding ==
  ASSUME TypeInv, NEW a \in Approvals, NEW state \in States \ {"pending_review", "executing"},
         NEW finished \in BOOLEAN, state = "executed" => finished,
         Conclude(a, state), UNCHANGED issued
  PROVE  RowsTyped' /\ Progress(finished)
  <1> DEFINE next == [row[a] EXCEPT !.state = state, !.claim = NoToken, !.fresh = FALSE]
  <1>1. row' = [row EXCEPT ![a] = next]
    BY DEF Conclude
  <1>2. row[a] \in ApprovalRows /\ issued \in Nat
    BY Typed
  <1>3. /\ next \in ApprovalRows /\ next.kind = row[a].kind /\ next.parts = row[a].parts
        /\ next.state = state /\ next.claim = NoToken
    BY <1>2 DEF ApprovalRows, NoToken
  <1> HIDE DEF next
  <1>4. Kept(row[a], next, issued, finished) /\ Issued(next, issued')
    BY <1>2, <1>3 DEF Kept, Issued, NoToken
  <1> QED BY <1>1, <1>3, <1>4, RowReplaced

\* A part of an approval gets another state, and the approval with it or not.
LEMMA PartWritten ==
  ASSUME TypeInv, NEW a \in Approvals, NEW k \in 1..Len(row[a].parts),
         NEW state \in PartStates \ {"pending"}
  PROVE  LET parts == [row[a].parts EXCEPT ![k] = [row[a].parts[k] EXCEPT !.state = state]]
         IN  /\ parts \in Seq(PartRows) /\ Len(parts) = Len(row[a].parts)
             /\ \A j \in 1..Len(row[a].parts) :
                   /\ parts[j].item = row[a].parts[j].item
                   /\ parts[j].revision = row[a].parts[j].revision
                   /\ parts[j].state = IF j = k THEN state ELSE row[a].parts[j].state
  <1> DEFINE part == [row[a].parts[k] EXCEPT !.state = state]
             parts == [row[a].parts EXCEPT ![k] = part]
  <1>1. row[a].parts \in Seq(PartRows) /\ row[a].parts[k] \in PartRows
    BY Typed
  <1>2. /\ part \in PartRows /\ part.item = row[a].parts[k].item
        /\ part.revision = row[a].parts[k].revision /\ part.state = state
    BY <1>1 DEF PartRows
  <1> HIDE DEF part
  <1>3. /\ parts \in Seq(PartRows) /\ Len(parts) = Len(row[a].parts)
        /\ \A j \in 1..Len(row[a].parts) : parts[j] = IF j = k THEN part ELSE row[a].parts[j]
    BY <1>1, <1>2, ExceptSeq
  <1> HIDE DEF parts
  <1>4. \A j \in 1..Len(row[a].parts) :
           /\ parts[j].item = row[a].parts[j].item
           /\ parts[j].revision = row[a].parts[j].revision
           /\ parts[j].state = IF j = k THEN state ELSE row[a].parts[j].state
    BY <1>2, <1>3
  <1> QED BY <1>3, <1>4 DEF parts, part

\* A series ends at one of its parts.
LEMMA Failing ==
  ASSUME TypeInv, NEW r \in Requests, NEW verdict \in {"failed", "stale"}, Failed(r, verdict),
         req[r].id \in Approvals, req[r].pos \in 1..Len(row[req[r].id].parts), UNCHANGED issued
  PROVE  RowsTyped' /\ Progress(FALSE)
  <1> DEFINE a == req[r].id
             k == req[r].pos
             end == IF req[r].done > 0 THEN "partial_failed" ELSE verdict
             parts == [row[a].parts EXCEPT ![k] = [row[a].parts[k] EXCEPT !.state = verdict]]
             next == [row[a] EXCEPT !.parts = parts, !.state = end, !.claim = NoToken, !.fresh = FALSE]
  <1>0. a \in Approvals /\ k \in 1..Len(row[a].parts)
    OBVIOUS
  <1>1. row[a] \in ApprovalRows /\ issued \in Nat /\ row[a].parts \in Seq(PartRows)
    BY <1>0, Typed
  <1>2. row' = [row EXCEPT ![a] = next]
    BY <1>1 DEF Failed, ApprovalRows
  <1> HIDE DEF a, k
  <1>3. verdict \in PartStates \ {"pending"} /\ end \in States
        /\ end \notin {"pending_review", "executing", "executed"}
    BY DEF PartStates, States
  <1>4. /\ parts \in Seq(PartRows) /\ Len(parts) = Len(row[a].parts)
        /\ \A j \in 1..Len(row[a].parts) :
              /\ parts[j].item = row[a].parts[j].item
              /\ parts[j].revision = row[a].parts[j].revision
              /\ parts[j].state = IF j = k THEN verdict ELSE row[a].parts[j].state
    BY <1>0, <1>3, PartWritten
  <1> HIDE DEF parts, end
  <1>5. /\ next \in ApprovalRows /\ next.kind = row[a].kind /\ next.parts = parts
        /\ next.state = end /\ next.claim = NoToken
    BY <1>1, <1>3, <1>4 DEF ApprovalRows, NoToken
  <1> HIDE DEF next
  <1>6. Kept(row[a], next, issued, FALSE) /\ Issued(next, issued')
    BY <1>1, <1>3, <1>4, <1>5 DEF Kept, Issued, NoToken
  <1> QED BY <1>0, <1>2, <1>5, <1>6, RowReplaced

\* A part is marked or settled.
LEMMA PartStep ==
  ASSUME TypeInv, NEW a \in Approvals, NEW k \in 1..Len(row[a].parts),
         NEW state \in {"executing", "executed"}, UNCHANGED issued,
         row' = [row EXCEPT ![a].parts[k].state = state]
  PROVE  /\ RowsTyped' /\ Progress(FALSE)
         /\ \A b \in Approvals : row'[b].state = row[b].state /\ row'[b].claim = row[b].claim
         /\ row'[a].parts[k].state = state
  <1> DEFINE parts == [row[a].parts EXCEPT ![k] = [row[a].parts[k] EXCEPT !.state = state]]
             next == [row[a] EXCEPT !.parts = parts]
  <1>1. row[a] \in ApprovalRows /\ issued \in Nat /\ row[a].claim <= issued
        /\ row \in Seq(ApprovalRows) /\ Approvals = 1..Len(row)
    BY Typed DEF TypeInv, RowsTyped, Issued
  <1>2. row' = [row EXCEPT ![a] = next]
    BY <1>1 DEF ApprovalRows
  <1>3. state \in PartStates \ {"pending"}
    BY DEF PartStates
  <1>4. /\ parts \in Seq(PartRows) /\ Len(parts) = Len(row[a].parts)
        /\ \A j \in 1..Len(row[a].parts) :
              /\ parts[j].item = row[a].parts[j].item
              /\ parts[j].revision = row[a].parts[j].revision
              /\ parts[j].state = IF j = k THEN state ELSE row[a].parts[j].state
    BY <1>3, PartWritten
  <1> HIDE DEF parts
  <1>5. /\ next \in ApprovalRows /\ next.kind = row[a].kind /\ next.parts = parts
        /\ next.state = row[a].state /\ next.claim = row[a].claim
    BY <1>1, <1>4 DEF ApprovalRows
  <1> HIDE DEF next
  <1>6. Kept(row[a], next, issued, FALSE) /\ Issued(next, issued')
    BY <1>1, <1>3, <1>4, <1>5 DEF Kept, Issued
  <1>7. RowsTyped' /\ Progress(FALSE)
    BY <1>2, <1>5, <1>6, RowReplaced
  <1>8. row'[a] = next /\ \A b \in Approvals : b # a => row'[b] = row[b]
    BY <1>1, <1>2
  <1> QED BY <1>4, <1>5, <1>7, <1>8

\* A claim is issued.
LEMMA Claiming ==
  ASSUME TypeInv, NEW a \in Approvals, issued' = issued + 1,
         \/ row' = [row EXCEPT ![a].claim = issued', ![a].fresh = TRUE]
         \/ row' = [row EXCEPT ![a].state = "executing", ![a].claim = issued', ![a].fresh = TRUE]
  PROVE  /\ RowsTyped' /\ Progress(FALSE)
         /\ row'[a].claim = issued' /\ row'[a].parts = row[a].parts
         /\ \A b \in Approvals : b # a => row'[b] = row[b]
  <1> DEFINE token == issued + 1
             left == [row[a] EXCEPT !.claim = token, !.fresh = TRUE]
             begun == [row[a] EXCEPT !.state = "executing", !.claim = token, !.fresh = TRUE]
  <1>0. row[a] \in ApprovalRows /\ issued \in Nat /\ Approvals = 1..Len(row) /\ row \in Seq(ApprovalRows)
    BY Typed DEF TypeInv, RowsTyped
  <1>1. /\ row[a] \in ApprovalRows /\ issued \in Nat /\ token \in Nat /\ token > issued /\ issued' = token
        /\ row \in Seq(ApprovalRows) /\ Approvals = 1..Len(row) /\ token # NoToken
    BY <1>0 DEF NoToken
  <1>2. row' = [row EXCEPT ![a] = left] \/ row' = [row EXCEPT ![a] = begun]
    BY <1>1
  <1> HIDE DEF token
  <1>3. /\ left \in ApprovalRows /\ left.kind = row[a].kind /\ left.parts = row[a].parts
        /\ left.state = row[a].state /\ left.claim = token
    BY <1>1 DEF ApprovalRows
  <1>4. /\ begun \in ApprovalRows /\ begun.kind = row[a].kind /\ begun.parts = row[a].parts
        /\ begun.state = "executing" /\ begun.claim = token
    BY <1>1 DEF ApprovalRows, States
  <1> HIDE DEF left, begun
  <1>5. PICK next \in ApprovalRows : /\ row' = [row EXCEPT ![a] = next] /\ next.claim = token
                                     /\ next.parts = row[a].parts /\ next.kind = row[a].kind
                                     /\ next.state \in {row[a].state, "executing"}
    BY <1>2, <1>3, <1>4
  <1>a. row[a].claim \in Nat /\ row[a].claim <= issued
    BY <1>1 DEF TypeInv, RowsTyped, Issued, ApprovalRows
  <1>b. token # row[a].claim /\ token = issued + 1
    BY <1>1, <1>a DEF token
  <1>6. Kept(row[a], next, issued, FALSE) /\ Issued(next, issued')
    BY <1>1, <1>5, <1>b DEF Kept, Issued
  <1>7. RowsTyped' /\ Progress(FALSE)
    BY <1>1, <1>5, <1>6, RowReplaced DEF token
  <1>8. row'[a] = next /\ \A b \in Approvals : b # a => row'[b] = row[b]
    BY <1>1, <1>5
  <1> QED BY <1>1, <1>5, <1>7, <1>8

\* An approval becomes stale, and parts of it.
LEMMA Staling ==
  ASSUME TypeInv, NEW a \in Approvals, NEW marks, UNCHANGED issued,
         row' = [row EXCEPT ![a].state = "stale", ![a].claim = NoToken, ![a].fresh = FALSE,
                            ![a].parts = [k \in DOMAIN @ |->
                                IF k \in marks THEN [@[k] EXCEPT !.state = "stale"] ELSE @[k]]]
  PROVE  RowsTyped' /\ Progress(FALSE)
  <1> DEFINE old == row[a].parts
             part(k) == IF k \in marks THEN [old[k] EXCEPT !.state = "stale"] ELSE old[k]
             parts == [k \in DOMAIN old |-> part(k)]
             next == [row[a] EXCEPT !.state = "stale", !.claim = NoToken, !.fresh = FALSE,
                                    !.parts = parts]
  <1>1. /\ row[a] \in ApprovalRows /\ issued \in Nat /\ old \in Seq(PartRows)
        /\ Len(old) \in Nat /\ DOMAIN old = 1..Len(old)
        /\ \A k \in 1..Len(old) : old[k] \in PartRows
    BY Typed
  <1>2. row' = [row EXCEPT ![a] = next]
    BY <1>1 DEF ApprovalRows
  <1>3. \A k \in 1..Len(old) : /\ part(k) \in PartRows /\ part(k).item = old[k].item
                               /\ part(k).revision = old[k].revision
                               /\ part(k).state = "pending" => old[k].state = "pending"
    BY <1>1 DEF PartRows, PartStates
  <1> HIDE DEF part
  <1>4. parts \in [1..Len(old) -> PartRows]
    BY <1>1, <1>3
  <1>5. parts \in Seq(PartRows) /\ Len(parts) = Len(old)
    BY <1>1, <1>4, SeqDef
  <1>6. \A k \in 1..Len(old) : parts[k] = part(k)
    BY <1>1
  <1> HIDE DEF parts
  <1>7. /\ next \in ApprovalRows /\ next.kind = row[a].kind /\ next.parts = parts
        /\ next.state = "stale" /\ next.claim = NoToken
    BY <1>1, <1>5 DEF ApprovalRows, States, NoToken
  <1> HIDE DEF next
  <1>8. Kept(row[a], next, issued, FALSE) /\ Issued(next, issued')
    BY <1>1, <1>3, <1>5, <1>6, <1>7 DEF Kept, Issued, NoToken
  <1> QED BY <1>2, <1>7, <1>8, RowReplaced

-----------------------------------------------------------------------------
(* What a request writes in its memory. *)

\* A step of a request, as far as the types and the other requests see it: it writes its own
\* memory, and the approval it stands on only where nobody else holds the row.
Polite(r) ==
    \A b \in Approvals :
        \/ row'[b].state = row[b].state /\ row'[b].claim = row[b].claim
        \/ b = req[r].id /\ MayWrite(r, b)

Stepped(r, finished) ==
    /\ RowsTyped' /\ Progress(finished) /\ Polite(r)
    /\ \E m \in RequestRows : Placed(m, row', issued') /\ req' = [req EXCEPT ![r] = m]

\* It goes home.
LEMMA Ending ==
  ASSUME TypeInv, NEW r \in Requests, NEW finished \in BOOLEAN, RowsTyped', Progress(finished),
         Polite(r), End(r)
  PROVE  Stepped(r, finished)
  <1>1. issued' \in Nat
    BY DEF RowsTyped
  <1>2. Idle \in RequestRows
    BY DEF Idle, RequestRows, Pcs, NoToken, PartStates
  <1>3. Placed(Idle, row', issued')
    BY <1>1 DEF Idle, Placed, NoToken, Working
  <1> QED BY <1>2, <1>3 DEF Stepped, End

\* Only its own memory.
LEMMA Remembering ==
  ASSUME TypeInv, NEW r \in Requests, UNCHANGED <<row, issued>>,
         NEW m \in RequestRows, Placed(m, row, issued), req' = [req EXCEPT ![r] = m]
  PROVE  Stepped(r, FALSE)
  <1>1. RowsTyped' /\ Progress(FALSE)
    BY RowsUnchanged
  <1>2. Polite(r)
    BY DEF Polite
  <1>3. Placed(m, row', issued')
    OBVIOUS
  <1> QED BY <1>1, <1>2, <1>3 DEF Stepped

LEMMA Leaving ==
  ASSUME TypeInv, NEW r \in Requests, UNCHANGED <<row, issued>>, End(r)
  PROVE  Stepped(r, FALSE)
  <1>1. RowsTyped' /\ Progress(FALSE)
    BY RowsUnchanged
  <1>2. Polite(r)
    BY DEF Polite
  <1> QED BY <1>1, <1>2, Ending

\* What a request is about, and where it goes.
LEMMA Going ==
  ASSUME TypeInv, NEW r \in Requests, NEW pc \in Pcs, Goto(r, pc)
  PROVE  LET m == [req[r] EXCEPT !.pc = pc]
         IN  /\ m \in RequestRows /\ req' = [req EXCEPT ![r] = m] /\ m.pc = pc
             /\ m.id = req[r].id /\ m.pos = req[r].pos /\ m.token = req[r].token
             /\ m.mem = req[r].mem /\ m.verdict = req[r].verdict /\ m.done = req[r].done
  <1>1. req[r] \in RequestRows
    BY Typed
  <1> QED BY <1>1 DEF Goto, RequestRows

\* It goes on, with what it has.
LEMMA GoingOn ==
  ASSUME TypeInv, NEW r \in Requests, NEW pc \in Pcs, UNCHANGED <<row, issued>>, Goto(r, pc),
         pc # "idle", req[r].pc # "idle",
         pc \notin {"item", "mark", "fence", "queue", "settle", "fail"} => req[r].pos = 1,
         pc \in {"mark", "fence", "queue", "settle", "fail"} =>
             req[r].pos <= Len(row[req[r].id].parts),
         pc = "item" => req[r].pos <= Len(row[req[r].id].parts) + 1,
         pc \in {"item", "mark", "settle", "fail", "swap"} => row[req[r].id].kind = "series",
         pc \in {"take", "finish"} => row[req[r].id].kind = "draft",
         pc \in {"item", "mark", "fence", "queue", "settle"} /\ row[req[r].id].kind = "series" =>
             Len(req[r].mem) = Len(row[req[r].id].parts),
         pc = "fail" => req[r].verdict # "none",
         pc \in Working => req[r].token # NoToken
  PROVE  Stepped(r, FALSE)
  <1> DEFINE m == [req[r] EXCEPT !.pc = pc]
  <1>1. /\ m \in RequestRows /\ req' = [req EXCEPT ![r] = m] /\ m.pc = pc
        /\ m.id = req[r].id /\ m.pos = req[r].pos /\ m.token = req[r].token
        /\ m.mem = req[r].mem /\ m.verdict = req[r].verdict
    BY Going
  <1>2. Placed(req[r], row, issued)
    BY Typed
  <1> HIDE DEF m
  <1>3. Placed(m, row, issued)
    BY <1>1, <1>2 DEF Placed
  <1> QED BY <1>1, <1>3, Remembering

\* It writes the row of its approval, where nobody else holds it.
LEMMA Alone ==
  ASSUME NEW r \in Requests, MayWrite(r, req[r].id),
         \A b \in Approvals : b # req[r].id => row'[b] = row[b]
  PROVE  Polite(r)
  BY DEF Polite

\* Whatever it writes by primary key.
LEMMA Writing ==
  ASSUME TypeInv, NEW r \in Requests, req[r].pc # "idle", req[r].pos = 1, MayWrite(r, req[r].id),
         NEW what, NEW marks, Write(r, what, marks),
         what = "take" => row[req[r].id].kind = "draft"
  PROVE  Stepped(r, FALSE)
  <1> DEFINE a == req[r].id
  <1>1. a \in Approvals /\ row \in Seq(ApprovalRows) /\ row[a] \in ApprovalRows
    BY Typed DEF Placed, Approvals, TypeInv, RowsTyped
  <1>2. CASE /\ what = "stale" /\ UNCHANGED issued /\ End(r)
             /\ row' = [row EXCEPT ![a].state = "stale", ![a].claim = NoToken, ![a].fresh = FALSE,
                             ![a].parts = [k \in DOMAIN @ |->
                                 IF k \in marks THEN [@[k] EXCEPT !.state = "stale"] ELSE @[k]]]
    <2>1. RowsTyped' /\ Progress(FALSE)
      <3> HIDE DEF a
      <3> QED BY <1>1, <1>2, Staling
    <2>2. Polite(r)
      <3>1. \A b \in Approvals : b # a => row'[b] = row[b]
        BY <1>1, <1>2 DEF Approvals
      <3> QED BY <3>1, Alone
    <2> QED BY <1>2, <2>1, <2>2, Ending
  <1>3. CASE what \in {"failed", "rejected"} /\ Conclude(a, what) /\ UNCHANGED issued /\ End(r)
    <2>1. RowsTyped' /\ Progress(FALSE)
      <3> HIDE DEF a
      <3>1. what \in States \ {"pending_review", "executing"} /\ what # "executed"
        BY <1>3 DEF States
      <3> QED BY <1>1, <1>3, <3>1, Concluding
    <2>2. Polite(r)
      <3>1. \A b \in Approvals : b # a => row'[b] = row[b]
        BY <1>1, <1>3 DEF Approvals, Conclude
      <3> QED BY <3>1, Alone
    <2> QED BY <1>3, <2>1, <2>2, Ending
  <1>4. CASE /\ what = "take" /\ issued' = issued + 1
             /\ row' = [row EXCEPT ![a].claim = issued', ![a].fresh = TRUE]
             /\ req' = [req EXCEPT ![r].pc = "fence", ![r].token = issued', ![r].marks = {}]
    <2>1. /\ RowsTyped' /\ Progress(FALSE) /\ row'[a].parts = row[a].parts
          /\ \A b \in Approvals : b # a => row'[b] = row[b]
      <3> HIDE DEF a
      <3> QED BY <1>1, <1>4, Claiming
    <2>2. Polite(r)
      BY <1>1, <2>1, Alone
    <2> DEFINE m == [req[r] EXCEPT !.pc = "fence", !.token = issued', !.marks = {}]
    <2>3. issued \in Nat /\ req[r] \in RequestRows
      BY Typed
    <2>4. issued' \in Nat /\ issued' # NoToken
      BY <1>4, <2>3 DEF NoToken
    <2>5. /\ m \in RequestRows /\ req' = [req EXCEPT ![r] = m] /\ m.pc = "fence" /\ m.id = a
          /\ m.pos = 1 /\ m.token = issued'
      BY <1>4, <2>3, <2>4 DEF RequestRows, Pcs
    <2> HIDE DEF m
    <2>6. a \in DOMAIN row' /\ row'[a].kind = "draft" /\ Len(row'[a].parts) = 1
      <3>1. row[a].kind = "draft"
        BY <1>4
      <3> HIDE DEF a
      <3>2. Len(row[a].parts) = 1
        BY <1>1, <3>1 DEF TypeInv, RowsTyped, Sized
      <3> QED BY <1>1, <2>1, <3>1, <3>2 DEF Progress, Kept
    <2> HIDE DEF a
    <2>7. Placed(m, row', issued')
      BY <2>4, <2>5, <2>6 DEF Placed
    <2> QED BY <2>1, <2>2, <2>5, <2>7 DEF Stepped
  <1> QED BY <1>2, <1>3, <1>4 DEF Write

LEMMA StaleMarks ==
  ASSUME TypeInv, NEW a \in Approvals
  PROVE  StaleParts(a) \in SUBSET Nat
  <1>1. DOMAIN row[a].parts = 1..Len(row[a].parts)
    BY Typed
  <1>2. DOMAIN row[a].parts \subseteq Nat
    BY <1>1
  <1> QED BY <1>2 DEF StaleParts

\* It found what to write and writes it now or later.
LEMMA Deciding ==
  ASSUME TypeInv, NEW r \in Requests, req[r].pc # "idle", req[r].pos = 1,
         NEW what \in {"stale", "failed", "rejected", "take"}, Decide(r, what),
         what = "take" => row[req[r].id].kind = "draft"
  PROVE  Stepped(r, FALSE)
  <1>1. CASE locking /\ MayWrite(r, req[r].id) /\ Write(r, what, Marks(req[r].id, what))
    BY <1>1, Writing
  <1>2. CASE Later(r, what) /\ UNCHANGED <<row, issued>>
    <2> DEFINE marks == Marks(req[r].id, what)
               m == [req[r] EXCEPT !.pc = what, !.marks = marks]
    <2>1. req[r] \in RequestRows /\ Placed(req[r], row, issued)
      BY Typed
    <2>2. marks \in SUBSET Nat
      <3>1. req[r].id \in Approvals
        BY <2>1 DEF Placed, Approvals
      <3> QED BY <3>1, StaleMarks DEF Marks
    <2>3. req' = [req EXCEPT ![r] = m]
      BY <1>2, <2>1 DEF Later, RequestRows
    <2> HIDE DEF marks
    <2>4. /\ m \in RequestRows /\ m.pc = what
          /\ m.id = req[r].id /\ m.pos = req[r].pos /\ m.token = req[r].token
      BY <2>1, <2>2 DEF RequestRows, Pcs
    <2> HIDE DEF m
    <2>5. Placed(m, row, issued)
      BY <2>1, <2>4 DEF Placed, Working
    <2> QED BY <1>2, <2>3, <2>4, <2>5, Remembering
  <1> QED BY <1>1, <1>2 DEF Decide

-----------------------------------------------------------------------------
(* The actions of a request keep the types. *)

LEMMA AskSteps ==
  ASSUME TypeInv, NEW r \in Requests, Ask(r)
  PROVE  Stepped(r, FALSE)
  <1>1. PICK a \in Approvals, pc \in {"approve", "reject"} :
           req' = [req EXCEPT ![r].pc = pc, ![r].id = a]
    BY DEF Ask
  <1> DEFINE m == [req[r] EXCEPT !.pc = pc, !.id = a]
  <1>2. req[r] \in RequestRows /\ Placed(req[r], row, issued) /\ a \in Nat /\ req[r].pc = "idle"
    BY Typed DEF Ask
  <1>3. req' = [req EXCEPT ![r] = m]
    BY <1>1, <1>2 DEF RequestRows
  <1>4. m \in RequestRows /\ m.pc = pc /\ m.id = a /\ m.pos = req[r].pos /\ m.token = req[r].token
    BY <1>2 DEF RequestRows, Pcs
  <1> HIDE DEF m
  <1>5. Placed(m, row, issued)
    BY <1>2, <1>4 DEF Placed, Working, Approvals
  <1>6. UNCHANGED <<row, issued>>
    BY DEF Ask
  <1> QED BY <1>3, <1>4, <1>5, <1>6, Remembering

LEMMA RejectSteps ==
  ASSUME TypeInv, NEW r \in Requests, Reject(r)
  PROVE  Stepped(r, FALSE)
  <1>1. req[r].pc = "reject" /\ req[r].pos = 1
    BY Typed DEF Reject, Placed
  <1>2. CASE Decide(r, "rejected")
    BY <1>1, <1>2, Deciding
  <1>3. CASE End(r) /\ UNCHANGED <<row, issued>>
    BY <1>3, Leaving
  <1> QED BY <1>2, <1>3 DEF Reject

LEMMA ReadSteps ==
  ASSUME TypeInv, NEW r \in Requests,
         \/ ApprovePending(r) \/ ApproveExecutingDraft(r) \/ ApproveExecutingSeries(r)
         \/ ApproveSettled(r)
  PROVE  Stepped(r, FALSE)
  <1> DEFINE a == req[r].id
  <1>1. /\ req[r].pc = "approve" /\ req[r].pos = 1 /\ req[r] \in RequestRows /\ a \in Approvals
        /\ Placed(req[r], row, issued)
    BY Typed DEF ApprovePending, ApproveExecutingDraft, ApproveExecutingSeries, ApproveSettled,
                 Reads, Placed, Approvals
  <1>2. row[a].claim \in Nat /\ row[a].claim <= issued
    BY <1>1, Typed DEF TypeInv, RowsTyped, Issued, ApprovalRows
  \* It takes the claim as it finds it.
  <1>3. ASSUME NEW pc \in {"finish", "swap"}, UNCHANGED <<row, issued>>,
               pc = "finish" => row[a].kind = "draft", pc = "swap" => row[a].kind = "series",
               req' = [req EXCEPT ![r].pc = pc, ![r].token = row[a].claim]
        PROVE  Stepped(r, FALSE)
    <2> DEFINE m == [req[r] EXCEPT !.pc = pc, !.token = row[a].claim]
    <2>1. req' = [req EXCEPT ![r] = m]
      BY <1>1, <1>3 DEF RequestRows
    <2>2. /\ m \in RequestRows /\ m.pc = pc /\ m.id = a /\ m.pos = 1 /\ m.token = row[a].claim
      BY <1>1, <1>2 DEF RequestRows, Pcs
    <2> HIDE DEF m
    <2>3. Placed(m, row, issued)
      BY <1>1, <1>2, <1>3, <2>2 DEF Placed, Working
    <2> QED BY <1>3, <2>1, <2>2, <2>3, Remembering
  <1>4. CASE ApprovePending(r)
    <2>1. CASE Decide(r, "stale")
      BY <1>1, <2>1, Deciding
    <2>2. CASE Goto(r, "claim") /\ UNCHANGED <<row, issued>>
      BY <1>1, <2>2, GoingOn DEF Pcs, Working
    <2> QED BY <1>4, <2>1, <2>2 DEF ApprovePending
  <1>5. CASE ApproveExecutingDraft(r)
    <2>1. CASE \E what \in {"failed", "stale", "take"} : Decide(r, what)
      BY <1>1, <1>5, <2>1, Deciding DEF ApproveExecutingDraft
    <2>2. CASE End(r) /\ UNCHANGED <<row, issued>>
      BY <2>2, Leaving
    <2>3. CASE /\ req' = [req EXCEPT ![r].pc = "finish", ![r].token = row[a].claim]
               /\ UNCHANGED <<row, issued>>
      BY <1>3, <1>5, <2>3 DEF ApproveExecutingDraft
    <2> QED BY <1>5, <2>1, <2>2, <2>3 DEF ApproveExecutingDraft
  <1>6. CASE ApproveExecutingSeries(r)
    BY <1>3, <1>6, Leaving DEF ApproveExecutingSeries
  <1>7. CASE ApproveSettled(r)
    BY <1>7, Leaving DEF ApproveSettled
  <1> QED BY <1>4, <1>5, <1>6, <1>7

LEMMA LateSteps ==
  ASSUME TypeInv, NEW r \in Requests, Late(r)
  PROVE  Stepped(r, FALSE)
  <1>1. PICK what \in {"stale", "failed", "rejected", "take"} :
           req[r].pc = what /\ MayWrite(r, req[r].id) /\ Write(r, what, req[r].marks)
    BY DEF Late
  <1>2. req[r].pos = 1 /\ (what = "take" => row[req[r].id].kind = "draft")
    BY <1>1, Typed DEF Placed
  <1> QED BY <1>1, <1>2, Writing

\* What is remembered of a series.
LEMMA Remembered ==
  ASSUME TypeInv, NEW a \in Approvals
  PROVE  Remember(a) \in Seq(PartStates) /\ Len(Remember(a)) = Len(row[a].parts)
  <1>1. /\ Len(row[a].parts) \in Nat /\ DOMAIN row[a].parts = 1..Len(row[a].parts)
        /\ \A k \in 1..Len(row[a].parts) : row[a].parts[k] \in PartRows
    BY Typed
  <1>2. Remember(a) \in [1..Len(row[a].parts) -> PartStates]
    BY <1>1 DEF Remember, PartRows
  <1> QED BY <1>1, <1>2, SeqDef

LEMMA ClaimSteps ==
  ASSUME TypeInv, NEW r \in Requests, Claim(r) \/ Swap(r)
  PROVE  Stepped(r, FALSE)
  <1> DEFINE a == req[r].id
  <1>1. /\ req[r].pc \in {"claim", "swap"} /\ req[r].pos = 1 /\ req[r] \in RequestRows /\ a \in Approvals
        /\ Placed(req[r], row, issued) /\ MayWrite(r, a) /\ issued \in Nat
    BY Typed DEF Claim, Swap, Placed, Approvals
  <1>2. Remember(a) \in Seq(PartStates) /\ Len(Remember(a)) = Len(row[a].parts)
    <2> HIDE DEF a
    <2> QED BY <1>1, Remembered
  <1>3. ASSUME issued' = issued + 1, NEW pc \in {"recheck", "item"}, NEW mem \in Seq(PartStates),
               pc = "item" => row[a].kind = "series" /\ Len(mem) = Len(row[a].parts),
               \/ row' = [row EXCEPT ![a].claim = issued', ![a].fresh = TRUE]
               \/ row' = [row EXCEPT ![a].state = "executing", ![a].claim = issued',
                                     ![a].fresh = TRUE],
               req' = [req EXCEPT ![r] = [req[r] EXCEPT !.pc = pc, !.token = issued', !.mem = mem]]
        PROVE  Stepped(r, FALSE)
    <2>1. /\ RowsTyped' /\ Progress(FALSE) /\ row'[a].parts = row[a].parts
          /\ \A b \in Approvals : b # a => row'[b] = row[b]
      <3> HIDE DEF a
      <3> QED BY <1>1, <1>3, Claiming
    <2>2. Polite(r)
      BY <1>1, <2>1, Alone
    <2> DEFINE m == [req[r] EXCEPT !.pc = pc, !.token = issued', !.mem = mem]
    <2>3. issued' \in Nat /\ issued' # NoToken
      <3>1. issued' = issued + 1 /\ issued \in Nat
        BY <1>1, <1>3
      <3> QED BY <3>1 DEF NoToken
    <2>4. /\ m \in RequestRows /\ req' = [req EXCEPT ![r] = m] /\ m.pc = pc /\ m.id = a
          /\ m.pos = 1 /\ m.token = issued' /\ m.mem = mem
      BY <1>1, <1>3, <2>3 DEF RequestRows, Pcs
    <2> HIDE DEF m
    <2>5. a \in DOMAIN row' /\ row'[a].kind = row[a].kind /\ Len(row'[a].parts) \in Nat \ {0}
          /\ Len(row'[a].parts) = Len(row[a].parts)
      <3> HIDE DEF a
      <3>1. Len(row[a].parts) \in Nat \ {0}
        BY <1>1, Typed DEF TypeInv, RowsTyped, Sized
      <3> QED BY <1>1, <2>1, <3>1 DEF Progress, Kept
    <2> HIDE DEF a
    <2>6. Placed(m, row', issued')
      BY <1>3, <2>3, <2>4, <2>5 DEF Placed
    <2> QED BY <2>1, <2>2, <2>4, <2>6 DEF Stepped
  <1>4. CASE Claim(r)
    <2>1. CASE /\ issued' = issued + 1
               /\ row' = [row EXCEPT ![a].state = "executing", ![a].claim = issued',
                                     ![a].fresh = TRUE]
               /\ req' = [req EXCEPT ![r].pc = "recheck", ![r].token = issued']
      <3>1. req' = [req EXCEPT ![r] = [req[r] EXCEPT !.pc = "recheck", !.token = issued',
                                                      !.mem = req[r].mem]]
        BY <1>1, <2>1 DEF RequestRows
      <3>2. req[r].mem \in Seq(PartStates)
        BY <1>1 DEF RequestRows
      <3> QED BY <1>3, <2>1, <3>1, <3>2
    <2>2. CASE Goto(r, "approve") /\ UNCHANGED <<row, issued>>
      BY <1>1, <2>2, GoingOn DEF Pcs, Working
    <2> QED BY <1>4, <2>1, <2>2 DEF Claim
  <1>5. CASE Swap(r)
    <2>1. CASE /\ issued' = issued + 1
               /\ row' = [row EXCEPT ![a].claim = issued', ![a].fresh = TRUE]
               /\ req' = [req EXCEPT ![r].pc = "item", ![r].token = issued', ![r].mem = Remember(a)]
      <3>1. req' = [req EXCEPT ![r] = [req[r] EXCEPT !.pc = "item", !.token = issued',
                                                      !.mem = Remember(a)]]
        BY <1>1, <2>1 DEF RequestRows
      <3>2. row[a].kind = "series"
        BY <1>1, <1>5 DEF Placed, Swap
      <3> QED BY <1>2, <1>3, <2>1, <3>1, <3>2
    <2>2. CASE End(r) /\ UNCHANGED <<row, issued>>
      BY <2>2, Leaving
    <2> QED BY <1>5, <2>1, <2>2 DEF Swap
  <1> QED BY <1>4, <1>5

LEMMA RecheckSteps ==
  ASSUME TypeInv, NEW r \in Requests, Recheck(r)
  PROVE  Stepped(r, FALSE)
  <1> DEFINE a == req[r].id
  <1>1. /\ req[r].pc = "recheck" /\ req[r].pos = 1 /\ req[r] \in RequestRows /\ a \in Approvals
        /\ Placed(req[r], row, issued) /\ UNCHANGED <<row, issued>>
    BY Typed DEF Recheck, Placed, Approvals
  <1>2. Remember(a) \in Seq(PartStates) /\ Len(Remember(a)) = Len(row[a].parts)
        /\ Len(row[a].parts) \in Nat \ {0} /\ row[a].kind \in {"draft", "series"}
    <2> HIDE DEF a
    <2>1. Remember(a) \in Seq(PartStates) /\ Len(Remember(a)) = Len(row[a].parts)
      BY <1>1, Remembered
    <2>2. row[a] \in ApprovalRows /\ Sized(row[a]) /\ Drafts \in Nat
      BY <1>1, Typed DEF TypeInv, RowsTyped
    <2> QED BY <2>1, <2>2 DEF Sized, ApprovalRows
  <1>3. CASE Later(r, "stale")
    <2>1. StaleParts(a) \in SUBSET Nat
      <3> HIDE DEF a
      <3> QED BY <1>1, StaleMarks
    <2> DEFINE marks == StaleParts(a)
               m == [req[r] EXCEPT !.pc = "stale", !.marks = marks]
    <2>2. req' = [req EXCEPT ![r] = m]
      BY <1>1, <1>3 DEF Later, Marks, RequestRows
    <2> HIDE DEF marks
    <2>3. m \in RequestRows /\ m.pc = "stale" /\ m.id = a /\ m.pos = 1 /\ m.token = req[r].token
      BY <1>1, <2>1 DEF RequestRows, Pcs, marks
    <2> HIDE DEF m
    <2>4. Placed(m, row, issued)
      BY <1>1, <2>3 DEF Placed, Working
    <2> QED BY <1>1, <2>2, <2>3, <2>4, Remembering
  <1>4. CASE Execute(r)
    <2> DEFINE pc == IF row[a].kind = "series" THEN "item" ELSE "fence"
               mem == Remember(a)
               m == [req[r] EXCEPT !.pc = pc, !.mem = mem]
    <2>1. req' = [req EXCEPT ![r] = m]
      BY <1>1, <1>4 DEF Execute, RequestRows
    <2>2. pc \in {"item", "fence"} /\ (pc = "item" <=> row[a].kind = "series")
      OBVIOUS
    <2> HIDE DEF mem, pc
    <2>3. /\ m \in RequestRows /\ m.pc = pc /\ m.id = a /\ m.pos = 1 /\ m.token = req[r].token
          /\ m.mem = mem
      BY <1>1, <1>2, <2>2 DEF RequestRows, Pcs, mem
    <2> HIDE DEF m
    <2>4. Placed(m, row, issued)
      BY <1>1, <1>2, <2>2, <2>3 DEF Placed, Working, mem
    <2> QED BY <1>1, <2>1, <2>3, <2>4, Remembering
  <1> QED BY <1>3, <1>4 DEF Recheck

\* It goes on to the next part.
LEMMA Advancing ==
  ASSUME TypeInv, NEW r \in Requests, req' = Advance(r), row[req[r].id].kind = "series",
         req[r].pc \in {"item", "settle"}, req[r].pos <= Len(row[req[r].id].parts)
  PROVE  LET m == [req[r] EXCEPT !.pc = "item", !.pos = req[r].pos + 1, !.done = req[r].done + 1]
         IN  /\ m \in RequestRows /\ req' = [req EXCEPT ![r] = m] /\ Placed(m, row, issued)
             /\ m.pc = "item" /\ m.id = req[r].id /\ m.pos = req[r].pos + 1
             /\ m.token = req[r].token /\ m.mem = req[r].mem
  <1> DEFINE a == req[r].id
             pos == req[r].pos + 1
             done == req[r].done + 1
             m == [req[r] EXCEPT !.pc = "item", !.pos = pos, !.done = done]
  <1>1. req[r] \in RequestRows /\ Placed(req[r], row, issued)
    BY Typed
  <1>2. a \in Approvals /\ Len(row[a].parts) \in Nat
    BY <1>1, Typed DEF Placed, Approvals
  <1>3. req[r].pos \in Nat /\ req[r].done \in Nat
    BY <1>1 DEF RequestRows
  <1>4. pos \in Nat \ {0} /\ done \in Nat /\ pos <= Len(row[a].parts) + 1
    <2>1. req[r].pos <= Len(row[a].parts)
      OBVIOUS
    <2> QED BY <1>2, <1>3, <2>1, SMTT(30)
  <1>5. req' = [req EXCEPT ![r] = m]
    BY <1>1 DEF Advance, RequestRows
  <1> HIDE DEF pos, done
  <1>6. /\ m \in RequestRows /\ m.pc = "item" /\ m.id = a /\ m.pos = pos
        /\ m.token = req[r].token /\ m.mem = req[r].mem
    BY <1>1, <1>4 DEF RequestRows, Pcs
  <1> HIDE DEF m
  <1>7. Placed(m, row, issued)
    BY <1>1, <1>4, <1>6 DEF Placed, Working
  <1> QED BY <1>5, <1>6, <1>7 DEF m, pos, done

LEMMA ItemSteps ==
  ASSUME TypeInv, NEW r \in Requests, Item(r)
  PROVE  Stepped(r, FALSE)
  <1> DEFINE a == req[r].id
             k == req[r].pos
  <1>1. /\ req[r].pc = "item" /\ k <= Len(row[a].parts) /\ req[r] \in RequestRows
        /\ Placed(req[r], row, issued) /\ UNCHANGED <<row, issued>>
    BY Typed DEF Item
  <1>2. row[a].kind = "series" /\ Len(req[r].mem) = Len(row[a].parts) /\ req[r].token # NoToken
    BY <1>1 DEF Placed, Working
  <1>3. CASE req' = Advance(r)
    BY <1>1, <1>2, <1>3, Advancing, Remembering
  <1>4. CASE \E pc \in {"settle", "mark", "fence"} : Goto(r, pc)
    BY <1>1, <1>2, <1>4, GoingOn DEF Pcs
  <1>5. ASSUME NEW state \in {"failed", "stale"}, NEW done \in {0, 1},
               req' = [req EXCEPT ![r].pc = "fail", ![r].verdict = state, ![r].done = @ + done]
        PROVE  Stepped(r, FALSE)
    <2> DEFINE sum == req[r].done + done
               m == [req[r] EXCEPT !.pc = "fail", !.verdict = state, !.done = sum]
    <2>0. sum \in Nat
      BY <1>1 DEF RequestRows
    <2> HIDE DEF sum
    <2>a. req' = [req EXCEPT ![r].pc = "fail", ![r].verdict = state, ![r].done = sum]
      BY <1>5 DEF sum
    <2>1. req' = [req EXCEPT ![r] = m] /\ sum \in Nat
      BY <1>1, <2>0, <2>a DEF RequestRows
    <2>2. /\ m \in RequestRows /\ m.pc = "fail" /\ m.id = a /\ m.pos = k
          /\ m.token = req[r].token /\ m.verdict = state
      BY <1>1, <2>1 DEF RequestRows, Pcs
    <2> HIDE DEF m
    <2>3. Placed(m, row, issued)
      BY <1>1, <1>2, <2>2 DEF Placed, Working
    <2> QED BY <1>1, <2>1, <2>2, <2>3, Remembering
  <1>6. CASE End(r)
    BY <1>1, <1>6, Leaving
  <1> QED BY <1>1, <1>3, <1>4, <1>5, <1>6 DEF Item

LEMMA MarkSteps ==
  ASSUME TypeInv, NEW r \in Requests, MarkPart(r)
  PROVE  Stepped(r, FALSE)
  <1> DEFINE a == req[r].id
             k == req[r].pos
             mem == [req[r].mem EXCEPT ![k] = "executing"]
             m == [req[r] EXCEPT !.pc = "fence", !.mem = mem]
  <1>1. /\ req[r] \in RequestRows /\ Placed(req[r], row, issued) /\ req[r].pc = "mark"
        /\ UNCHANGED issued /\ row' = [row EXCEPT ![a].parts[k].state = "executing"]
    BY Typed DEF MarkPart
  <1>2. /\ a \in Approvals /\ row[a].kind = "series" /\ k \in 1..Len(row[a].parts)
        /\ req[r].mem \in Seq(PartStates) /\ Len(req[r].mem) = Len(row[a].parts)
        /\ req[r].token # NoToken
    BY <1>1, Typed DEF Placed, Approvals, RequestRows, Working
  <1>3. /\ RowsTyped' /\ Progress(FALSE)
        /\ \A b \in Approvals : row'[b].state = row[b].state /\ row'[b].claim = row[b].claim
    <2> HIDE DEF a, k
    <2> QED BY <1>1, <1>2, PartStep
  <1>4. Polite(r)
    BY <1>3 DEF Polite
  <1>5. mem \in Seq(PartStates) /\ Len(mem) = Len(row[a].parts)
    <2>1. "executing" \in PartStates
      BY DEF PartStates
    <2> QED BY <1>2, <2>1, ExceptSeq
  <1>6. req' = [req EXCEPT ![r] = m]
    BY <1>1 DEF MarkPart, RequestRows
  <1> HIDE DEF mem
  <1>7. /\ m \in RequestRows /\ m.pc = "fence" /\ m.id = a /\ m.pos = k
        /\ m.token = req[r].token /\ m.mem = mem
    BY <1>1, <1>5 DEF RequestRows, Pcs
  <1> HIDE DEF m
  <1>8. a \in DOMAIN row' /\ row'[a].kind = "series" /\ Len(row'[a].parts) = Len(row[a].parts)
    BY <1>2, <1>3 DEF Progress, Kept
  <1>9. Placed(m, row', issued')
    BY <1>1, <1>2, <1>5, <1>7, <1>8 DEF Placed
  <1> QED BY <1>3, <1>4, <1>6, <1>7, <1>9 DEF Stepped

LEMMA FailSteps ==
  ASSUME TypeInv, NEW r \in Requests, Fail(r)
  PROVE  Stepped(r, FALSE)
  <1>1. /\ req[r] \in RequestRows /\ Placed(req[r], row, issued) /\ req[r].pc = "fail"
        /\ MayWrite(r, req[r].id) /\ Failed(r, req[r].verdict) /\ End(r) /\ UNCHANGED issued
    BY Typed DEF Fail
  <1>2. /\ req[r].id \in Approvals /\ req[r].pos \in 1..Len(row[req[r].id].parts)
        /\ req[r].verdict \in {"failed", "stale"}
    BY <1>1, Typed DEF Placed, Approvals, RequestRows
  <1>3. RowsTyped' /\ Progress(FALSE)
    BY <1>1, <1>2, Failing
  <1>4. \A b \in Approvals : b # req[r].id => row'[b] = row[b]
    BY <1>1 DEF Approvals, Failed
  <1> QED BY <1>1, <1>3, <1>4, Alone, Ending

LEMMA FenceSteps ==
  ASSUME TypeInv, NEW r \in Requests, Fence(r)
  PROVE  Stepped(r, FALSE)
  <1> DEFINE a == req[r].id
  <1>1. /\ req[r] \in RequestRows /\ Placed(req[r], row, issued) /\ req[r].pc = "fence"
        /\ MayFence(r) /\ UNCHANGED issued
    BY Typed DEF Fence
  <1>2. a \in Approvals /\ req[r].pos \in 1..Len(row[a].parts) /\ req[r].token # NoToken
    BY <1>1, Typed DEF Placed, Approvals, RequestRows, Working
  <1>3. CASE End(r) /\ UNCHANGED row
    BY <1>1, <1>3, Leaving
  <1>4. CASE Goto(r, "queue") /\ UNCHANGED row
    <2>1. /\ row[a].kind = "series" => Len(req[r].mem) = Len(row[a].parts)
          /\ req[r].pos <= Len(row[a].parts)
      BY <1>1 DEF Placed
    <2> QED BY <1>1, <1>2, <1>4, <2>1, GoingOn DEF Pcs
  <1>5. CASE End(r) /\ (Conclude(a, "stale") \/ Failed(r, "stale"))
    <2>1. RowsTyped' /\ Progress(FALSE)
      <3>1. CASE Conclude(a, "stale")
        <4>1. "stale" \in States \ {"pending_review", "executing"}
          BY DEF States
        <4> HIDE DEF a
        <4> QED BY <1>1, <1>2, <3>1, <4>1, Concluding
      <3>2. CASE Failed(r, "stale")
        BY <1>1, <1>2, <3>2, Failing
      <3> QED BY <1>5, <3>1, <3>2
    <2>2. \A b \in Approvals : b # a => row'[b] = row[b]
      BY <1>2, <1>5 DEF Approvals, Failed, Conclude
    <2> QED BY <1>1, <1>5, <2>1, <2>2, Alone, Ending DEF MayFence
  <1> QED BY <1>3, <1>4, <1>5 DEF Fence

LEMMA QueueSteps ==
  ASSUME TypeInv, NEW r \in Requests, Queue(r)
  PROVE  Stepped(r, FALSE)
  <1>1. /\ req[r] \in RequestRows /\ Placed(req[r], row, issued) /\ req[r].pc = "queue"
        /\ UNCHANGED <<row, issued>>
    BY Typed DEF Queue
  <1>2. req[r].id \in Approvals /\ row[req[r].id].kind \in {"draft", "series"} /\ req[r].token # NoToken
    BY <1>1, Typed DEF Placed, Approvals, ApprovalRows, Working
  <1>3. CASE row[req[r].id].kind = "draft" /\ Goto(r, "finish")
    BY <1>1, <1>2, <1>3, GoingOn DEF Pcs, Placed, Working
  <1>4. CASE row[req[r].id].kind = "series" /\ Goto(r, "settle")
    BY <1>1, <1>2, <1>4, GoingOn DEF Pcs, Placed
  <1> QED BY <1>2, <1>3, <1>4 DEF Queue

LEMMA SettleSteps ==
  ASSUME TypeInv, NEW r \in Requests, Settle(r)
  PROVE  Stepped(r, FALSE)
  <1> DEFINE a == req[r].id
             k == req[r].pos
  <1>1. /\ req[r] \in RequestRows /\ Placed(req[r], row, issued) /\ req[r].pc = "settle"
        /\ UNCHANGED issued /\ MayWrite(r, a)
    BY Typed DEF Settle
  <1>2. a \in Approvals /\ k \in 1..Len(row[a].parts) /\ row[a].kind = "series"
    BY <1>1, Typed DEF Placed, Approvals, RequestRows
  <1>3. CASE /\ row' = [row EXCEPT ![a].parts[k].state = "executed"]
             /\ req' = Advance(r)
    <2>1. /\ RowsTyped' /\ Progress(FALSE)
          /\ \A b \in Approvals : row'[b].state = row[b].state /\ row'[b].claim = row[b].claim
      <3> HIDE DEF a, k
      <3> QED BY <1>1, <1>2, <1>3, PartStep
    <2>2. Polite(r)
      BY <2>1 DEF Polite
    <2> DEFINE m == [req[r] EXCEPT !.pc = "item", !.pos = req[r].pos + 1, !.done = req[r].done + 1]
    <2>3. /\ m \in RequestRows /\ req' = [req EXCEPT ![r] = m] /\ Placed(m, row, issued)
          /\ m.id = a /\ m.pc = "item"
      <3>1. k <= Len(row[a].parts)
        BY <1>1 DEF Placed
      <3> QED BY <1>1, <1>2, <1>3, <3>1, Advancing
    <2> HIDE DEF m
    <2>4. a \in DOMAIN row' /\ row'[a].kind = "series" /\ Len(row'[a].parts) = Len(row[a].parts)
      BY <1>2, <2>1 DEF Progress, Kept
    <2>5. Placed(m, row', issued')
      BY <1>1, <1>2, <2>3, <2>4 DEF Placed
    <2> QED BY <2>1, <2>2, <2>3, <2>5 DEF Stepped
  <1>4. CASE End(r) /\ UNCHANGED row
    BY <1>1, <1>4, Leaving
  <1> QED BY <1>3, <1>4 DEF Settle

LEMMA FinishSteps ==
  ASSUME TypeInv, NEW r \in Requests, Finish(r)
  PROVE  Stepped(r, Owns(r))
  <1> DEFINE a == req[r].id
  <1>1. /\ req[r] \in RequestRows /\ Placed(req[r], row, issued) /\ a \in Approvals
        /\ UNCHANGED issued /\ MayWrite(r, a) /\ End(r)
    BY Typed DEF Finish, Finished, Placed, Approvals
  <1>2. CASE Owns(r) /\ Conclude(a, "executed")
    <2>1. RowsTyped' /\ Progress(TRUE)
      <3>1. "executed" \in States \ {"pending_review", "executing"}
        BY DEF States
      <3> HIDE DEF a
      <3> QED BY <1>1, <1>2, <3>1, Concluding
    <2>2. \A b \in Approvals : b # a => row'[b] = row[b]
      BY <1>1, <1>2 DEF Approvals, Conclude
    <2>3. Stepped(r, TRUE)
      BY <1>1, <2>1, <2>2, Alone, Ending
    <2> QED BY <1>2, <2>3 DEF Stepped, Progress, Kept
  <1>3. CASE ~Owns(r) /\ UNCHANGED row
    <2>1. Stepped(r, FALSE)
      BY <1>1, <1>3, Leaving
    <2> QED BY <1>3, <2>1 DEF Stepped, Progress, Kept
  <1> QED BY <1>2, <1>3 DEF Finish

\* Every step of a request is one; it finishes an approval only under its own claim.
LEMMA RequestSteps ==
  ASSUME TypeInv, NEW r \in Requests, Ask(r) \/ Reject(r) \/ Approve(r) \/ Proceed(r) \/ Die(r)
  PROVE  Stepped(r, Finish(r) /\ Owns(r))
  <1>1. CASE Finish(r)
    <2>1. Stepped(r, Owns(r))
      BY <1>1, FinishSteps
    <2> QED BY <1>1, <2>1 DEF Stepped, Progress, Kept
  <1>2. CASE ~Finish(r)
    <2>1. Stepped(r, FALSE)
      BY <1>2, AskSteps, RejectSteps, ReadSteps, LateSteps, ClaimSteps, RecheckSteps, ItemSteps,
         MarkSteps, FailSteps, FenceSteps, QueueSteps, SettleSteps, Leaving DEF Approve, Proceed, Die
    <2> QED BY <1>2, <2>1 DEF Stepped, Progress, Kept
  <1> QED BY <1>1, <1>2

-----------------------------------------------------------------------------
(* The owner's steps, the schedule entries, and the types together. *)

\* A step that is not a request's: claims stay what they are, and so do approvals.
Aside ==
    /\ RowsTyped' /\ Progress(FALSE) /\ UNCHANGED req
    /\ \A b \in Approvals : row'[b].state = row[b].state /\ row'[b].claim = row[b].claim

LEMMA Proposing ==
  ASSUME TypeInv, NEW kind \in {"draft", "series"}, NEW parts \in Seq(PartRows),
         Len(parts) \in 1..Drafts, kind = "draft" => Len(parts) = 1,
         row' = Append(row, Proposal(kind, parts)), UNCHANGED <<req, issued>>
  PROVE  Aside
  <1> DEFINE new == Proposal(kind, parts)
  <1>1. /\ issued \in Nat /\ row \in Seq(ApprovalRows) /\ Approvals = 1..Len(row) /\ Len(row) \in Nat
        /\ zone \in Nat
    BY Typed DEF TypeInv, RowsTyped, WorldTyped
  <1>2. /\ new \in ApprovalRows /\ new.claim = 0 /\ new.kind = kind /\ new.parts = parts
        /\ new.state = "pending_review"
    BY <1>1 DEF Proposal, ApprovalRows, States, NoToken
  <1> HIDE DEF new
  <1>3. row' = Append(row, new)
    BY DEF new
  <1>4. /\ row' \in Seq(ApprovalRows) /\ Len(row') = Len(row) + 1 /\ DOMAIN row' = 1..(Len(row) + 1)
        /\ row'[Len(row) + 1] = new /\ \A b \in Approvals : row'[b] = row[b]
    BY <1>1, <1>2, <1>3, AppendProperties
  <1>5. Sized(new) /\ Issued(new, issued)
    BY <1>1, <1>2 DEF Sized, Issued
  <1>6. RowsTyped'
    <2>1. \A b \in DOMAIN row' : Sized(row'[b]) /\ Issued(row'[b], issued)
      BY <1>1, <1>4, <1>5 DEF TypeInv, RowsTyped
    <2> QED BY <1>1, <1>4, <2>1 DEF RowsTyped, Approvals
  <1>7. Progress(FALSE)
    <2>1. \A b \in Approvals : Kept(row[b], row'[b], issued, FALSE)
      BY <1>4 DEF Kept
    <2>2. \A b \in DOMAIN row' \ Approvals : row'[b].state = "pending_review"
      BY <1>1, <1>2, <1>4
    <2>3. Approvals \subseteq DOMAIN row' /\ issued' \in {issued, issued + 1}
      BY <1>1, <1>4
    <2> QED BY <2>1, <2>2, <2>3 DEF Progress
  <1> QED BY <1>4, <1>6, <1>7 DEF Aside

\* The owner's steps and the clock's.
Outside ==
    \/ \E c \in Items : Edit(c) \/ OwnerSchedules(c) \/ \E rev \in 1..revision[c] : ProposeDraft(c, rev)
    \/ ProposeSeries \/ Shift
    \/ \E s \in Entries : OwnerChanges(s)
    \/ \E a \in Approvals : Expire(a) \/ Outlive(a)

LEMMA OutsideSteps ==
  ASSUME TypeInv, Outside
  PROVE  Aside
  <1>1. /\ \A c \in Items : revision[c] \in Nat /\ revision[c] \in 1..(changes + 1)
        /\ "pending" \in PartStates /\ Drafts \in Nat \ {0} /\ issued \in Nat /\ Items = 1..Drafts
    BY DraftApprovalAssumption DEF TypeInv, WorldTyped, RowsTyped, PartStates, Items
  <1>2. CASE UNCHANGED <<row, issued, req>>
    BY <1>2, RowsUnchanged DEF Aside
  <1>3. ASSUME NEW c \in Items, NEW rev \in 1..revision[c], ProposeDraft(c, rev)
        PROVE  Aside
    <2>1. rev \in Nat
      BY <1>1, <1>3
    <2>2. Part(c, rev) \in PartRows
      BY <1>1, <2>1 DEF Part, PartRows
    <2> DEFINE parts == <<Part(c, rev)>>
    <2>3. parts \in Seq(PartRows) /\ Len(parts) = 1
      BY <2>2
    <2>4. row' = Append(row, Proposal("draft", parts)) /\ UNCHANGED <<req, issued>>
      BY <1>3 DEF ProposeDraft
    <2> HIDE DEF parts
    <2>5. Len(parts) \in 1..Drafts
      BY <1>1, <2>3
    <2> QED BY <2>3, <2>4, <2>5, Proposing
  <1>4. CASE ProposeSeries
    <2> DEFINE parts == [c \in Items |-> Part(c, revision[c])]
    <2>1. parts \in [1..Drafts -> PartRows]
      BY <1>1 DEF Part, PartRows
    <2>2. parts \in Seq(PartRows) /\ Len(parts) = Drafts
      BY <1>1, <2>1, SeqDef
    <2>3. row' = Append(row, Proposal("series", parts)) /\ UNCHANGED <<req, issued>>
      BY <1>4 DEF ProposeSeries
    <2> HIDE DEF parts
    <2> QED BY <1>1, <2>2, <2>3, Proposing
  <1>5. ASSUME NEW a \in Approvals, Expire(a) \/ Outlive(a)
        PROVE  Aside
    <2> DEFINE next == [row[a] EXCEPT !.fresh = FALSE]
    <2>1. row[a] \in ApprovalRows /\ row[a].claim \in Nat /\ row[a].claim <= issued
      BY Typed DEF TypeInv, RowsTyped, Issued, ApprovalRows
    <2>2. row' = [row EXCEPT ![a] = next] /\ UNCHANGED <<req, issued>>
      BY <1>5, <2>1 DEF Expire, Outlive
    <2>3. /\ next \in ApprovalRows /\ next.kind = row[a].kind /\ next.parts = row[a].parts
          /\ next.state = row[a].state /\ next.claim = row[a].claim
      BY <2>1 DEF ApprovalRows
    <2> HIDE DEF next
    <2>4. Kept(row[a], next, issued, FALSE) /\ Issued(next, issued')
      BY <2>1, <2>2, <2>3 DEF Kept, Issued
    <2>5. RowsTyped' /\ Progress(FALSE)
      BY <1>1, <2>2, <2>3, <2>4, RowReplaced
    <2>6. \A b \in Approvals : row'[b].state = row[b].state /\ row'[b].claim = row[b].claim
      BY <2>2, <2>3 DEF Approvals
    <2> QED BY <2>2, <2>5, <2>6 DEF Aside
  <1> QED BY <1>2, <1>3, <1>4, <1>5 DEF Outside, Edit, OwnerSchedules, Shift, OwnerChanges

\* What becomes of the schedule entries: nothing, a change of one, one of the owner's, or one
\* that a request commits.
EntryStep ==
    \/ UNCHANGED entry
    \/ \E s \in Entries : \/ entry' = [entry EXCEPT ![s].live = FALSE]
                          \/ entry' = [entry EXCEPT ![s].moved = TRUE]
    \/ \E c \in Items : entry' = Append(entry, Entry(Part(c, revision[c]), Owner))
    \/ \E r \in Requests : Queue(r)

RequestStep(r) == Ask(r) \/ Reject(r) \/ Approve(r) \/ Proceed(r) \/ Die(r)

\* Only who commits writes the schedule.
LEMMA OnlyQueue ==
  ASSUME NEW r \in Requests, RequestStep(r)
  PROVE  Queue(r) \/ UNCHANGED entry
  BY DEF RequestStep, Ask, Reject, Approve, Proceed, Die, ApprovePending, ApproveExecutingDraft,
         ApproveExecutingSeries, ApproveSettled, Claim, Recheck, Swap, Late, Item, MarkPart, Fail,
         Fence, Settle, Finish

LEMMA EntrySteps ==
  ASSUME Next
  PROVE  EntryStep
  <1>1. CASE Outside
    <2>1. CASE \E c \in Items : OwnerSchedules(c)
      BY <2>1 DEF OwnerSchedules, EntryStep
    <2>2. CASE \E s \in Entries : OwnerChanges(s)
      BY <2>2 DEF OwnerChanges, EntryStep
    <2>3. CASE UNCHANGED entry
      BY <2>3 DEF EntryStep
    <2> QED BY <1>1, <2>1, <2>2, <2>3 DEF Outside, Edit, ProposeDraft, ProposeSeries, Shift, Expire,
                                          Outlive
  <1>2. ASSUME NEW r \in Requests, RequestStep(r)
        PROVE  EntryStep
    BY <1>2, OnlyQueue DEF EntryStep
  <1> QED BY <1>1, <1>2 DEF Next, Outside, RequestStep

\* Entries are added at the end, and of an entry only its life and its place change.
EntriesKept ==
    /\ Len(entry') >= Len(entry)
    /\ \A s \in Entries : /\ entry'[s].by = entry[s].by /\ entry'[s].item = entry[s].item
                          /\ entry'[s].revision = entry[s].revision
                          /\ entry'[s].live => entry[s].live

\* An entry is added.
LEMMA Filing ==
  ASSUME TypeInv, NEW e \in EntryRows, entry' = Append(entry, e)
  PROVE  /\ entry' \in Seq(EntryRows) /\ EntriesKept
         /\ DOMAIN entry' = 1..(Len(entry) + 1) /\ entry'[Len(entry) + 1] = e
         /\ \A s \in Entries : entry'[s] = entry[s]
  <1>1. entry \in Seq(EntryRows) /\ Entries = 1..Len(entry) /\ Len(entry) \in Nat
    BY Typed DEF TypeInv, EntriesTyped
  <1>2. /\ entry' \in Seq(EntryRows) /\ Len(entry') = Len(entry) + 1
        /\ entry'[Len(entry) + 1] = e /\ \A s \in Entries : entry'[s] = entry[s]
    BY <1>1, AppendProperties
  <1> QED BY <1>1, <1>2 DEF EntriesKept

\* An entry is changed.
LEMMA Touching ==
  ASSUME TypeInv, NEW s \in Entries,
         \/ entry' = [entry EXCEPT ![s].live = FALSE]
         \/ entry' = [entry EXCEPT ![s].moved = TRUE]
  PROVE  entry' \in Seq(EntryRows) /\ EntriesKept /\ DOMAIN entry' = Entries
  <1>1. /\ entry \in Seq(EntryRows) /\ Entries = 1..Len(entry) /\ Len(entry) \in Nat
        /\ entry[s] \in EntryRows
    BY Typed DEF TypeInv, EntriesTyped
  <1> DEFINE gone == [entry[s] EXCEPT !.live = FALSE]
             shifted == [entry[s] EXCEPT !.moved = TRUE]
  <1>2. entry' = [entry EXCEPT ![s] = gone] \/ entry' = [entry EXCEPT ![s] = shifted]
    BY <1>1 DEF EntryRows
  <1>3. /\ gone \in EntryRows /\ gone.by = entry[s].by /\ gone.item = entry[s].item
        /\ gone.revision = entry[s].revision /\ ~gone.live
    BY <1>1 DEF EntryRows
  <1>4. /\ shifted \in EntryRows /\ shifted.by = entry[s].by /\ shifted.item = entry[s].item
        /\ shifted.revision = entry[s].revision /\ shifted.live = entry[s].live
    BY <1>1 DEF EntryRows
  <1> HIDE DEF gone, shifted
  <1>5. PICK next \in EntryRows : /\ entry' = [entry EXCEPT ![s] = next] /\ next.by = entry[s].by
                                  /\ next.item = entry[s].item /\ next.revision = entry[s].revision
                                  /\ next.live => entry[s].live
    BY <1>2, <1>3, <1>4
  <1>6. entry' \in Seq(EntryRows) /\ Len(entry') = Len(entry)
    BY <1>1, <1>5, ExceptSeq
  <1>7. entry'[s] = next /\ \A t \in Entries : t # s => entry'[t] = entry[t]
    BY <1>1, <1>5
  <1> QED BY <1>1, <1>5, <1>6, <1>7 DEF EntriesKept

\* What a request commits.
LEMMA Committed ==
  ASSUME TypeInv, NEW r \in Requests, Queue(r)
  PROVE  LET e == Entry(PartOf(r), <<req[r].id, req[r].pos>>)
         IN  /\ e \in EntryRows /\ e.by = <<req[r].id, req[r].pos>> /\ e.live
             /\ e.item = PartOf(r).item /\ e.revision = PartOf(r).revision
             /\ req[r].id \in Approvals /\ req[r].pos \in 1..Len(row[req[r].id].parts)
             /\ entry' = Append(entry, e)
  <1>1. req[r] \in RequestRows /\ Placed(req[r], row, issued) /\ req[r].pc = "queue"
    BY Typed DEF Queue
  <1>2. /\ req[r].id \in Approvals /\ req[r].pos \in 1..Len(row[req[r].id].parts)
        /\ req[r].id \in Nat /\ req[r].pos \in Nat
    BY <1>1, Typed DEF Placed, Approvals, RequestRows
  <1>3. PartOf(r) \in PartRows
    BY <1>2, Typed DEF PartOf
  <1> QED BY <1>2, <1>3 DEF Entry, EntryRows, PartRows, Queue

LEMMA OwnerFiles ==
  ASSUME TypeInv, NEW c \in Items, entry' = Append(entry, Entry(Part(c, revision[c]), Owner))
  PROVE  LET e == Entry(Part(c, revision[c]), Owner)
         IN  e \in EntryRows /\ e.by = Owner /\ entry' = Append(entry, e)
  BY DEF Entry, Part, EntryRows, Owner, TypeInv, WorldTyped

LEMMA EntriesGrow ==
  ASSUME TypeInv, NEW finished \in BOOLEAN, Progress(finished), EntryStep
  PROVE  EntriesTyped' /\ EntriesKept
  <1>0. \A s \in Entries : Author(entry[s].by, row)
    BY DEF TypeInv, EntriesTyped
  <1>1. ASSUME NEW by, Author(by, row) PROVE Author(by, row')
    BY <1>1 DEF Author, Progress, Kept, Approvals
  <1>2. CASE UNCHANGED entry
    <2>1. EntriesKept
      BY <1>2, Typed DEF EntriesKept
    <2> QED BY <1>0, <1>1, <1>2, <2>1 DEF EntriesTyped, TypeInv, Entries
  <1>3. ASSUME NEW s \in Entries, \/ entry' = [entry EXCEPT ![s].live = FALSE]
                                  \/ entry' = [entry EXCEPT ![s].moved = TRUE]
        PROVE  EntriesTyped' /\ EntriesKept
    <2>1. entry' \in Seq(EntryRows) /\ EntriesKept /\ DOMAIN entry' = Entries
      BY <1>3, Touching
    <2>2. \A t \in DOMAIN entry' : Author(entry'[t].by, row')
      BY <1>0, <1>1, <2>1 DEF EntriesKept
    <2> QED BY <2>1, <2>2 DEF EntriesTyped, Entries
  <1>4. ASSUME NEW e \in EntryRows, Author(e.by, row), entry' = Append(entry, e)
        PROVE  EntriesTyped' /\ EntriesKept
    <2>1. /\ entry' \in Seq(EntryRows) /\ EntriesKept
          /\ DOMAIN entry' = 1..(Len(entry) + 1) /\ entry'[Len(entry) + 1] = e
          /\ \A s \in Entries : entry'[s] = entry[s]
      BY <1>4, Filing
    <2>2. \A t \in DOMAIN entry' : Author(entry'[t].by, row')
      BY <1>0, <1>1, <1>4, <2>1, Typed
    <2> QED BY <2>1, <2>2 DEF EntriesTyped, Entries
  <1>5. ASSUME NEW c \in Items, entry' = Append(entry, Entry(Part(c, revision[c]), Owner))
        PROVE  EntriesTyped' /\ EntriesKept
    BY <1>4, <1>5, OwnerFiles DEF Author
  <1>6. ASSUME NEW r \in Requests, Queue(r)
        PROVE  EntriesTyped' /\ EntriesKept
    <2> DEFINE e == Entry(PartOf(r), <<req[r].id, req[r].pos>>)
    <2>1. /\ e \in EntryRows /\ e.by = <<req[r].id, req[r].pos>> /\ entry' = Append(entry, e)
          /\ req[r].id \in Approvals /\ req[r].pos \in 1..Len(row[req[r].id].parts)
      BY <1>6, Committed
    <2> HIDE DEF e
    <2>2. Author(e.by, row)
      BY <2>1 DEF Author, Approvals
    <2> QED BY <1>4, <2>1, <2>2
  <1> QED BY <1>2, <1>3, <1>5, <1>6 DEF EntryStep

\* Every step is the owner's, the clock's or a request's.
LEMMA Steps ==
  ASSUME TypeInv, Next
  PROVE  /\ \/ Aside
            \/ \E r \in Requests : Stepped(r, Finish(r) /\ Owns(r))
         /\ \E finished \in BOOLEAN : Progress(finished)
  <1>1. CASE Outside
    BY <1>1, OutsideSteps DEF Aside
  <1>2. ASSUME NEW r \in Requests, Ask(r) \/ Reject(r) \/ Approve(r) \/ Proceed(r) \/ Die(r)
        PROVE  /\ Stepped(r, Finish(r) /\ Owns(r))
               /\ \E finished \in BOOLEAN : Progress(finished)
    <2>1. Stepped(r, Finish(r) /\ Owns(r))
      BY <1>2, RequestSteps
    <2>2. Progress(Finish(r) /\ Owns(r)) /\ (Finish(r) /\ Owns(r)) \in BOOLEAN
      BY <2>1 DEF Stepped
    <2> QED BY <2>1, <2>2
  <1> QED BY <1>1, <1>2 DEF Next, Outside

LEMMA WorldSteps ==
  ASSUME TypeInv, Next
  PROVE  WorldTyped'
  <1>1. /\ WorldTyped /\ MaxChanges \in Nat /\ MaxFaults \in Nat /\ changes \in Nat /\ faults \in Nat
        /\ zone \in Nat
    BY DraftApprovalAssumption DEF TypeInv, WorldTyped
  <1>2. CASE UNCHANGED <<locking, revision, zone, changes>> /\ faults' \in {faults, faults + 1}
             /\ (faults' = faults \/ faults < MaxFaults)
    BY <1>1, <1>2 DEF WorldTyped
  <1>3. CASE /\ UNCHANGED <<locking, faults>> /\ changes < MaxChanges /\ changes' = changes + 1
             /\ zone' \in {zone, zone + 1}
             /\ revision' = revision \/ \E c \in Items : revision' = [revision EXCEPT ![c] = @ + 1]
    <2>1. changes' \in 0..MaxChanges /\ zone' \in 0..changes' /\ faults' \in 0..MaxFaults
          /\ locking' \in BOOLEAN
      BY <1>1, <1>3 DEF WorldTyped
    <2>2. /\ revision' \in [Items -> Nat] /\ \A c \in Items : revision'[c] \in 1..(changes' + 1)
      BY <1>1, <1>3 DEF WorldTyped
    <2> QED BY <2>1, <2>2 DEF WorldTyped
  <1>4. CASE Outside
    <2>1. CASE ProposeSeries \/ \E c \in Items : \E rev \in 1..revision[c] : ProposeDraft(c, rev)
      BY <1>2, <2>1 DEF ProposeDraft, ProposeSeries, bounds
    <2>2. CASE \E a \in Approvals : Expire(a) \/ Outlive(a)
      BY <1>2, <2>2 DEF Expire, Outlive, bounds
    <2>3. CASE Shift \/ \E c \in Items : OwnerSchedules(c)
      BY <1>3, <2>3 DEF Shift, OwnerSchedules
    <2>4. CASE \E c \in Items : Edit(c)
      BY <1>3, <2>4 DEF Edit
    <2>5. CASE \E s \in Entries : OwnerChanges(s)
      BY <1>3, <2>5 DEF OwnerChanges
    <2> QED BY <1>4, <2>1, <2>2, <2>3, <2>4, <2>5 DEF Outside
  <1>5. ASSUME NEW r \in Requests, Ask(r) \/ Reject(r) \/ Approve(r) \/ Proceed(r) \/ Die(r)
        PROVE  WorldTyped'
    <2>1. CASE Die(r)
      BY <1>2, <2>1 DEF Die
    <2>2. CASE Ask(r) \/ Reject(r) \/ Approve(r)
      <3>1. UNCHANGED <<locking, revision, zone, changes, faults>>
        BY <2>2 DEF Ask, Reject, Approve, ApprovePending, ApproveExecutingDraft,
                    ApproveExecutingSeries, ApproveSettled, Claim, Recheck, Swap, Late, bounds
      <3> QED BY <1>2, <3>1
    <2>3. CASE Proceed(r)
      <3>1. UNCHANGED <<locking, revision, zone, changes, faults>>
        BY <2>3 DEF Proceed, Item, MarkPart, Fail, Fence, Queue, Settle, Finish, bounds
      <3> QED BY <1>2, <3>1
    <2> QED BY <1>5, <2>1, <2>2, <2>3
  <1> QED BY <1>4, <1>5 DEF Next, Outside

LEMMA TypeStart ==
  ASSUME Init
  PROVE  TypeInv
  <1>1. row \in Seq(ApprovalRows) /\ Approvals = {} /\ entry \in Seq(EntryRows) /\ Entries = {}
    BY DEF Init, Approvals, Entries
  <1>2. Idle \in RequestRows /\ Placed(Idle, row, issued)
    BY DEF Idle, RequestRows, Pcs, NoToken, PartStates, Placed, Working, Init
  <1>3. RowsTyped /\ EntriesTyped
    BY <1>1 DEF Init, RowsTyped, EntriesTyped
  <1>4. RequestsTyped
    BY <1>2 DEF Init, RequestsTyped
  <1>5. WorldTyped
    BY DraftApprovalAssumption DEF Init, WorldTyped
  <1> QED BY <1>3, <1>4, <1>5 DEF TypeInv

LEMMA TypeStep ==
  ASSUME TypeInv, [Next]_vars
  PROVE  TypeInv'
  <1>1. CASE UNCHANGED vars
    BY <1>1 DEF TypeInv, RowsTyped, EntriesTyped, RequestsTyped, WorldTyped, vars, bounds, Approvals,
                Entries
  <1>2. CASE Next
    <2>1. WorldTyped'
      BY <1>2, WorldSteps
    <2>2. EntriesTyped'
      BY <1>2, Steps, EntrySteps, EntriesGrow
    <2>3. RowsTyped' /\ RequestsTyped'
      <3>1. CASE Aside
        <4>1. RequestsTyped'
          BY <3>1, Standing, Typed DEF Aside, RequestsTyped
        <4> QED BY <3>1, <4>1 DEF Aside
      <3>2. ASSUME NEW r \in Requests, Stepped(r, Finish(r) /\ Owns(r))
            PROVE  RowsTyped' /\ RequestsTyped'
        <4>1. PICK m \in RequestRows : Placed(m, row', issued') /\ req' = [req EXCEPT ![r] = m]
          BY <3>2 DEF Stepped
        <4>2. Progress(Finish(r) /\ Owns(r)) /\ (Finish(r) /\ Owns(r)) \in BOOLEAN /\ RowsTyped'
          BY <3>2 DEF Stepped
        <4>3. PICK finished \in BOOLEAN : Progress(finished)
          BY <4>2
        <4> QED BY <4>1, <4>2, <4>3, Moved
      <3> QED BY <1>2, <3>1, <3>2, Steps
    <2> QED BY <2>1, <2>2, <2>3 DEF TypeInv
  <1> QED BY <1>1, <1>2

\* The types of the run's invariant follow.
LEMMA TypeHolds ==
  ASSUME TypeInv
  PROVE  TypeOK
  <1>1. /\ \A a \in Approvals : /\ row[a] \in ApprovalRows /\ row[a].claim <= issued
                                /\ DOMAIN row[a].parts = 1..Len(row[a].parts)
                                /\ Len(row[a].parts) \in 1..Drafts
                                /\ \A k \in 1..Len(row[a].parts) : row[a].parts[k] \in PartRows
        /\ issued \in Nat /\ MaxChanges \in Nat /\ Drafts \in Nat
    BY Typed DEF TypeInv, RowsTyped, Issued, Sized
  <1>2. \A a \in Approvals :
          /\ row[a].kind \in {"draft", "series"} /\ row[a].state \in States
          /\ row[a].claim \in 0..issued /\ row[a].fresh \in BOOLEAN
          /\ \A k \in DOMAIN row[a].parts :
                row[a].parts[k].item \in Items /\ row[a].parts[k].state \in PartStates
    <2>1. \A a \in Approvals :
            /\ row[a].kind \in {"draft", "series"} /\ row[a].state \in States
            /\ row[a].claim \in 0..issued /\ row[a].fresh \in BOOLEAN
      BY <1>1 DEF ApprovalRows
    <2>2. \A p \in PartRows : p.item \in Items /\ p.state \in PartStates
      BY DEF PartRows
    <2> QED BY <1>1, <2>1, <2>2
  <1>3. \A s \in Entries : entry[s].item \in Items /\ entry[s].live \in BOOLEAN
    BY Typed DEF EntryRows
  <1>4. ASSUME NEW r \in Requests PROVE req[r].pos \in 1..(Drafts + 1) /\ req[r].token \in 0..issued
    <2>1. /\ req[r] \in RequestRows /\ Placed(req[r], row, issued)
          /\ req[r].pos \in Nat \ {0} /\ req[r].token \in Nat
      BY Typed DEF RequestRows
    <2>2. req[r].pc \notin {"item", "mark", "fence", "queue", "settle", "fail"} => req[r].pos = 1
      BY <2>1 DEF Placed
    <2>3. req[r].pc \in {"item", "mark", "fence", "queue", "settle", "fail"} =>
             req[r].id \in Approvals /\ req[r].pos <= Len(row[req[r].id].parts) + 1
      BY <1>1, <2>1 DEF Placed, Approvals
    <2> QED BY <1>1, <2>1, <2>2, <2>3 DEF Placed
  <1>5. /\ revision \in [Items -> 1..(MaxChanges + 1)] /\ zone \in 0..MaxChanges
        /\ locking \in BOOLEAN /\ changes \in 0..MaxChanges /\ faults \in 0..MaxFaults
    BY <1>1 DEF TypeInv, WorldTyped
  <1> QED BY <1>2, <1>3, <1>4, <1>5 DEF TypeOK

\* Every variable has its type, and a request stands where its approval has a part for it: the
\* series' rows keep their number of parts, what a request remembers has as many states, and it
\* works under a token that was issued.
THEOREM TypeCorrect == Spec => []TypeOK
  <1>1. Spec => []TypeInv
    BY TypeStart, TypeStep, PTL DEF Spec
  <1> QED BY <1>1, TypeHolds, PTL

-----------------------------------------------------------------------------
(* What has been scheduled for an approval. *)

LEMMA Unmade ==
  ASSUME TypeInv, NEW a \in Nat \ {0}, NEW k, a \notin Approvals \/ k \notin 1..Len(row[a].parts)
  PROVE  MadeBy(a, k) = {}
  <1> SUFFICES ASSUME NEW s \in Entries, entry[s].by = <<a, k>> PROVE FALSE
    BY DEF MadeBy
  <1>1. Author(entry[s].by, row)
    BY DEF TypeInv, EntriesTyped
  <1>2. entry[s].by # Owner
    BY DEF Owner
  <1> QED BY <1>1, <1>2 DEF Author, Approvals

\* It only grows, and only by what a request commits for the part it is at.
LEMMA MadeGrows ==
  ASSUME TypeInv, EntryStep, NEW a \in Nat \ {0}, NEW k
  PROVE  /\ MadeBy(a, k) \subseteq MadeBy(a, k)'
         /\ \/ MadeBy(a, k)' = MadeBy(a, k)
            \/ \E r \in Requests : Queue(r) /\ req[r].id = a /\ req[r].pos = k
  <1>1. CASE UNCHANGED entry
    BY <1>1 DEF MadeBy, Entries
  <1>2. ASSUME NEW s \in Entries, \/ entry' = [entry EXCEPT ![s].live = FALSE]
                                  \/ entry' = [entry EXCEPT ![s].moved = TRUE]
        PROVE  MadeBy(a, k)' = MadeBy(a, k)
    <2>1. EntriesKept /\ DOMAIN entry' = Entries
      BY <1>2, Touching
    <2> QED BY <2>1 DEF EntriesKept, MadeBy, Entries
  <1>3. ASSUME NEW e \in EntryRows, entry' = Append(entry, e)
        PROVE  /\ MadeBy(a, k) \subseteq MadeBy(a, k)'
               /\ MadeBy(a, k)' = MadeBy(a, k) \/ e.by = <<a, k>>
    <2>1. /\ DOMAIN entry' = 1..(Len(entry) + 1) /\ entry'[Len(entry) + 1] = e
          /\ \A s \in Entries : entry'[s] = entry[s]
      BY <1>3, Filing
    <2>2. Entries = 1..Len(entry) /\ Len(entry) \in Nat
      BY Typed
    <2>3. DOMAIN entry' = Entries \cup {Len(entry) + 1}
      BY <2>1, <2>2
    <2> QED BY <2>1, <2>3 DEF MadeBy, Entries
  <1>4. ASSUME NEW c \in Items, entry' = Append(entry, Entry(Part(c, revision[c]), Owner))
        PROVE  MadeBy(a, k)' = MadeBy(a, k)
    <2> DEFINE e == Entry(Part(c, revision[c]), Owner)
    <2>1. e \in EntryRows /\ e.by = Owner /\ entry' = Append(entry, e)
      BY <1>4, OwnerFiles
    <2>2. Owner # <<a, k>>
      BY DEF Owner
    <2> HIDE DEF e
    <2> QED BY <1>3, <2>1, <2>2
  <1>5. ASSUME NEW r \in Requests, Queue(r)
        PROVE  /\ MadeBy(a, k) \subseteq MadeBy(a, k)'
               /\ MadeBy(a, k)' = MadeBy(a, k) \/ (req[r].id = a /\ req[r].pos = k)
    <2> DEFINE e == Entry(PartOf(r), <<req[r].id, req[r].pos>>)
    <2>1. /\ e \in EntryRows /\ e.by = <<req[r].id, req[r].pos>> /\ entry' = Append(entry, e)
      BY <1>5, Committed
    <2> HIDE DEF e
    <2> QED BY <1>3, <2>1
  <1> QED BY <1>1, <1>2, <1>4, <1>5 DEF EntryStep

\* What a request commits is there.
LEMMA MadeNow ==
  ASSUME TypeInv, NEW r \in Requests, Queue(r), NEW a \in Nat, NEW k \in Nat,
         req[r].id = a, req[r].pos = k
  PROVE  MadeBy(a, k)' = MadeBy(a, k) \cup {Len(entry) + 1}
  <1> DEFINE e == Entry(PartOf(r), <<req[r].id, req[r].pos>>)
  <1>1. e \in EntryRows /\ e.by = <<a, k>> /\ entry' = Append(entry, e)
    BY Committed
  <1> HIDE DEF e
  <1>2. /\ DOMAIN entry' = 1..(Len(entry) + 1) /\ entry'[Len(entry) + 1] = e
        /\ \A s \in Entries : entry'[s] = entry[s]
    BY <1>1, Filing
  <1>3. Entries = 1..Len(entry) /\ Len(entry) \in Nat
    BY Typed
  <1>4. DOMAIN entry' = Entries \cup {Len(entry) + 1}
    BY <1>2, <1>3
  <1>5. MadeBy(a, k)' = MadeBy(a, k) \cup {Len(entry) + 1}
    BY <1>1, <1>2, <1>4 DEF MadeBy, Entries
  <1> QED BY <1>5

-----------------------------------------------------------------------------
(* The ways on: how a request comes to work on an approval, and what it knows then. *)

Same(r) == req'[r].id = req[r].id /\ req'[r].pos = req[r].pos

NewToken(r) ==
    /\ issued' = issued + 1 /\ req'[r].token = issued'
    /\ row'[req[r].id].claim = issued' /\ row'[req[r].id].parts = row[req[r].id].parts

Taken(r) ==
    /\ row[req[r].id].kind = "draft" /\ req'[r].pc = "fence" /\ Same(r) /\ NewToken(r)
    /\ \/ req[r].pc = "take"
       \/ MadeBy(req[r].id, 1) = {}

Found(r) ==
    /\ row[req[r].id].kind = "draft" /\ req'[r].pc = "finish" /\ Same(r)
    /\ MadeBy(req[r].id, 1) # {} /\ UNCHANGED row

Begun(r) ==
    /\ req[r].pc = "claim" /\ row[req[r].id].state = "pending_review"
    /\ req'[r].pc = "recheck" /\ Same(r) /\ NewToken(r)

Started(r) ==
    /\ req[r].pc = "recheck" /\ Same(r) /\ req'[r].token = req[r].token /\ UNCHANGED row
    /\ req'[r].pc = IF row[req[r].id].kind = "series" THEN "item" ELSE "fence"
    /\ req'[r].mem = Remember(req[r].id)

Retaken(r) ==
    /\ req[r].pc = "swap" /\ req'[r].pc = "item" /\ Same(r) /\ NewToken(r)
    /\ req'[r].mem = Remember(req[r].id)

\* The claim and what is remembered stay what they are.
Carries(r) ==
    req'[r].id = req[r].id /\ req'[r].token = req[r].token /\ req'[r].mem = req[r].mem

\* In the loop over the parts of a series.
Passed(r) ==
    /\ req[r].pc = "item" /\ row[req[r].id].kind = "series" /\ Owns(r) /\ Carries(r)
    /\ req'[r].pc = "item" /\ req'[r].pos = req[r].pos + 1
    /\ MadeBy(req[r].id, req[r].pos) # {} /\ UNCHANGED row

Led(r) ==
    /\ req[r].pc = "item" /\ row[req[r].id].kind = "series" /\ Carries(r) /\ Same(r) /\ UNCHANGED row
    /\ Owns(r)
    /\ \/ /\ req'[r].pc = "settle" /\ req[r].mem[req[r].pos] # "pending"
          /\ MadeBy(req[r].id, req[r].pos) # {}
       \/ /\ req'[r].pc = "mark" /\ req[r].mem[req[r].pos] = "pending"
       \/ /\ req'[r].pc = "fence" /\ req[r].mem[req[r].pos] # "pending"
          /\ MadeBy(req[r].id, req[r].pos) = {}

Marked(r) ==
    /\ req[r].pc = "mark" /\ req'[r].pc = "fence" /\ Same(r) /\ req'[r].token = req[r].token
    /\ req'[r].mem = [req[r].mem EXCEPT ![req[r].pos] = "executing"]
    /\ row'[req[r].id].parts[req[r].pos].state = "executing"

Reserved(r) ==
    /\ req[r].pc = "fence" /\ req'[r].pc = "queue" /\ Carries(r) /\ Same(r) /\ UNCHANGED row
    /\ Owns(r) /\ MayFence(r) /\ ~ConflictingScheduleExists(PartOf(r)) /\ UNCHANGED entry

Filed(r) ==
    /\ Queue(r) /\ Carries(r) /\ Same(r)
    /\ req'[r].pc = IF row[req[r].id].kind = "draft" THEN "finish" ELSE "settle"

Settled(r) ==
    /\ req[r].pc = "settle" /\ row[req[r].id].kind = "series" /\ req'[r].pc = "item" /\ Carries(r)
    /\ req'[r].pos = req[r].pos + 1

\* It does not work on anything now.
Resting(r) ==
    /\ req'[r].pc \notin Working \cup {"finish"}
    /\ req'[r].pc = "take" => ~locking

Way(r) ==
    \/ Resting(r) \/ Taken(r) \/ Found(r) \/ Begun(r) \/ Started(r) \/ Retaken(r) \/ Passed(r)
    \/ Led(r) \/ Marked(r) \/ Reserved(r) \/ Filed(r) \/ Settled(r)

LEMMA Rests ==
  ASSUME TypeInv, NEW r \in Requests, End(r) \/ Later(r, "stale")
  PROVE  Resting(r)
  BY Typed DEF End, Later, Resting, Idle, Working, RequestRows

LEMMA GoesTo ==
  ASSUME TypeInv, NEW r \in Requests, NEW pc, Goto(r, pc)
  PROVE  /\ req'[r].pc = pc /\ req'[r].id = req[r].id /\ req'[r].pos = req[r].pos
         /\ req'[r].token = req[r].token /\ req'[r].mem = req[r].mem
  BY Typed DEF Goto, RequestRows

\* A write by primary key ends the request, or takes a draft's approval over.
LEMMA WriteWay ==
  ASSUME TypeInv, NEW r \in Requests, NEW what, NEW marks, Write(r, what, marks),
         req[r].id \in Approvals, what = "take" => row[req[r].id].kind = "draft",
         what = "take" => req[r].pc = "take" \/ MadeBy(req[r].id, 1) = {}
  PROVE  Resting(r) \/ Taken(r)
  <1> DEFINE a == req[r].id
  <1>1. CASE End(r)
    BY <1>1, Rests
  <1>2. CASE /\ what = "take" /\ issued' = issued + 1
             /\ row' = [row EXCEPT ![a].claim = issued', ![a].fresh = TRUE]
             /\ req' = [req EXCEPT ![r].pc = "fence", ![r].token = issued', ![r].marks = {}]
    <2>1. req'[r].pc = "fence" /\ Same(r) /\ req'[r].token = issued'
      BY <1>2, Typed DEF Same, RequestRows
    <2>2. row'[a].claim = issued' /\ row'[a].parts = row[a].parts
      <3> HIDE DEF a
      <3> QED BY <1>2, Claiming DEF a
    <2> QED BY <1>2, <2>1, <2>2 DEF Taken, NewToken
  <1> QED BY <1>1, <1>2 DEF Write

LEMMA DecideWay ==
  ASSUME TypeInv, NEW r \in Requests, NEW what \in {"stale", "failed", "rejected", "take"},
         Decide(r, what), req[r].id \in Approvals,
         what = "take" => row[req[r].id].kind = "draft" /\ MadeBy(req[r].id, 1) = {}
  PROVE  Resting(r) \/ Taken(r)
  <1>1. CASE Write(r, what, Marks(req[r].id, what))
    BY <1>1, WriteWay
  <1>2. CASE ~locking /\ Later(r, what)
    BY <1>2, Typed DEF Later, Resting, Working, RequestRows
  <1> QED BY <1>1, <1>2 DEF Decide

LEMMA ReadWays ==
  ASSUME TypeInv, NEW r \in Requests,
         \/ Ask(r) \/ Reject(r) \/ ApprovePending(r) \/ ApproveExecutingDraft(r)
         \/ ApproveExecutingSeries(r) \/ ApproveSettled(r) \/ Late(r) \/ Die(r)
  PROVE  Resting(r) \/ Taken(r) \/ Found(r)
  <1> DEFINE a == req[r].id
  <1>1. req[r] \in RequestRows /\ Placed(req[r], row, issued) /\ req \in [Requests -> RequestRows]
    BY Typed
  <1>2. req[r].pc # "idle" => a \in Approvals
    BY <1>1 DEF Placed, Approvals
  <1>3. CASE Ask(r)
    <2>1. PICK b \in Approvals, pc \in {"approve", "reject"} :
             req' = [req EXCEPT ![r].pc = pc, ![r].id = b]
      BY <1>3 DEF Ask
    <2>2. req'[r].pc = pc
      BY <1>1, <2>1 DEF RequestRows
    <2> QED BY <2>2 DEF Resting, Working
  <1>4. CASE Reject(r)
    BY <1>2, <1>4, Rests, DecideWay DEF Reject
  <1>5. CASE ApprovePending(r)
    <2>1. CASE Decide(r, "stale")
      BY <1>2, <1>5, <2>1, DecideWay DEF ApprovePending, Reads
    <2>2. CASE Goto(r, "claim")
      BY <2>2, GoesTo DEF Resting, Working
    <2> QED BY <1>5, <2>1, <2>2 DEF ApprovePending
  <1>6. CASE ApproveExecutingDraft(r)
    <2>1. CASE Matches(a, 1) /\ UNCHANGED row /\ req' = [req EXCEPT ![r].pc = "finish", ![r].token = row[a].claim]
      <3>1. MadeBy(a, 1) # {}
        BY <2>1 DEF Matches
      <3> QED BY <1>1, <1>6, <2>1, <3>1 DEF ApproveExecutingDraft, Found, Same, RequestRows
    <2>2. CASE \E what \in {"failed", "stale"} : Decide(r, what)
      BY <1>2, <1>6, <2>2, DecideWay DEF ApproveExecutingDraft, Reads
    <2>3. CASE MadeBy(a, 1) = {} /\ Decide(r, "take")
      BY <1>2, <1>6, <2>3, DecideWay DEF ApproveExecutingDraft, Reads
    <2>4. CASE End(r)
      BY <2>4, Rests
    <2> QED BY <1>6, <2>1, <2>2, <2>3, <2>4 DEF ApproveExecutingDraft
  <1>7. CASE ApproveExecutingSeries(r)
    <2>1. CASE req' = [req EXCEPT ![r].pc = "swap", ![r].token = row[a].claim]
      BY <1>1, <2>1 DEF Resting, Working, RequestRows
    <2> QED BY <1>7, <2>1, Rests DEF ApproveExecutingSeries
  <1>8. CASE ApproveSettled(r) \/ Die(r)
    BY <1>8, Rests DEF ApproveSettled, Die
  <1>9. CASE Late(r)
    <2>1. PICK what \in {"stale", "failed", "rejected", "take"} :
             req[r].pc = what /\ Write(r, what, req[r].marks)
      BY <1>9 DEF Late
    <2>2. what = "take" => row[a].kind = "draft"
      BY <1>1, <2>1 DEF Placed
    <2> QED BY <1>2, <2>1, <2>2, WriteWay
  <1> QED BY <1>3, <1>4, <1>5, <1>6, <1>7, <1>8, <1>9

LEMMA ClaimWays ==
  ASSUME TypeInv, NEW r \in Requests, Claim(r) \/ Swap(r) \/ Recheck(r)
  PROVE  Resting(r) \/ Begun(r) \/ Retaken(r) \/ Started(r)
  <1> DEFINE a == req[r].id
  <1>1. req[r] \in RequestRows /\ req \in [Requests -> RequestRows] /\ a \in Approvals
    BY Typed DEF Placed, Approvals, Claim, Swap, Recheck
  <1>2. ASSUME issued' = issued + 1,
               \/ row' = [row EXCEPT ![a].claim = issued', ![a].fresh = TRUE]
               \/ row' = [row EXCEPT ![a].state = "executing", ![a].claim = issued',
                                     ![a].fresh = TRUE]
        PROVE  row'[a].claim = issued' /\ row'[a].parts = row[a].parts
    <2> HIDE DEF a
    <2> QED BY <1>1, <1>2, Claiming
  <1>3. CASE Claim(r)
    <2>1. CASE /\ issued' = issued + 1 /\ row[a].state = "pending_review"
               /\ row' = [row EXCEPT ![a].state = "executing", ![a].claim = issued',
                                     ![a].fresh = TRUE]
               /\ req' = [req EXCEPT ![r].pc = "recheck", ![r].token = issued']
      <3>1. req'[r].pc = "recheck" /\ Same(r) /\ req'[r].token = issued'
        BY <1>1, <2>1 DEF Same, RequestRows
      <3> QED BY <1>2, <1>3, <2>1, <3>1 DEF Begun, NewToken, Claim
    <2>2. CASE Goto(r, "approve")
      BY <2>2, GoesTo DEF Resting, Working
    <2> QED BY <1>3, <2>1, <2>2 DEF Claim
  <1>4. CASE Swap(r)
    <2>1. CASE /\ issued' = issued + 1
               /\ row' = [row EXCEPT ![a].claim = issued', ![a].fresh = TRUE]
               /\ req' = [req EXCEPT ![r].pc = "item", ![r].token = issued', ![r].mem = Remember(a)]
      <3>1. /\ req'[r].pc = "item" /\ Same(r) /\ req'[r].token = issued'
            /\ req'[r].mem = Remember(a)
        BY <1>1, <2>1 DEF Same, RequestRows
      <3> QED BY <1>2, <1>4, <2>1, <3>1 DEF Retaken, NewToken, Swap
    <2>2. CASE End(r)
      BY <2>2, Rests
    <2> QED BY <1>4, <2>1, <2>2 DEF Swap
  <1>5. CASE Recheck(r)
    <2>1. CASE Later(r, "stale")
      BY <2>1, Rests
    <2>2. CASE Execute(r)
      <3>1. /\ req'[r].pc = IF row[a].kind = "series" THEN "item" ELSE "fence"
            /\ Same(r) /\ req'[r].token = req[r].token /\ req'[r].mem = Remember(a)
        BY <1>1, <2>2 DEF Execute, Same, RequestRows
      <3> QED BY <1>5, <3>1 DEF Started, Recheck
    <2> QED BY <1>5, <2>1, <2>2 DEF Recheck
  <1> QED BY <1>3, <1>4, <1>5

LEMMA AdvanceWay ==
  ASSUME TypeInv, NEW r \in Requests, req' = Advance(r)
  PROVE  req'[r].pc = "item" /\ req'[r].pos = req[r].pos + 1 /\ Carries(r)
  BY Typed DEF Advance, Carries, RequestRows

\* What is found of a part is what was made for it.
LEMMA MatchesMade ==
  ASSUME NEW a, NEW k, Matches(a, k)
  PROVE  MadeBy(a, k) # {}
  BY DEF Matches

LEMMA ItemWays ==
  ASSUME TypeInv, NEW r \in Requests, Item(r)
  PROVE  Resting(r) \/ Passed(r) \/ Led(r)
  <1> DEFINE a == req[r].id
             k == req[r].pos
  <1>1. /\ req[r] \in RequestRows /\ req \in [Requests -> RequestRows] /\ req[r].pc = "item"
        /\ row[a].kind = "series" /\ UNCHANGED row
    BY Typed DEF Placed, Item
  <1>2. ASSUME NEW state, NEW done,
               req' = [req EXCEPT ![r].pc = "fail", ![r].verdict = state, ![r].done = @ + done]
        PROVE  Resting(r)
    <2>1. req'[r].pc = "fail"
      BY <1>1, <1>2 DEF RequestRows
    <2> QED BY <2>1 DEF Resting, Working
  <1>3. CASE Owns(r) /\ Matches(a, k) /\ req' = Advance(r)
    BY <1>1, <1>3, AdvanceWay, MatchesMade DEF Passed
  <1>4. CASE Owns(r) /\ req[r].mem[k] = "executing" /\ Matches(a, k) /\ Goto(r, "settle")
    BY <1>1, <1>4, GoesTo, MatchesMade DEF Led, Carries, Same
  <1>5. CASE Owns(r) /\ req[r].mem[k] = "pending" /\ Goto(r, "mark")
    BY <1>1, <1>5, GoesTo DEF Led, Carries, Same
  <1>6. CASE Owns(r) /\ req[r].mem[k] = "executing" /\ MadeBy(a, k) = {} /\ Goto(r, "fence")
    BY <1>1, <1>6, GoesTo DEF Led, Carries, Same
  <1>7. req[r].mem[k] \in PartStates
    <2>1. /\ Placed(req[r], row, issued) /\ k \in Nat \ {0} /\ k <= Len(row[a].parts)
          /\ req[r].mem \in Seq(PartStates)
      BY <1>1, Typed DEF Item, RequestRows
    <2>2. Len(req[r].mem) = Len(row[a].parts)
      BY <1>1, <2>1 DEF Placed
    <2> QED BY <2>1, <2>2
  <1>8. CASE ~Owns(r)
    BY <1>8, Rests DEF Item
  <1>9. CASE Owns(r) /\ req[r].mem[k] = "executed"
    BY <1>2, <1>3, <1>9 DEF Item
  <1>10. CASE Owns(r) /\ req[r].mem[k] \in {"stale", "failed"}
    <2>1. req' = [req EXCEPT ![r].pc = "fail", ![r].verdict = req[r].mem[k], ![r].done = @ + 0]
      BY <1>10 DEF Item
    <2> QED BY <1>2, <2>1
  <1>11. CASE Owns(r) /\ req[r].mem[k] = "executing"
    <2>1. CASE Matches(a, k)
      BY <1>4, <1>11, <2>1 DEF Item
    <2>2. CASE ~Matches(a, k) /\ (MadeBy(a, k) # {} \/ StaleAt(a, k))
      <3>1. \E state \in {"failed", "stale"} :
               req' = [req EXCEPT ![r].pc = "fail", ![r].verdict = state, ![r].done = @ + 0]
        BY <1>11, <2>2 DEF Item
      <3> QED BY <1>2, <3>1
    <2>3. CASE ~Matches(a, k) /\ MadeBy(a, k) = {} /\ ~StaleAt(a, k)
      BY <1>6, <1>11, <2>3 DEF Item
    <2> QED BY <2>1, <2>2, <2>3
  <1>12. CASE Owns(r) /\ req[r].mem[k] = "pending"
    <2>1. Goto(r, "mark") \/ \E state \in {"stale"} :
             req' = [req EXCEPT ![r].pc = "fail", ![r].verdict = state, ![r].done = @ + 0]
      BY <1>12 DEF Item
    <2> QED BY <1>2, <1>5, <1>12, <2>1
  <1> QED BY <1>7, <1>8, <1>9, <1>10, <1>11, <1>12 DEF PartStates

LEMMA ProceedWays ==
  ASSUME TypeInv, NEW r \in Requests, MarkPart(r) \/ Fail(r) \/ Fence(r) \/ Queue(r) \/ Settle(r) \/ Finish(r)
  PROVE  Resting(r) \/ Marked(r) \/ Reserved(r) \/ Filed(r) \/ Settled(r)
  <1> DEFINE a == req[r].id
             k == req[r].pos
  <1>1. /\ req[r] \in RequestRows /\ req \in [Requests -> RequestRows] /\ Placed(req[r], row, issued)
        /\ k \in Nat \ {0}
    BY Typed DEF RequestRows
  <1>2. CASE MarkPart(r)
    <2>1. /\ req[r].pc = "mark" /\ req'[r].pc = "fence" /\ Same(r) /\ req'[r].token = req[r].token
          /\ req'[r].mem = [req[r].mem EXCEPT ![k] = "executing"]
      BY <1>1, <1>2 DEF MarkPart, Same, RequestRows
    <2>2. a \in Approvals /\ k \in 1..Len(row[a].parts)
      BY <1>1, <2>1, Typed DEF Placed, Approvals
    <2>3. row'[a].parts[k].state = "executing"
      <3>1. row' = [row EXCEPT ![a].parts[k].state = "executing"] /\ UNCHANGED issued
        BY <1>2 DEF MarkPart
      <3> HIDE DEF a, k
      <3> QED BY <2>2, <3>1, PartStep
    <2> QED BY <2>1, <2>3 DEF Marked
  <1>3. CASE Fail(r) \/ Finish(r)
    BY <1>3, Rests DEF Fail, Finish
  <1>4. CASE Fence(r)
    <2>1. CASE End(r)
      BY <2>1, Rests
    <2>2. CASE Owns(r) /\ ~ConflictingScheduleExists(PartOf(r)) /\ Goto(r, "queue") /\ UNCHANGED row
      BY <1>4, <2>2, GoesTo DEF Fence, Reserved, Carries, Same
    <2> QED BY <1>4, <2>1, <2>2 DEF Fence
  <1>5. CASE Queue(r)
    BY <1>5, GoesTo DEF Queue, Filed, Carries, Same
  <1>6. CASE Settle(r)
    <2>1. CASE End(r)
      BY <2>1, Rests
    <2>2. CASE req' = Advance(r)
      BY <1>1, <1>6, <2>2, AdvanceWay DEF Settle, Settled, Placed
    <2> QED BY <1>6, <2>1, <2>2 DEF Settle
  <1> QED BY <1>2, <1>3, <1>4, <1>5, <1>6

\* Every step of a request is one of these; what it commits is committed by it.
LEMMA Ways ==
  ASSUME TypeInv, NEW r \in Requests, Ask(r) \/ Reject(r) \/ Approve(r) \/ Proceed(r) \/ Die(r)
  PROVE  Way(r)
  BY ReadWays, ClaimWays, ItemWays, ProceedWays DEF Approve, Proceed, Way

-----------------------------------------------------------------------------
(* Whose claim it is. *)

\* No two requests work under one token, and who holds row and revision owns the approval: its
\* claim cannot be taken before it commits.
Distinct ==
    \A r, q \in Requests :
        /\ req[r].pc \in Working /\ req[q].pc \in Working /\ req[r].token = req[q].token
        => r = q

Firm == \A r \in Requests : req[r].pc = "queue" => Owns(r)

OwnInv == Distinct /\ Firm

\* A step is aside from the requests, or one of them goes its way and the others stay.
LEMMA Cases ==
  ASSUME TypeInv, Next
  PROVE  \/ Aside /\ Outside
         \/ \E r \in Requests : /\ RequestStep(r) /\ Stepped(r, Finish(r) /\ Owns(r)) /\ Way(r)
                                /\ \A q \in Requests : q # r => req'[q] = req[q]
  <1>1. CASE Outside
    BY <1>1, OutsideSteps
  <1>2. ASSUME NEW r \in Requests, RequestStep(r)
        PROVE  /\ Stepped(r, Finish(r) /\ Owns(r)) /\ Way(r)
               /\ \A q \in Requests : q # r => req'[q] = req[q]
    <2>1. Stepped(r, Finish(r) /\ Owns(r)) /\ Way(r)
      BY <1>2, RequestSteps, Ways DEF RequestStep
    <2>2. \A q \in Requests : q # r => req'[q] = req[q]
      BY <2>1, Typed DEF Stepped
    <2> QED BY <2>1, <2>2
  <1> QED BY <1>1, <1>2 DEF Next, Outside, RequestStep

\* A claim that is owned was owned.
LEMMA Owning ==
  ASSUME TypeInv, NEW finished \in BOOLEAN, Progress(finished), NEW q \in Requests,
         req[q].pc \in Working, req'[q].id = req[q].id, req'[q].token = req[q].token, Owns(q)'
  PROVE  Owns(q)
  <1> DEFINE a == req[q].id
             token == req[q].token
  <1>1. /\ a \in Approvals /\ token # NoToken /\ token \in Nat /\ token <= issued /\ issued \in Nat
    BY Typed DEF Placed, Approvals, RequestRows, Working
  <1>2. row'[a].state = "executing" /\ row'[a].claim = token
    BY DEF Owns
  <1>3. Kept(row[a], row'[a], issued, finished)
    BY <1>1 DEF Progress
  <1>4. token # issued + 1
    BY <1>1
  <1> HIDE DEF a, token
  <1>5. row[a].claim = token /\ row[a].state = "executing"
    BY <1>1, <1>2, <1>3, <1>4 DEF Kept
  <1> QED BY <1>5 DEF Owns, a, token

\* It works on under its token, or with a new one.
LEMMA Tokens ==
  ASSUME TypeInv, NEW r \in Requests, Way(r), req'[r].pc \in Working
  PROVE  \/ issued' = issued + 1 /\ req'[r].token = issued'
         \/ /\ req[r].pc \in Working
            /\ req'[r].token = req[r].token /\ req'[r].id = req[r].id
  BY DEF Way, Resting, Taken, Found, Begun, Started, Retaken, Passed, Led, Marked, Reserved, Filed,
         Settled, NewToken, Same, Carries, Working, Queue

LEMMA OwnStart ==
  ASSUME Init
  PROVE  OwnInv
  BY DEF Init, OwnInv, Distinct, Firm, Idle, Working

LEMMA OwnStep ==
  ASSUME TypeInv, OwnInv, [Next]_vars
  PROVE  OwnInv'
  <1>1. CASE UNCHANGED vars
    BY <1>1 DEF vars, OwnInv, Distinct, Firm, Owns
  <1>2. CASE Aside
    <2>1. \A r \in Requests : req[r].pc = "queue" => req[r].id \in Approvals
      BY Typed DEF Placed, Approvals
    <2> QED BY <1>2, <2>1 DEF Aside, OwnInv, Distinct, Firm, Owns
  <1>3. ASSUME NEW r \in Requests, Stepped(r, Finish(r) /\ Owns(r)), Way(r),
               \A q \in Requests : q # r => req'[q] = req[q]
        PROVE  OwnInv'
    <2>1. Distinct'
      <3> SUFFICES ASSUME NEW p \in Requests, NEW q \in Requests, p # q,
                          req'[p].pc \in Working, req'[q].pc \in Working,
                          req'[p].token = req'[q].token
                   PROVE  FALSE
        BY DEF Distinct
      <3>1. \A s \in Requests : req[s].token \in Nat /\ req[s].token <= issued /\ issued \in Nat
        BY Typed DEF Placed, RequestRows
      <3>2. \A s \in Requests : req[s].token # issued + 1
        BY <3>1
      <3>3. CASE p # r /\ q # r
        BY <1>3, <3>3 DEF OwnInv, Distinct
      <3>4. CASE p = r
        BY <1>3, <3>2, <3>4, Tokens DEF OwnInv, Distinct
      <3>5. CASE q = r
        BY <1>3, <3>2, <3>5, Tokens DEF OwnInv, Distinct
      <3> QED BY <3>3, <3>4, <3>5
    <2>2. Firm'
      <3> SUFFICES ASSUME NEW q \in Requests, req'[q].pc = "queue" PROVE Owns(q)'
        BY DEF Firm
      <3>1. CASE q = r
        <4>1. Reserved(r)
          BY <1>3, <3>1 DEF Way, Resting, Taken, Found, Begun, Started, Retaken, Passed, Led, Marked,
                            Filed, Settled, Working
        <4> QED BY <3>1, <4>1 DEF Reserved, Owns, Carries
      <3>2. CASE q # r
        <4>1. req'[q] = req[q] /\ Owns(q) /\ req[q].pc = "queue"
          BY <1>3, <3>2 DEF OwnInv, Firm
        <4>2. req[q].id \in Approvals
          BY <4>1, Typed DEF Placed, Approvals
        <4>3. ~(req[q].id = req[r].id /\ MayWrite(r, req[q].id))
          BY <3>2, <4>1 DEF MayWrite, Holding
        <4>4. row'[req[q].id].state = row[req[q].id].state
              /\ row'[req[q].id].claim = row[req[q].id].claim
          BY <1>3, <4>2, <4>3 DEF Stepped, Polite
        <4> QED BY <4>1, <4>4 DEF Owns
      <3> QED BY <3>1, <3>2
    <2> QED BY <2>1, <2>2 DEF OwnInv
  <1> QED BY <1>1, <1>2, <1>3, Cases

\* Who commits a schedule stops being about to.
LEMMA Leaves ==
  ASSUME TypeInv, NEW p \in Requests, Queue(p)
  PROVE  req'[p] # req[p]
  BY GoesTo DEF Queue

\* Whom a step does not concern, who owns its approval: nothing is scheduled for it.
LEMMA Undisturbed ==
  ASSUME TypeInv, OwnInv, EntryStep, NEW finished \in BOOLEAN, Progress(finished),
         NEW q \in Requests, req[q].pc \in Working, req'[q] = req[q], Owns(q)',
         NEW a \in Nat, a = req[q].id, NEW k
  PROVE  Owns(q) /\ MadeBy(a, k)' = MadeBy(a, k)
  <1>1. Owns(q)
    BY Owning
  <1>2. a \in Nat \ {0}
    <2>1. a \in Approvals /\ Approvals = 1..Len(row)
      BY Typed DEF Placed, Approvals, Working
    <2> QED BY <2>1
  <1>3. ASSUME NEW p \in Requests, Queue(p), req[p].id = a
        PROVE  FALSE
    <2>1. req[p].pc = "queue" /\ Owns(p)
      BY <1>3 DEF Queue, OwnInv, Firm
    <2>2. req[p].token = req[q].token
      BY <1>1, <1>3, <2>1 DEF Owns
    <2>3. p = q
      BY <2>1, <2>2 DEF OwnInv, Distinct, Working
    <2> QED BY <1>3, <2>3, Leaves
  <1> QED BY <1>1, <1>2, <1>3, MadeGrows

-----------------------------------------------------------------------------
(* One schedule for a revision of a draft. *)

Target(x) == <<x.item, x.revision>>

\* Who holds a revision holds it alone, and nothing alive was scheduled for it by an approval.
HeldAlone ==
    \A r, q \in Requests :
        Holding(r) /\ Holding(q) /\ Target(PartOf(r)) = Target(PartOf(q)) => r = q

HeldFree ==
    \A r \in Requests, s \in Entries :
        Holding(r) /\ entry[s].live /\ entry[s].by # Owner => Target(entry[s]) # Target(PartOf(r))

ClearInv == HeldAlone /\ HeldFree /\ OneTarget

\* The part a request is at is the same after any step.
LEMMA PartStays ==
  ASSUME TypeInv, NEW finished \in BOOLEAN, Progress(finished), NEW q \in Requests,
         req[q].pc \in {"fence", "queue"}, Same(q)
  PROVE  Target(PartOf(q))' = Target(PartOf(q))
  <1> DEFINE a == req[q].id
             k == req[q].pos
  <1>1. /\ Placed(req[q], row, issued) /\ k \in Nat \ {0}
    BY Typed DEF RequestRows
  <1>2. a \in Approvals /\ k \in 1..Len(row[a].parts)
    BY <1>1, Typed DEF Placed, Approvals
  <1>3. Kept(row[a], row'[a], issued, finished)
    BY <1>2 DEF Progress
  <1>4. req'[q].id = a /\ req'[q].pos = k
    BY DEF Same
  <1> HIDE DEF a, k
  <1>5. /\ row'[a].parts[k].item = row[a].parts[k].item
        /\ row'[a].parts[k].revision = row[a].parts[k].revision
    BY <1>2, <1>3 DEF Kept
  <1> QED BY <1>4, <1>5 DEF Target, PartOf, a, k

\* Who holds a revision held it, or takes it now.
LEMMA Holders ==
  ASSUME TypeInv, Next, NEW q \in Requests, Holding(q)'
  PROVE  /\ (Holding(q) /\ req'[q] = req[q]) \/ Reserved(q)
         /\ Target(PartOf(q))' = Target(PartOf(q))
  <1>1. (Holding(q) /\ req'[q] = req[q]) \/ Reserved(q)
    <2>1. CASE Aside
      BY <2>1 DEF Aside, Holding
    <2>2. ASSUME NEW r \in Requests, Way(r), \A p \in Requests : p # r => req'[p] = req[p]
          PROVE  (Holding(q) /\ req'[q] = req[q]) \/ Reserved(q)
      <3>1. CASE q = r
        BY <2>2, <3>1 DEF Way, Resting, Taken, Found, Begun, Started, Retaken, Passed, Led, Marked,
                          Filed, Settled, Working, Holding
      <3>2. CASE q # r
        BY <2>2, <3>2 DEF Holding
      <3> QED BY <3>1, <3>2
    <2> QED BY <2>1, <2>2, Cases
  <1>2. Same(q) /\ req[q].pc \in {"fence", "queue"}
    BY <1>1 DEF Reserved, Same, Holding
  <1> QED BY <1>1, <1>2, Steps, PartStays

\* An entry that is new and not the owner's was committed by who held its revision.
LEMMA Newcomer ==
  ASSUME TypeInv, EntryStep, NEW s \in DOMAIN entry' \ Entries, entry'[s].by # Owner
  PROVE  \E p \in Requests : /\ Queue(p) /\ Target(entry'[s]) = Target(PartOf(p))
                             /\ DOMAIN entry' = Entries \cup {s}
  <1>0. Entries = 1..Len(entry) /\ Len(entry) \in Nat
    BY Typed
  <1>1. ASSUME NEW e \in EntryRows, entry' = Append(entry, e)
        PROVE  entry'[s] = e /\ DOMAIN entry' = Entries \cup {s}
    <2>1. DOMAIN entry' = 1..(Len(entry) + 1) /\ entry'[Len(entry) + 1] = e
      BY <1>1, Filing
    <2>2. s = Len(entry) + 1
      BY <1>0, <2>1
    <2> QED BY <1>0, <2>1, <2>2
  <1>2. CASE UNCHANGED entry
    BY <1>2 DEF Entries
  <1>3. CASE \E t \in Entries : \/ entry' = [entry EXCEPT ![t].live = FALSE]
                                \/ entry' = [entry EXCEPT ![t].moved = TRUE]
    BY <1>3, Touching
  <1>4. ASSUME NEW c \in Items, entry' = Append(entry, Entry(Part(c, revision[c]), Owner))
        PROVE  FALSE
    <2> DEFINE e == Entry(Part(c, revision[c]), Owner)
    <2>1. e \in EntryRows /\ e.by = Owner /\ entry' = Append(entry, e)
      BY <1>4, OwnerFiles
    <2> HIDE DEF e
    <2> QED BY <1>1, <2>1
  <1>5. ASSUME NEW p \in Requests, Queue(p)
        PROVE  Target(entry'[s]) = Target(PartOf(p)) /\ DOMAIN entry' = Entries \cup {s}
    <2> DEFINE e == Entry(PartOf(p), <<req[p].id, req[p].pos>>)
    <2>1. /\ e \in EntryRows /\ e.item = PartOf(p).item /\ e.revision = PartOf(p).revision
          /\ entry' = Append(entry, e)
      BY <1>5, Committed
    <2> HIDE DEF e
    <2> QED BY <1>1, <2>1 DEF Target
  <1> QED BY <1>2, <1>3, <1>4, <1>5 DEF EntryStep

LEMMA ClearStart ==
  ASSUME Init
  PROVE  ClearInv
  BY DEF Init, ClearInv, HeldAlone, HeldFree, OneTarget, Holding, Idle, Entries

LEMMA ClearStep ==
  ASSUME TypeInv, ClearInv, [Next]_vars
  PROVE  ClearInv'
  <1>1. CASE UNCHANGED vars
    BY <1>1 DEF vars, ClearInv, HeldAlone, HeldFree, OneTarget, Holding, PartOf, Target, Entries
  <1>2. CASE Next
    <2>1. EntryStep /\ EntriesKept
      BY <1>2, EntrySteps, Steps, EntriesGrow
    <2>2. \A s \in Entries : s \in DOMAIN entry' /\ Target(entry'[s]) = Target(entry[s])
                             /\ (entry'[s].live => entry[s].live) /\ entry'[s].by = entry[s].by
      <3>1. DOMAIN entry' = 1..Len(entry') /\ Len(entry') \in Nat /\ Entries = 1..Len(entry) /\ Len(entry) \in Nat
        <4>1. entry' \in Seq(EntryRows)
          BY <1>2, TypeStep DEF TypeInv, EntriesTyped
        <4> QED BY <4>1, Typed
      <3> QED BY <2>1, <3>1 DEF EntriesKept, Target
    <2>3. HeldAlone'
      <3> SUFFICES ASSUME NEW p \in Requests, NEW q \in Requests, p # q, Holding(p)', Holding(q)',
                          Target(PartOf(p))' = Target(PartOf(q))'
                   PROVE  FALSE
        BY DEF HeldAlone, Target, PartOf
      <3>1. /\ (Holding(p) /\ req'[p] = req[p]) \/ Reserved(p)
            /\ (Holding(q) /\ req'[q] = req[q]) \/ Reserved(q)
            /\ Target(PartOf(p)) = Target(PartOf(q))
        BY <1>2, Holders
      <3>2. CASE Holding(p) /\ Holding(q)
        BY <3>1, <3>2 DEF ClearInv, HeldAlone
      <3>3. CASE Reserved(p) /\ Holding(q)
        BY <3>1, <3>3 DEF Reserved, MayFence, Target
      <3>4. CASE Reserved(q) /\ Holding(p)
        BY <3>1, <3>4 DEF Reserved, MayFence, Target
      <3>5. CASE Reserved(p) /\ Reserved(q)
        <4>1. req'[p] # req[p] /\ req'[q] # req[q]
          BY <3>5 DEF Reserved
        <4>2. ~Aside
          BY <4>1 DEF Aside
        <4> QED BY <1>2, <4>1, <4>2, Cases
      <3> QED BY <3>1, <3>2, <3>3, <3>4, <3>5
    <2>4. HeldFree'
      <3> SUFFICES ASSUME NEW q \in Requests, NEW s \in DOMAIN entry', Holding(q)', entry'[s].live,
                          entry'[s].by # Owner, Target(entry'[s]) = Target(PartOf(q))'
                   PROVE  FALSE
        BY DEF HeldFree, Target, PartOf, Entries
      <3>1. (Holding(q) /\ req'[q] = req[q]) \/ Reserved(q)
        BY <1>2, Holders
      <3>2. Target(entry'[s]) = Target(PartOf(q))
        BY <1>2, Holders
      <3>3. CASE s \in Entries
        <4>1. entry[s].live /\ entry[s].by # Owner /\ Target(entry[s]) = Target(PartOf(q))
          BY <2>2, <3>2, <3>3
        <4>2. CASE Holding(q)
          BY <3>3, <4>1, <4>2 DEF ClearInv, HeldFree
        <4>3. CASE Reserved(q)
          BY <3>3, <4>1, <4>3 DEF Reserved, ConflictingScheduleExists, Target
        <4> QED BY <3>1, <4>2, <4>3
      <3>4. CASE s \notin Entries
        <4>1. PICK p \in Requests : Queue(p) /\ Target(entry'[s]) = Target(PartOf(p))
          BY <2>1, <3>4, Newcomer
        <4>2. CASE Holding(q) /\ req'[q] = req[q]
          BY <3>2, <4>1, <4>2, Leaves DEF ClearInv, HeldAlone, Queue, Holding
        <4>3. CASE Reserved(q)
          BY <3>4, <4>3 DEF Reserved, Entries
        <4> QED BY <3>1, <4>2, <4>3
      <3> QED BY <3>3, <3>4
    <2>5. OneTarget'
      <3> SUFFICES ASSUME NEW s \in DOMAIN entry', NEW t \in DOMAIN entry', s # t, entry'[s].live,
                          entry'[t].live, entry'[s].by # Owner, entry'[t].by # Owner,
                          Target(entry'[s]) = Target(entry'[t])
                   PROVE  FALSE
        BY DEF OneTarget, Target, Entries
      <3>1. CASE s \in Entries /\ t \in Entries
        BY <2>2, <3>1 DEF ClearInv, OneTarget, Target
      <3>2. ASSUME NEW x \in Entries, NEW y \in DOMAIN entry' \ Entries, entry'[x].live,
                   entry'[x].by # Owner, entry'[y].by # Owner, Target(entry'[x]) = Target(entry'[y])
            PROVE  FALSE
        <4>1. PICK p \in Requests : Queue(p) /\ Target(entry'[y]) = Target(PartOf(p))
          BY <2>1, <3>2, Newcomer
        <4>2. entry[x].live /\ entry[x].by # Owner /\ Target(entry[x]) = Target(PartOf(p))
          BY <2>2, <3>2, <4>1
        <4> QED BY <4>1, <4>2 DEF ClearInv, HeldFree, Queue, Holding
      <3>3. CASE s \notin Entries /\ t \notin Entries
        <4>1. DOMAIN entry' = Entries \cup {s} /\ DOMAIN entry' = Entries \cup {t}
          BY <2>1, <3>3, Newcomer
        <4> QED BY <3>3, <4>1
      <3> QED BY <3>1, <3>2, <3>3
    <2> QED BY <2>3, <2>4, <2>5 DEF ClearInv
  <1> QED BY <1>1, <1>2

\* The approval of a draft and that of its series never both have a schedule alive for one
\* revision, nor two approvals of a kind: behind its fence a request is alone with the revision,
\* on a database with row locks and on one that has a single writer, and it looks once more.
THEOREM OneTargetHolds == Spec => []OneTarget
  <1>1. Spec => [](TypeInv /\ ClearInv)
    <2>1. Init => TypeInv /\ ClearInv
      BY TypeStart, ClearStart
    <2>2. TypeInv /\ ClearInv /\ [Next]_vars => (TypeInv /\ ClearInv)'
      BY TypeStep, ClearStep
    <2> QED BY <2>1, <2>2, PTL DEF Spec
  <1>2. TypeInv /\ ClearInv => OneTarget
    BY DEF ClearInv
  <1> QED BY <1>1, <1>2, PTL

-----------------------------------------------------------------------------
(* Scheduled once: what those who own an approval know of it. *)

\* Where nothing is scheduled twice; not a single draft on SQLite.
Exact(a) == locking \/ row[a].kind = "series"

MadeRows ==
    \A a \in Approvals : \A k \in 1..Len(row[a].parts) :
        /\ row[a].state = "pending_review" => MadeBy(a, k) = {}
        /\ row[a].kind = "series" /\ row[a].parts[k].state = "pending" => MadeBy(a, k) = {}
        /\ Exact(a) => \A s, t \in MadeBy(a, k) : s = t

\* In the loop over the parts of a series.
Loop == {"item", "mark", "fence", "queue", "settle"}

\* Nothing was scheduled for what a request remembers as waiting, while it owns the series; the
\* other parts are not waiting.
Informed(r, a) ==
    \A j \in 1..Len(row[a].parts) :
        IF req[r].mem[j] = "pending" THEN Owns(r) => MadeBy(a, j) = {}
        ELSE row[a].parts[j].state # "pending"

Aware(r, a) ==
    /\ req[r].pc = "recheck" /\ Owns(r) => \A j \in 1..Len(row[a].parts) : MadeBy(a, j) = {}
    /\ req[r].pc \in {"mark", "fence", "queue"} /\ Owns(r) /\ Exact(a) =>
          \A k \in 1..Len(row[a].parts) : k = req[r].pos => MadeBy(a, k) = {}
    /\ req[r].pc \in Loop /\ row[a].kind = "series" => Informed(r, a)
    /\ req[r].pc \in {"fence", "queue", "settle"} /\ row[a].kind = "series" =>
          req[r].mem[req[r].pos] # "pending"

AwareInv ==
    \A r \in Requests, a \in Approvals : req[r].pc # "idle" /\ req[r].id = a => Aware(r, a)

\* What is read with row locks is not written later, but for staleness.
Prompt == \A r \in Requests : req[r].pc = "take" => ~locking

MadeInv == MadeRows /\ AwareInv /\ Prompt

LEMMA LockingStays ==
  ASSUME Next
  PROVE  UNCHANGED locking
  <1>1. CASE Outside
    BY <1>1 DEF Outside, Edit, OwnerSchedules, ProposeDraft, ProposeSeries, Shift, OwnerChanges,
                Expire, Outlive
  <1>2. ASSUME NEW r \in Requests, RequestStep(r)
        PROVE  UNCHANGED locking
    BY <1>2 DEF RequestStep, Ask, Reject, Approve, Proceed, Die, ApprovePending, ApproveExecutingDraft,
           ApproveExecutingSeries, ApproveSettled, Claim, Recheck, Swap, Late, Item, MarkPart, Fail,
           Fence, Queue, Settle, Finish
  <1> QED BY <1>1, <1>2 DEF Next, Outside, RequestStep

LEMMA MadeRowsStep ==
  ASSUME TypeInv, OwnInv, MadeInv, Next
  PROVE  MadeRows'
  <1> SUFFICES ASSUME NEW a \in DOMAIN row', NEW k \in 1..Len(row'[a].parts)
               PROVE  /\ row'[a].state = "pending_review" => MadeBy(a, k)' = {}
                      /\ row'[a].kind = "series" /\ row'[a].parts[k].state = "pending" =>
                            MadeBy(a, k)' = {}
                      /\ Exact(a)' => \A s, t \in MadeBy(a, k)' : s = t
    BY DEF MadeRows, Approvals
  <1>1. PICK finished \in BOOLEAN : Progress(finished)
    BY Steps
  <1>2. EntryStep /\ UNCHANGED locking
    BY EntrySteps, LockingStays
  <1>3. a \in Nat \ {0}
    <2>1. row' \in Seq(ApprovalRows)
      BY TypeStep DEF TypeInv, RowsTyped
    <2> QED BY <2>1
  <1>4. CASE a \notin Approvals
    <2>1. MadeBy(a, k) = {}
      BY <1>3, <1>4, Unmade
    <2>2. ~ \E r \in Requests : Queue(r) /\ req[r].id = a /\ req[r].pos = k
      BY <1>4, Committed
    <2>3. MadeBy(a, k)' = {}
      BY <1>2, <1>3, <2>1, <2>2, MadeGrows
    <2> QED BY <2>3
  <1>5. CASE a \in Approvals
    <2>1. Kept(row[a], row'[a], issued, finished) /\ k \in 1..Len(row[a].parts)
      BY <1>1, <1>5 DEF Progress, Kept
    <2>2. CASE MadeBy(a, k)' = MadeBy(a, k)
      <3>1. /\ row'[a].state = "pending_review" => row[a].state = "pending_review"
            /\ row'[a].parts[k].state = "pending" => row[a].parts[k].state = "pending"
            /\ row'[a].kind = row[a].kind
        BY <2>1 DEF Kept
      <3>2. Exact(a)' => Exact(a)
        BY <1>2, <3>1 DEF Exact
      <3> QED BY <1>5, <2>1, <2>2, <3>1, <3>2 DEF MadeInv, MadeRows
    <2>3. ASSUME NEW r \in Requests, Queue(r), req[r].id = a, req[r].pos = k
          PROVE  /\ row'[a].state # "pending_review"
                 /\ row'[a].kind = "series" => row'[a].parts[k].state # "pending"
                 /\ Exact(a)' => \A s, t \in MadeBy(a, k)' : s = t
      <3>1. req[r].pc = "queue" /\ Owns(r) /\ UNCHANGED row
        BY <2>3 DEF Queue, OwnInv, Firm
      <3>2. Aware(r, a)
        BY <1>5, <2>3, <3>1 DEF MadeInv, AwareInv
      <3>3. row'[a].state # "pending_review"
        BY <2>3, <3>1 DEF Owns
      <3>4. row[a].kind = "series" => row[a].parts[k].state # "pending"
        BY <2>1, <2>3, <3>1, <3>2 DEF Aware, Informed, Loop
      <3>5. Exact(a)' => MadeBy(a, k) = {}
        BY <1>2, <2>1, <2>3, <3>1, <3>2 DEF Aware, Exact
      <3>6. MadeBy(a, k)' = MadeBy(a, k) \cup {Len(entry) + 1}
        <4>1. k \in Nat /\ a \in Nat
          BY <1>3, <1>5, <2>1, Typed
        <4> QED BY <2>3, <4>1, MadeNow
      <3> QED BY <3>1, <3>3, <3>4, <3>5, <3>6
    <2> QED BY <1>2, <1>3, <2>2, <2>3, MadeGrows
  <1> QED BY <1>4, <1>5

\* What a request knows stays right when others step.
LEMMA AwareStays ==
  ASSUME TypeInv, OwnInv, MadeInv, Next, NEW q \in Requests, NEW a \in Approvals,
         req'[q] = req[q], req[q].pc # "idle", req[q].id = a
  PROVE  Aware(q, a)'
  <1>1. PICK finished \in BOOLEAN : Progress(finished)
    BY Steps
  <1>2. EntryStep /\ UNCHANGED locking /\ Aware(q, a) /\ a \in Nat
    BY EntrySteps, LockingStays, Typed DEF MadeInv, AwareInv
  <1>3. Kept(row[a], row'[a], issued, finished)
    BY <1>1 DEF Progress
  <1>4. /\ row'[a].kind = row[a].kind /\ Len(row'[a].parts) = Len(row[a].parts)
        /\ \A j \in 1..Len(row[a].parts) :
              row'[a].parts[j].state = "pending" => row[a].parts[j].state = "pending"
    BY <1>3 DEF Kept
  <1>5. req[q].pc \in Working /\ Owns(q)' => Owns(q) /\ \A j : MadeBy(a, j)' = MadeBy(a, j)
    BY <1>1, <1>2, Undisturbed
  <1>6. Exact(a)' = Exact(a)
    BY <1>2, <1>4 DEF Exact
  <1>7. req[q].pc = "recheck" /\ Owns(q)' => \A j \in 1..Len(row'[a].parts) : MadeBy(a, j)' = {}
    BY <1>2, <1>4, <1>5 DEF Aware, Working
  <1>8. req[q].pc \in {"mark", "fence", "queue"} /\ Owns(q)' /\ Exact(a)' =>
           \A k \in 1..Len(row'[a].parts) : k = req[q].pos => MadeBy(a, k)' = {}
    BY <1>2, <1>4, <1>5, <1>6 DEF Aware, Working
  <1>9. req[q].pc \in Loop /\ row'[a].kind = "series" => Informed(q, a)'
    BY <1>2, <1>4, <1>5 DEF Aware, Working, Loop, Informed
  <1>10. req[q].pc \in {"fence", "queue", "settle"} /\ row'[a].kind = "series" =>
            req[q].mem[req[q].pos] # "pending"
    BY <1>2, <1>4 DEF Aware
  <1> QED BY <1>7, <1>8, <1>9, <1>10 DEF Aware

\* What a request knows when it goes on, if nothing is scheduled meanwhile.
LEMMA AwareOn ==
  ASSUME TypeInv, OwnInv, MadeInv, NEW r \in Requests, NEW finished \in BOOLEAN,
         Progress(finished), Way(r), ~Queue(r), UNCHANGED <<entry, locking>>,
         NEW a \in Approvals, req'[r].id = a, ~Resting(r)
  PROVE  Aware(r, a)'
  <1>1. req[r].id = a
    BY DEF Way, Resting, Taken, Found, Begun, Started, Retaken, Passed, Led, Marked, Reserved, Filed,
           Settled, Same, Carries
  <1>2. /\ req[r] \in RequestRows /\ Placed(req[r], row, issued) /\ req[r].pos \in Nat \ {0}
        /\ Len(row[a].parts) \in Nat /\ DOMAIN row[a].parts = 1..Len(row[a].parts)
        /\ row[a].kind \in {"draft", "series"}
    BY Typed DEF RequestRows, ApprovalRows
  <1>3. req[r].pc # "idle" => Aware(r, a)
    BY <1>1 DEF MadeInv, AwareInv
  <1>4. Kept(row[a], row'[a], issued, finished)
    BY DEF Progress
  <1>5. /\ row'[a].kind = row[a].kind /\ Len(row'[a].parts) = Len(row[a].parts)
        /\ \A j \in 1..Len(row[a].parts) :
              row'[a].parts[j].state = "pending" => row[a].parts[j].state = "pending"
    BY <1>4 DEF Kept
  <1>6. \A j : MadeBy(a, j)' = MadeBy(a, j)
    BY DEF MadeBy, Entries
  <1>7. Exact(a)' = Exact(a)
    BY <1>5 DEF Exact
  <1>8. \A k \in 1..Len(row[a].parts) :
           /\ row[a].state = "pending_review" => MadeBy(a, k) = {}
           /\ row[a].kind = "series" /\ row[a].parts[k].state = "pending" => MadeBy(a, k) = {}
    BY DEF MadeInv, MadeRows
  <1>9. req'[r].token = req[r].token /\ req[r].pc \in Working /\ Owns(r)' => Owns(r)
    BY <1>1, Owning
  \* It remembers what it did.
  <1>10. ASSUME req[r].pc \in Loop, row[a].kind = "series", Carries(r)
         PROVE  Informed(r, a)'
    <2>1. Informed(r, a)
      BY <1>3, <1>10 DEF Aware, Loop
    <2> QED BY <1>5, <1>6, <1>9, <1>10, <2>1 DEF Informed, Carries, Loop, Working
  <1>11. CASE Taken(r)
    <2>1. row[a].kind = "draft" /\ req'[r].pc = "fence" /\ req'[r].pos = req[r].pos
      BY <1>1, <1>11 DEF Taken, Same
    <2>2. Exact(a) => MadeBy(a, 1) = {}
      BY <1>1, <1>11, <2>1 DEF Taken, MadeInv, Prompt, Exact
    <2>3. Exact(a)' => MadeBy(a, 1)' = {}
      BY <1>6, <1>7, <2>2
    <2>4. ASSUME NEW k \in 1..Len(row'[a].parts) PROVE k = 1
      <3>1. Len(row[a].parts) = 1
        BY <2>1 DEF TypeInv, RowsTyped, Sized
      <3> QED BY <1>5, <2>4, <3>1
    <2> QED BY <1>5, <2>1, <2>3, <2>4 DEF Aware
  <1>12. CASE Found(r)
    BY <1>12 DEF Found, Aware, Loop
  <1>13. CASE Begun(r)
    <2>1. \A j \in 1..Len(row[a].parts) : MadeBy(a, j) = {}
      BY <1>1, <1>8, <1>13 DEF Begun
    <2>2. req'[r].pc = "recheck"
      BY <1>13 DEF Begun
    <2> QED BY <1>5, <1>6, <2>1, <2>2 DEF Aware, Loop
  <1>14. CASE Started(r)
    <2>1. /\ Owns(r)' => \A j \in 1..Len(row[a].parts) : MadeBy(a, j) = {}
      BY <1>3, <1>9, <1>14 DEF Started, Aware, Working
    <2>2. CASE row[a].kind = "series"
      <3>1. req'[r].pc = "item" /\ UNCHANGED row
            /\ \A j \in 1..Len(row[a].parts) : req'[r].mem[j] = row[a].parts[j].state
        BY <1>1, <1>2, <1>14, <2>2 DEF Started, Remember
      <3>2. Informed(r, a)'
        BY <1>6, <2>1, <3>1 DEF Informed
      <3> QED BY <3>1, <3>2 DEF Aware
    <2>3. CASE row[a].kind = "draft"
      <3>1. req'[r].pc = "fence"
        BY <1>1, <1>14, <2>3 DEF Started
      <3> QED BY <1>5, <1>6, <2>1, <2>3, <3>1 DEF Aware
    <2> QED BY <1>2, <2>2, <2>3
  <1>15. CASE Retaken(r)
    <2>1. row[a].kind = "series"
      BY <1>1, <1>2, <1>15 DEF Placed, Retaken
    <2>2. /\ req'[r].pc = "item" /\ row'[a].parts = row[a].parts
          /\ \A j \in 1..Len(row[a].parts) : req'[r].mem[j] = row[a].parts[j].state
      BY <1>1, <1>2, <1>15 DEF Retaken, NewToken, Remember
    <2>3. Informed(r, a)'
      BY <1>6, <1>8, <2>1, <2>2 DEF Informed
    <2> QED BY <2>2, <2>3 DEF Aware
  <1>16. CASE Passed(r)
    <2>1. Informed(r, a)' /\ req'[r].pc = "item"
      BY <1>1, <1>10, <1>16 DEF Passed, Loop
    <2> QED BY <2>1 DEF Aware
  <1>17. CASE Led(r)
    <2>1. Informed(r, a)' /\ Informed(r, a)
      BY <1>1, <1>3, <1>10, <1>17 DEF Led, Loop, Aware
    <2>2. /\ req'[r].pc \in {"settle", "mark", "fence"} /\ req'[r].pos = req[r].pos
          /\ req'[r].mem = req[r].mem /\ Owns(r)
          /\ req'[r].pc \in {"settle", "fence"} => req[r].mem[req[r].pos] # "pending"
      BY <1>17 DEF Led, Same, Carries
    <2>3. req'[r].pc \in {"mark", "fence"} =>
             \A k \in 1..Len(row[a].parts) : k = req[r].pos => MadeBy(a, k) = {}
      BY <1>1, <1>17, <2>1, <2>2 DEF Led, Informed
    <2>4. req'[r].pc \in {"mark", "fence", "queue"} =>
             \A k \in 1..Len(row'[a].parts) : k = req'[r].pos => MadeBy(a, k)' = {}
      BY <1>5, <1>6, <2>2, <2>3
    <2> QED BY <2>1, <2>2, <2>4 DEF Aware
  <1>18. CASE Marked(r)
    <2>1. /\ req[r].pc = "mark" /\ req'[r].pc = "fence" /\ req'[r].pos = req[r].pos
          /\ req'[r].token = req[r].token
          /\ req'[r].mem = [req[r].mem EXCEPT ![req[r].pos] = "executing"]
          /\ row'[a].parts[req[r].pos].state = "executing"
      BY <1>1, <1>18 DEF Marked, Same
    <2>2. row[a].kind = "series" /\ Informed(r, a)
      BY <1>1, <1>2, <1>3, <2>1 DEF Placed, Aware, Loop
    <2>3. /\ req[r].mem \in Seq(PartStates) /\ Len(req[r].mem) = Len(row[a].parts)
          /\ req[r].pos <= Len(row[a].parts)
      BY <1>1, <1>2, <2>1, <2>2 DEF Placed, RequestRows
    <2>4. /\ req'[r].mem[req[r].pos] = "executing"
          /\ \A j \in 1..Len(row[a].parts) : j # req[r].pos => req'[r].mem[j] = req[r].mem[j]
      BY <1>2, <2>1, <2>3
    <2>5. Owns(r)' => Owns(r)
      BY <1>9, <2>1 DEF Working
    <2>6. Informed(r, a)'
      <3> SUFFICES ASSUME NEW j \in 1..Len(row[a].parts)
                   PROVE  IF req'[r].mem[j] = "pending" THEN Owns(r)' => MadeBy(a, j)' = {}
                          ELSE row'[a].parts[j].state # "pending"
        BY <1>5 DEF Informed
      <3>1. CASE j = req[r].pos
        BY <2>1, <2>4, <3>1
      <3>2. CASE j # req[r].pos
        <4>1. IF req[r].mem[j] = "pending" THEN Owns(r) => MadeBy(a, j) = {}
              ELSE row[a].parts[j].state # "pending"
          BY <2>2 DEF Informed
        <4> QED BY <1>5, <1>6, <2>4, <2>5, <3>2, <4>1
      <3> QED BY <3>1, <3>2
    <2>7. Owns(r)' /\ Exact(a)' =>
             \A k \in 1..Len(row'[a].parts) : k = req'[r].pos => MadeBy(a, k)' = {}
      BY <1>3, <1>5, <1>6, <1>7, <2>1, <2>5 DEF Aware
    <2> QED BY <2>1, <2>4, <2>6, <2>7 DEF Aware
  <1>19. CASE Reserved(r)
    <2>1. /\ req[r].pc = "fence" /\ req'[r].pc = "queue" /\ req'[r].pos = req[r].pos /\ Carries(r)
          /\ req'[r].mem = req[r].mem
      BY <1>19 DEF Reserved, Same, Carries
    <2>2. Owns(r)' => Owns(r)
      BY <1>9, <2>1 DEF Working, Carries
    <2>3. row[a].kind = "series" => Informed(r, a)'
      BY <1>10, <2>1 DEF Loop
    <2>4. Owns(r)' /\ Exact(a)' =>
             \A k \in 1..Len(row'[a].parts) : k = req'[r].pos => MadeBy(a, k)' = {}
      BY <1>3, <1>5, <1>6, <1>7, <2>1, <2>2 DEF Aware
    <2>5. row[a].kind = "series" => req'[r].mem[req'[r].pos] # "pending"
      BY <1>3, <2>1 DEF Aware
    <2> QED BY <1>5, <2>1, <2>3, <2>4, <2>5 DEF Aware
  <1>20. CASE Settled(r)
    <2>1. Informed(r, a)' /\ req'[r].pc = "item"
      BY <1>1, <1>10, <1>20 DEF Settled, Loop
    <2> QED BY <2>1 DEF Aware
  <1> QED BY <1>11, <1>12, <1>13, <1>14, <1>15, <1>16, <1>17, <1>18, <1>19, <1>20 DEF Way, Filed

\* And when it has committed a schedule itself.
LEMMA AwareFiled ==
  ASSUME TypeInv, OwnInv, MadeInv, Next, NEW r \in Requests, Filed(r),
         NEW a \in Approvals, req[r].id = a
  PROVE  Aware(r, a)'
  <1> DEFINE k == req[r].pos
  <1>1. /\ Queue(r) /\ req[r].pc = "queue" /\ Carries(r) /\ Same(r) /\ UNCHANGED row
        /\ Owns(r) /\ Aware(r, a)
    BY DEF Filed, Queue, MadeInv, AwareInv, OwnInv, Firm
  <1>2. CASE row[a].kind = "draft"
    BY <1>1, <1>2 DEF Filed, Aware, Loop
  <1>3. CASE row[a].kind # "draft"
    <2>1. row[a].kind = "series" /\ req'[r].pc = "settle"
      BY <1>3, Typed DEF Filed, ApprovalRows
    <2>2. Informed(r, a) /\ req[r].mem[k] # "pending"
      BY <1>1, <2>1 DEF Aware, Loop
    <2>3. ASSUME NEW j \in 1..Len(row[a].parts), j # k
          PROVE  MadeBy(a, j)' = MadeBy(a, j)
      <3>1. a \in Nat \ {0}
        BY Typed
      <3>2. ASSUME NEW p \in Requests, Queue(p), req[p].id = a, req[p].pos = j
            PROVE  FALSE
        <4>1. req[p].pc = "queue" /\ Owns(p)
          BY <3>2 DEF Queue, OwnInv, Firm
        <4>2. req[p].token = req[r].token
          BY <1>1, <3>2, <4>1 DEF Owns
        <4>3. p = r
          BY <1>1, <4>1, <4>2 DEF OwnInv, Distinct, Working
        <4> QED BY <2>3, <3>2, <4>3
      <3> QED BY <3>1, <3>2, EntrySteps, MadeGrows
    <2>4. Informed(r, a)'
      BY <1>1, <2>2, <2>3 DEF Informed, Carries
    <2>5. req'[r].mem[req'[r].pos] # "pending"
      BY <1>1, <2>2 DEF Carries, Same
    <2> QED BY <2>1, <2>4, <2>5 DEF Aware
  <1> QED BY <1>2, <1>3

LEMMA MadeStart ==
  ASSUME Init
  PROVE  MadeInv
  BY DEF Init, MadeInv, MadeRows, AwareInv, Prompt, Approvals, Idle

\* Who goes on stood on the same approval.
LEMMA Standpoint ==
  ASSUME TypeInv, NEW r \in Requests, RequestStep(r), Way(r), ~Resting(r)
  PROVE  req'[r].id = req[r].id /\ req[r].pc # "idle"
  <1>1. req'[r].id = req[r].id
    BY DEF Way, Taken, Found, Begun, Started, Retaken, Passed, Led, Marked, Reserved, Filed, Settled,
           Same, Carries
  <1>2. req[r].pc = "idle" => Ask(r)
    BY DEF RequestStep, Reject, Approve, Proceed, Die, ApprovePending, ApproveExecutingDraft,
           ApproveExecutingSeries, ApproveSettled, Reads, Claim, Recheck, Swap, Late, Item, MarkPart,
           Fail, Fence, Queue, Settle, Finish, Finished
  <1>3. ~Ask(r)
    BY Typed DEF Ask, Resting, Working, RequestRows
  <1> QED BY <1>1, <1>2, <1>3

LEMMA MadeStep ==
  ASSUME TypeInv, OwnInv, MadeInv, [Next]_vars
  PROVE  MadeInv'
  <1>1. CASE UNCHANGED vars
    BY <1>1 DEF vars, MadeInv, MadeRows, AwareInv, Prompt, Aware, Informed, Owns, Exact, MadeBy,
                Entries, Approvals
  <1>2. CASE Next
    <2>1. MadeRows'
      BY <1>2, MadeRowsStep
    <2>2. UNCHANGED locking
      BY <1>2, LockingStays
    \* Whoever stands on an approval stood on it, or comes to it now.
    <2>3. ASSUME NEW q \in Requests, req'[q] = req[q]
          PROVE  /\ req'[q].pc = "take" => ~locking'
                 /\ \A a \in DOMAIN row' : req'[q].pc # "idle" /\ req'[q].id = a => Aware(q, a)'
      <3>1. req[q].pc # "idle" => req[q].id \in Approvals
        BY Typed DEF Placed, Approvals
      <3> QED BY <1>2, <2>2, <2>3, <3>1, AwareStays DEF MadeInv, Prompt
    <2>4. CASE Aside
      <3>1. \A q \in Requests : req'[q] = req[q]
        BY <2>4 DEF Aside
      <3>2. Prompt' /\ AwareInv'
        BY <2>3, <3>1 DEF Prompt, AwareInv, Approvals
      <3> QED BY <2>1, <3>2 DEF MadeInv
    <2>5. ASSUME NEW r \in Requests, RequestStep(r), Stepped(r, Finish(r) /\ Owns(r)), Way(r),
                 \A q \in Requests : q # r => req'[q] = req[q]
          PROVE  MadeInv'
      <3>1. req'[r].pc = "take" => ~locking'
        BY <2>2, <2>5 DEF Way, Resting, Taken, Found, Begun, Started, Retaken, Passed, Led, Marked,
                          Reserved, Filed, Settled
      <3>2. ASSUME NEW a \in DOMAIN row', req'[r].pc # "idle", req'[r].id = a
            PROVE  Aware(r, a)'
        <4>1. CASE Resting(r)
          BY <4>1 DEF Resting, Working, Loop, Aware
        <4>2. CASE ~Resting(r)
          <5>1. req[r].id = a
            BY <2>5, <3>2, <4>2, Standpoint
          <5>2. req[r].pc # "idle"
            BY <2>5, <4>2, Standpoint
          <5>3. a \in Approvals
            BY <5>1, <5>2, Typed DEF Placed, Approvals
          <5>4. CASE Queue(r)
            <6>1. Filed(r)
              BY <5>4, GoesTo DEF Queue, Filed, Carries, Same
            <6> QED BY <1>2, <5>1, <5>3, <6>1, AwareFiled
          <5>5. CASE ~Queue(r)
            <6>1. UNCHANGED <<entry, locking>>
              BY <2>2, <2>5, <5>5, OnlyQueue
            <6>2. PICK finished \in BOOLEAN : Progress(finished)
              BY <1>2, Steps
            <6> QED BY <2>5, <3>2, <4>2, <5>3, <5>5, <6>1, <6>2, AwareOn
          <5> QED BY <5>4, <5>5
        <4> QED BY <4>1, <4>2
      <3>3. Prompt'
        BY <2>3, <2>5, <3>1 DEF Prompt
      <3>4. AwareInv'
        BY <2>3, <2>5, <3>2 DEF AwareInv, Approvals
      <3> QED BY <2>1, <3>3, <3>4 DEF MadeInv
    <2> QED BY <1>2, <2>4, <2>5, Cases
  <1> QED BY <1>1, <1>2

-----------------------------------------------------------------------------
(* In order: how far an approval has come. *)

OrderRows ==
    \A a \in Approvals : \A k \in 1..Len(row[a].parts) :
        /\ row[a].state = "executed" => MadeBy(a, k) # {}
        /\ MadeBy(a, k) # {} => \A j \in 1..(k - 1) : MadeBy(a, j) # {}

Reached(r, a) ==
    /\ req[r].pc \in Loop => \A j \in 1..(req[r].pos - 1) : MadeBy(a, j) # {}
    /\ req[r].pc \in {"settle", "finish"} => MadeBy(a, req[r].pos) # {}

ReachedInv ==
    \A r \in Requests, a \in Approvals : req[r].pc # "idle" /\ req[r].id = a => Reached(r, a)

OrderInv == OrderRows /\ ReachedInv

LEMMA NothingMade ==
  ASSUME TypeInv, EntryStep, NEW a \in Nat \ {0}, NEW k, a \notin Approvals
  PROVE  MadeBy(a, k)' = {}
  <1>1. MadeBy(a, k) = {}
    BY Unmade
  <1>2. ~ \E r \in Requests : Queue(r) /\ req[r].id = a /\ req[r].pos = k
    BY Committed
  <1> QED BY <1>1, <1>2, MadeGrows

LEMMA OrderRowsStep ==
  ASSUME TypeInv, OrderInv, Next
  PROVE  OrderRows'
  <1>0. row' \in Seq(ApprovalRows) /\ EntryStep
    BY TypeStep, EntrySteps DEF TypeInv, RowsTyped
  <1>1. PICK finished \in BOOLEAN : Progress(finished)
    BY Steps
  <1>2. ASSUME NEW a \in DOMAIN row', a \notin Approvals, NEW k
        PROVE  MadeBy(a, k)' = {} /\ row'[a].state # "executed"
    <2>1. a \in Nat \ {0}
      BY <1>0
    <2>2. row'[a].state = "pending_review"
      BY <1>1, <1>2 DEF Progress
    <2> QED BY <1>0, <1>2, <2>1, <2>2, NothingMade
  <1>3. ASSUME NEW a \in Approvals, NEW k
        PROVE  MadeBy(a, k) \subseteq MadeBy(a, k)'
    BY <1>0, Typed, MadeGrows
  <1>4. ASSUME NEW a \in Approvals, row'[a].state = "executed", NEW k \in 1..Len(row[a].parts)
        PROVE  MadeBy(a, k) # {}
    <2>1. CASE row[a].state = "executed"
      BY <2>1 DEF OrderInv, OrderRows
    <2>2. CASE row[a].state # "executed"
      <3>1. ~Aside
        BY <1>4, <2>2 DEF Aside
      <3>2. PICK r \in Requests : Stepped(r, Finish(r) /\ Owns(r))
        BY <3>1, Cases
      <3>3. Kept(row[a], row'[a], issued, Finish(r) /\ Owns(r))
        BY <3>2 DEF Stepped, Progress
      <3>4. Finish(r) /\ Owns(r)
        BY <1>4, <2>2, <3>3 DEF Kept
      <3>5. req[r].id = a
        BY <1>4, <2>2, <3>4 DEF Finish, Conclude, Approvals
      <3>6. /\ Placed(req[r], row, issued) /\ req[r].pos \in Nat \ {0}
            /\ Len(row[a].parts) \in Nat
        BY Typed DEF RequestRows
      <3>7. req[r].pc # "idle" /\ Reached(r, a)
        BY <3>4, <3>5 DEF Finish, Finished, OrderInv, ReachedInv
      <3>8. CASE req[r].pc = "finish"
        <4>1. row[a].kind = "draft" /\ req[r].pos = 1
          BY <3>5, <3>6, <3>8 DEF Placed
        <4>2. k = 1
          <5>1. Len(row[a].parts) = 1
            BY <4>1 DEF TypeInv, RowsTyped, Sized
          <5> QED BY <1>4, <5>1
        <4> QED BY <3>7, <3>8, <4>1, <4>2 DEF Reached
      <3>9. CASE req[r].pc = "item" /\ req[r].pos > Len(row[a].parts)
        <4>1. k \in 1..(req[r].pos - 1)
          BY <3>6, <3>9
        <4> QED BY <3>7, <3>9, <4>1 DEF Reached, Loop
      <3> QED BY <3>4, <3>5, <3>8, <3>9 DEF Finish, Finished
    <2> QED BY <2>1, <2>2
  <1>5. ASSUME NEW a \in Approvals, NEW k \in 1..Len(row[a].parts), MadeBy(a, k)' # {},
               NEW j \in 1..(k - 1)
        PROVE  MadeBy(a, j)' # {}
    <2>1. CASE MadeBy(a, k)' = MadeBy(a, k)
      BY <1>3, <1>5, <2>1 DEF OrderInv, OrderRows
    <2>2. ASSUME NEW r \in Requests, Queue(r), req[r].id = a, req[r].pos = k
          PROVE  MadeBy(a, j)' # {}
      BY <1>3, <1>5, <2>2 DEF OrderInv, ReachedInv, Reached, Loop, Queue
    <2>3. a \in Nat \ {0}
      BY Typed
    <2>4. \/ MadeBy(a, k)' = MadeBy(a, k)
          \/ \E r \in Requests : Queue(r) /\ req[r].id = a /\ req[r].pos = k
      BY <1>0, <2>3, MadeGrows
    <2> QED BY <2>1, <2>2, <2>4
  <1>6. \A a \in Approvals : a \in DOMAIN row' /\ Len(row'[a].parts) = Len(row[a].parts)
    BY <1>1 DEF Progress, Kept
  <1>7. ASSUME NEW a \in DOMAIN row', NEW k \in 1..Len(row'[a].parts)
        PROVE  /\ row'[a].state = "executed" => MadeBy(a, k)' # {}
               /\ MadeBy(a, k)' # {} => \A j \in 1..(k - 1) : MadeBy(a, j)' # {}
    <2>1. CASE a \in Approvals
      BY <1>3, <1>4, <1>5, <1>6, <2>1
    <2>2. CASE a \notin Approvals
      BY <1>2, <2>2
    <2> QED BY <2>1, <2>2
  <1> QED BY <1>7 DEF OrderRows, Approvals

LEMMA ReachedOn ==
  ASSUME TypeInv, OrderInv, Next, NEW r \in Requests, Way(r), ~Resting(r), NEW a \in Approvals,
         req'[r].id = a
  PROVE  Reached(r, a)'
  <1>1. req[r].id = a
    BY DEF Way, Resting, Taken, Found, Begun, Started, Retaken, Passed, Led, Marked, Reserved, Filed,
           Settled, Same, Carries
  <1>2. /\ req[r] \in RequestRows /\ Placed(req[r], row, issued) /\ req[r].pos \in Nat \ {0}
    BY Typed DEF RequestRows
  <1>3. ASSUME NEW k
        PROVE  MadeBy(a, k) \subseteq MadeBy(a, k)'
    BY EntrySteps, Typed, MadeGrows
  <1>4. req[r].pc # "idle" => Reached(r, a)
    BY <1>1 DEF OrderInv, ReachedInv
  \* Where it begins.
  <1>5. ASSUME req'[r].pc \in {"recheck", "item", "fence"}, req'[r].pos = 1
        PROVE  Reached(r, a)'
    BY <1>5 DEF Reached
  \* Where it stays.
  <1>6. ASSUME req[r].pc \in Loop, req'[r].pos = req[r].pos,
               req'[r].pc \in {"settle", "finish"} => MadeBy(a, req[r].pos)' # {}
        PROVE  Reached(r, a)'
    BY <1>3, <1>4, <1>6 DEF Reached, Loop
  \* Where it goes on.
  <1>7. ASSUME req[r].pc \in Loop, req'[r].pos = req[r].pos + 1, req'[r].pc = "item",
               MadeBy(a, req[r].pos) # {}
        PROVE  Reached(r, a)'
    <2>1. \A j \in 1..(req'[r].pos - 1) : j \in 1..(req[r].pos - 1) \/ j = req[r].pos
      BY <1>2, <1>7
    <2> QED BY <1>3, <1>4, <1>7, <2>1 DEF Reached, Loop
  <1>8. CASE Taken(r) \/ Begun(r) \/ Started(r) \/ Retaken(r)
    <2>1. req'[r].pos = req[r].pos /\ req'[r].pc \in {"recheck", "item", "fence"}
      BY <1>8 DEF Taken, Begun, Started, Retaken, Same
    <2>2. req[r].pos = 1
      <3>1. CASE Taken(r)
        BY <1>2, <3>1 DEF Placed, Taken
      <3>2. CASE Begun(r) \/ Started(r) \/ Retaken(r)
        BY <1>2, <3>2 DEF Placed, Begun, Started, Retaken
      <3> QED BY <1>8, <3>1, <3>2
    <2> QED BY <1>5, <2>1, <2>2
  <1>9. CASE Found(r)
    BY <1>1, <1>2, <1>3, <1>9 DEF Found, Same, Reached, Placed, Loop
  <1>10. CASE Passed(r)
    BY <1>1, <1>7, <1>10 DEF Passed, Loop
  <1>11. CASE Settled(r)
    BY <1>1, <1>4, <1>7, <1>11 DEF Settled, Loop, Reached
  <1>12. CASE Led(r)
    BY <1>1, <1>3, <1>6, <1>12 DEF Led, Loop, Same
  <1>13. CASE Marked(r) \/ Reserved(r)
    BY <1>6, <1>13 DEF Marked, Reserved, Loop, Same
  <1>14. CASE Filed(r)
    <2>1. MadeBy(a, req[r].pos)' # {}
      <3>1. PICK k \in Nat : k = req[r].pos
        BY <1>2
      <3>2. a \in Nat /\ Queue(r) /\ req'[r].pos = k
        BY <1>14, <3>1, Typed DEF Filed, Same
      <3>3. MadeBy(a, k)' = MadeBy(a, k) \cup {Len(entry) + 1}
        BY <1>1, <3>1, <3>2, MadeNow
      <3>4. MadeBy(a, k)' = MadeBy(a, req[r].pos)'
        BY <3>2 DEF MadeBy
      <3> QED BY <3>3, <3>4
    <2> QED BY <1>6, <1>14, <2>1 DEF Filed, Queue, Loop, Same
  <1> QED BY <1>8, <1>9, <1>10, <1>11, <1>12, <1>13, <1>14 DEF Way

LEMMA OrderStart ==
  ASSUME Init
  PROVE  OrderInv
  BY DEF Init, OrderInv, OrderRows, ReachedInv, Approvals, Idle

LEMMA OrderStep ==
  ASSUME TypeInv, OrderInv, [Next]_vars
  PROVE  OrderInv'
  <1>1. CASE UNCHANGED vars
    <2>1. \A a, k : MadeBy(a, k)' = MadeBy(a, k)
      BY <1>1 DEF vars, MadeBy, Entries
    <2>2. ASSUME NEW r \in Requests, NEW a \in Approvals, req[r].pc # "idle", req[r].id = a
          PROVE  Reached(r, a)'
      <3>1. Reached(r, a) /\ UNCHANGED req
        BY <1>1, <2>2 DEF vars, OrderInv, ReachedInv
      <3> QED BY <2>1, <3>1 DEF Reached
    <2>3. OrderRows'
      BY <1>1, <2>1 DEF vars, OrderInv, OrderRows, Approvals
    <2> QED BY <1>1, <2>2, <2>3 DEF vars, OrderInv, ReachedInv, Approvals
  <1>2. CASE Next
    <2>1. OrderRows'
      BY <1>2, OrderRowsStep
    <2>2. ASSUME NEW q \in Requests, req'[q] = req[q], NEW a, req'[q].pc # "idle", req'[q].id = a
          PROVE  Reached(q, a)'
      <3>1. a \in Approvals /\ Reached(q, a) /\ a \in Nat \ {0}
        BY <2>2, Typed DEF Placed, Approvals, OrderInv, ReachedInv
      <3>2. ASSUME NEW k
            PROVE  MadeBy(a, k) \subseteq MadeBy(a, k)'
        BY <1>2, <3>1, EntrySteps, MadeGrows
      <3> QED BY <2>2, <3>1, <3>2 DEF Reached
    <2>3. CASE Aside
      BY <2>1, <2>2, <2>3 DEF Aside, OrderInv, ReachedInv
    <2>4. ASSUME NEW r \in Requests, RequestStep(r), Way(r),
                 \A q \in Requests : q # r => req'[q] = req[q]
          PROVE  OrderInv'
      <3>1. ASSUME NEW a \in DOMAIN row', req'[r].pc # "idle", req'[r].id = a
            PROVE  Reached(r, a)'
        <4>1. CASE Resting(r)
          BY <4>1 DEF Resting, Working, Loop, Reached
        <4>2. CASE ~Resting(r)
          <5>1. req[r].id = a /\ req[r].pc # "idle"
            BY <2>4, <3>1, <4>2, Standpoint
          <5>2. a \in Approvals
            BY <5>1, Typed DEF Placed, Approvals
          <5> QED BY <1>2, <2>4, <3>1, <4>2, <5>2, ReachedOn
        <4> QED BY <4>1, <4>2
      <3> QED BY <2>1, <2>2, <2>4, <3>1 DEF OrderInv, ReachedInv, Approvals
    <2> QED BY <1>2, <2>3, <2>4, Cases
  <1> QED BY <1>1, <1>2

LEMMA OnceHolds ==
  ASSUME TypeInv, MadeInv, OrderInv
  PROVE  ScheduledOnce
  <1> SUFFICES ASSUME NEW a \in Approvals, NEW k \in DOMAIN row[a].parts
               PROVE  /\ locking \/ row[a].kind = "series" => Cardinality(MadeBy(a, k)) <= 1
                      /\ row[a].state = "executed" => MadeBy(a, k) # {}
                      /\ MadeBy(a, k) # {} => \A j \in 1..(k - 1) : MadeBy(a, j) # {}
    BY DEF ScheduledOnce
  <1>1. k \in 1..Len(row[a].parts)
    BY Typed
  <1>2. ASSUME locking \/ row[a].kind = "series"
        PROVE  Cardinality(MadeBy(a, k)) <= 1
    <2>1. \A s, t \in MadeBy(a, k) : s = t
      BY <1>1, <1>2 DEF MadeInv, MadeRows, Exact
    <2>2. CASE MadeBy(a, k) = {}
      BY <2>2, FS_EmptySet
    <2>3. CASE MadeBy(a, k) # {}
      <3>1. PICK s : MadeBy(a, k) = {s}
        BY <2>1, <2>3
      <3>2. Cardinality({s}) = 1
        BY FS_Singleton
      <3> QED BY <3>1, <3>2
    <2> QED BY <2>2, <2>3
  <1> QED BY <1>1, <1>2 DEF OrderInv, OrderRows

\* An approval schedules each of its drafts at most once - on a database with row locks, and every
\* part of a series on any -, in the order of the series, and what is called executed was scheduled,
\* every part: whoever retries, takes over, comes late or dies.  Only who works under the claim can
\* schedule; what it remembers as waiting was scheduled by nobody while the claim is its own.
THEOREM ScheduledOnceHolds == Spec => []ScheduledOnce
  <1>1. Spec => [](TypeInv /\ OwnInv /\ MadeInv /\ OrderInv)
    <2>1. Init => TypeInv /\ OwnInv /\ MadeInv /\ OrderInv
      BY TypeStart, OwnStart, MadeStart, OrderStart
    <2>2. TypeInv /\ OwnInv /\ MadeInv /\ OrderInv /\ [Next]_vars
             => (TypeInv /\ OwnInv /\ MadeInv /\ OrderInv)'
      BY TypeStep, OwnStep, MadeStep, OrderStep
    <2> QED BY <2>1, <2>2, PTL DEF Spec
  <1>2. TypeInv /\ OwnInv /\ MadeInv /\ OrderInv => ScheduledOnce
    BY OnceHolds
  <1> QED BY <1>1, <1>2, PTL
=============================================================================
