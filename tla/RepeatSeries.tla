------------------------------ MODULE RepeatSeries ------------------------------
(***************************************************************************)
(* What repeating promises about a series of occurrences of one post: it   *)
(* is a line.  Only its last occurrence may be waiting to be posted; the   *)
(* next one is added once the last was published with its repeat on; and   *)
(* an occurrence that failed, was withdrawn or was published with its      *)
(* repeat off is the last one for good.                                    *)
(***************************************************************************)
EXTENDS Integers

VARIABLES
    length,   \* occurrences so far
    last,     \* status of the last one
    repeats   \* the last one is to be followed by another

Init ==
    /\ length = 1
    /\ last = "queued"
    /\ repeats \in BOOLEAN

\* The owner may turn the repeat on or off while the occurrence is waiting.
Set ==
    /\ last = "queued"
    /\ repeats' = ~repeats
    /\ UNCHANGED <<length, last>>

Settle ==
    /\ last = "queued"
    /\ last' \in {"published", "failed", "cancelled"}
    /\ UNCHANGED <<length, repeats>>

Continue ==
    /\ last = "published"
    /\ repeats
    /\ length' = length + 1
    /\ last' = "queued"
    /\ UNCHANGED repeats

Next == Set \/ Settle \/ Continue

Spec == Init /\ [][Next]_<<length, last, repeats>>
=================================================================================
