-------------------------- MODULE PublicationLifecycle --------------------------
(***************************************************************************)
(* What delivery promises about one publication, whatever worker, lease or *)
(* recovery does it: it is withdrawn or begun once; once begun it is posted*)
(* at most once; it is published only after it was posted; giving up is    *)
(* final and is not a promise that nothing was posted, since a provider    *)
(* call that outlives its lease may still land.                            *)
(***************************************************************************)
EXTENDS Integers

CONSTANT Publications

VARIABLES
    phase,  \* queued, sending, and the outcomes published, failed, cancelled
    posts   \* times the document was handed to the provider

Init ==
    /\ phase = [p \in Publications |-> "queued"]
    /\ posts = [p \in Publications |-> 0]

Withdraw(p) ==
    /\ phase[p] = "queued"
    /\ phase' = [phase EXCEPT ![p] = "cancelled"]
    /\ UNCHANGED posts

Begin(p) ==
    /\ phase[p] = "queued"
    /\ phase' = [phase EXCEPT ![p] = "sending"]
    /\ UNCHANGED posts

Post(p) ==
    /\ phase[p] \in {"sending", "failed"}
    /\ posts[p] = 0
    /\ posts' = [posts EXCEPT ![p] = 1]
    /\ UNCHANGED phase

Publish(p) ==
    /\ phase[p] = "sending"
    /\ posts[p] = 1
    /\ phase' = [phase EXCEPT ![p] = "published"]
    /\ UNCHANGED posts

GiveUp(p) ==
    /\ phase[p] = "sending"
    /\ phase' = [phase EXCEPT ![p] = "failed"]
    /\ UNCHANGED posts

Next == \E p \in Publications :
    Withdraw(p) \/ Begin(p) \/ Post(p) \/ Publish(p) \/ GiveUp(p)

Spec == Init /\ [][Next]_<<phase, posts>>
=================================================================================
