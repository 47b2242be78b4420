---------------------------- MODULE MCCandidateInbox ---------------------------
(* Small instances of CandidateInbox for TLC. *)
EXTENDS CandidateInbox

================================================================================
