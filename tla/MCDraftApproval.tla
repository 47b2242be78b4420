---------------------------- MODULE MCDraftApproval ----------------------------
(* Small instances of DraftApproval for TLC.                                  *)
EXTENDS DraftApproval, TLC

CONSTANTS q1, q2

Symmetry == Permutations(Requests)
BothDatabases == {TRUE, FALSE}
================================================================================
