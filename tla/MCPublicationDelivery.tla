------------------------ MODULE MCPublicationDelivery ------------------------
(* Small instances of PublicationDelivery for TLC.                          *)
EXTENDS PublicationDelivery, TLC

CONSTANTS p1, p2, e1, e2, r1, r2

\* Workers of one kind are interchangeable (used where no liveness is checked).
WorkerSymmetry == Permutations(Executors) \cup Permutations(Recoverers)
=============================================================================
