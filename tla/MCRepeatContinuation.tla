-------------------------- MODULE MCRepeatContinuation --------------------------
(* Small instances of RepeatContinuation for TLC.                           *)
EXTENDS RepeatContinuation, TLC

CONSTANTS w1, w2

WorkerSymmetry == Permutations(Workers)

\* Bound: of the workers in a pass and of the others that have read and not written, two
\* are under way; the series is looked at until its last occurrence is there.
TwoUnderWay ==
    LET under(way) == IF way THEN 1 ELSE 0
    IN  /\ Len(occ) < MaxOccurrences
        /\ Cardinality({x \in Workers : ~At(x, "idle")}) + under(edit # NoEdit)
             + under(mark # NoMark) + Cardinality(late) <= 2

\* The loop of compute_next_repeat_time as it is written.
RECURSIVE SkipPast(_, _, _)
SkipPast(when, step, after) ==
    IF when <= after THEN SkipPast(when + step, step, after) ELSE when

\* NextRepeatTime says in closed form what the loop computes.
ASSUME \A start \in 0..6, every \in 1..4, after \in 0..12 :
          NextRepeatTime(start, every, after) = SkipPast(start, every, after)
=================================================================================
