----------------------------- MODULE MCPublishedPost -----------------------------
(* Small instances of PublishedPost for TLC: two publications, one of them with *)
(* two messages.                                                                *)
EXTENDS PublishedPost, TLC

CONSTANTS w1, w2, e1, e2

Timer == [seconds |-> 1, views |-> 0]
Views == [seconds |-> 0, views |-> 1]
Both == [seconds |-> 1, views |-> 1]
Never == [seconds |-> 0, views |-> 0]

Symmetry == Permutations(Workers) \cup Permutations(Editors)

TwoPosts == <<<<11, 12>>, <<21>>>>
OnePost == <<<<11, 12>>>>
SinglePosts == <<<<11>>, <<21>>>>
TimerOrNever == {Timer, Both, Never}
TimerOrViews == {Timer, Views}
==================================================================================
