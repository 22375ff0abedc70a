---------------------------- MODULE MergeScenarios ----------------------------
(* What may happen around the merges of a repository.                          *)

Usual == [can |-> {}, review |-> FALSE, turns |-> 2, moves |-> 0, trouble |-> 0]
Racing == [Usual EXCEPT !.can = {"conflict", "push", "fail"}, !.moves = 1]
Stopping == [Usual EXCEPT !.can = {"conflict", "pause", "retry"}, !.moves = 2]
Reviewing == [Usual EXCEPT !.can = {"conflict", "rework", "touch", "retry", "crash"}, !.moves = 1,
                           !.review = TRUE, !.trouble = 1]
Reworking == [Usual EXCEPT !.can = {"rework", "touch", "retry", "crash"}, !.moves = 2, !.turns = 1,
                           !.review = TRUE, !.trouble = 1]
Losing == [Usual EXCEPT !.can = {"conflict", "lost", "crash", "attach", "retry"}, !.moves = 1, !.trouble = 2]
Limited == [Usual EXCEPT !.can = {"conflict", "quota", "retry", "lost"}, !.moves = 1, !.trouble = 1]
Reconfigured == [Usual EXCEPT !.can = {"commands", "dirty", "local", "retry", "fail"}, !.moves = 2]
TimedOut == {[Usual EXCEPT !.can = {"conflict", "timeout", "late", "retry"}, !.moves = 1, !.trouble = 2]}
Settling == {[Usual EXCEPT !.can = {"resettle"}, !.moves = 1]}
All == {Racing, Stopping, Reviewing, Reworking, Losing, Limited, Reconfigured} \cup TimedOut \cup Settling
=============================================================================
