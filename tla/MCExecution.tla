----------------------------- MODULE MCExecution -----------------------------
(* Scenarios for Execution.                                                 *)
EXTENDS Execution

On(m, can, prompts, stops, native, faults) ==
  [managed |-> m, can |-> can, prompts |-> prompts, stops |-> stops,
   native |-> native, faults |-> faults]

Both(can, prompts, stops, native, faults) == {On(m, can, prompts, stops, native, faults) : m \in BOOLEAN}

Losing == Both({"lost", "attach"}, 2, 0, 0, 2)
Missing == Both({"missed"}, 2, 0, 0, 2)
Crashing == Both({"crash", "attach", "impatient"}, 2, 0, 0, 2)
Stopping == Both({"pause", "cancel", "requeue", "resume"}, 2, 2, 0, 0)
StoppingLost == Both({"pause", "resume", "lost", "crash", "impatient"}, 2, 1, 0, 1)
Following == Both({"follow_up", "pause", "resume"}, 2, 1, 0, 0)
FollowingLost == Both({"follow_up", "refused", "lost", "crash", "impatient"}, 2, 0, 0, 1)
Exhausting == Both({"quota", "refused", "cancel"}, 2, 1, 0, 0)
Sharing == Both({"lost", "attention"}, 1, 0, 1, 1)

TimingOut == Both({"timeout", "refused", "attach", "pause", "resume"}, 2, 1, 0, 1)
FollowingTimedOut == Both({"follow_up", "timeout"}, 2, 0, 0, 1)
Late == Both({"follow_up", "pause", "resume", "lost", "crash", "late"}, 2, 1, 0, 1)
LateTimingOut == Both({"timeout", "late", "impatient"}, 2, 0, 0, 2)

Everything ==
  Losing \cup Missing \cup Crashing \cup Stopping \cup StoppingLost \cup Following
    \cup FollowingLost \cup Exhausting \cup Sharing
    \cup TimingOut \cup FollowingTimedOut \cup Late \cup LateTimingOut

\* A restart, then one more request.
Restarting == {On(FALSE, {"crash"}, 2, 0, 0, 1)}
\* One request, and the renderer's timer.
TimedOut == {On(TRUE, {"timeout"}, 1, 0, 0, 1)}
=============================================================================
