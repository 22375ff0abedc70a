--------------------------- MODULE PlanningScenarios ---------------------------
(* What may happen, and how often, to the plan conversations of one task.       *)

Events == {"start", "lost", "late", "continue", "answer", "save", "accept", "cancel", "fail",
           "ask", "native", "edit", "revert", "take", "crash"}
Some(events) == [e \in Events |-> IF e \in events THEN 1 ELSE 0]
Asking == Some({"start", "lost", "continue", "edit", "cancel", "ask", "answer"})
Restarting == [Some({"start", "crash", "continue", "edit", "cancel", "take", "save"})
                 EXCEPT !["start"] = 2]
Writing == Some({"start", "native", "save", "ask", "accept", "edit", "fail"})
\* A message reaches Codex after the board has given it up.
Belating == [Some({"start", "lost", "late", "continue", "edit", "cancel", "accept"})
               EXCEPT !["continue"] = 2]
\* The requirements are set back.
Reverting == Some({"start", "lost", "continue", "edit", "revert", "accept"})
=============================================================================
