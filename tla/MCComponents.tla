----------------------------- MODULE MCComponents -----------------------------
(* The components that share no state with one another, one of which moves in   *)
(* a behaviour while the others stay at an initial state where nothing is due.   *)
EXTENDS Drafts, MergeScenarios, PlanningScenarios

CONSTANTS                                   \* those of Drafts, and
  Tasks, Scenario,                          \* Merge
  Blocking, Messages, Parts, Answerers,     \* Interactions
  Pids, Windows, Clicks, Faults             \* Launcher

VARIABLES part, s, scenario, p, room, conversation, link, board, user, faults,
          shell, box, proc, windows, ends

\* Interactions: two requests of a turn, or one message of two questions.
Casts == {[items |-> Blocking, faults |-> 2], [items |-> Messages, faults |-> 1]}

M == INSTANCE MergeProofs WITH left <- scenario
P == INSTANCE PlanningProofs WITH Room <- {Asking, Restarting, Writing, Belating, Reverting}
I == INSTANCE InteractionsProofs WITH
       Requests <- Blocking, Users <- Answerers, codex <- conversation, left <- faults
L == INSTANCE Launcher WITH codex <- windows, left <- ends

mergeVars == <<s, scenario>>
planVars == <<p, room>>
interactionVars == <<conversation, link, board, user, faults>>
launcherVars == <<shell, box, proc, windows, ends>>
allVars == <<part, mergeVars, planVars, vars, interactionVars, launcherVars>>

PickInit ==
  /\ part \in {"merge", "planning", "drafts", "interactions", "launcher"}
  /\ M!Init /\ (part # "merge" => scenario = Racing)
  /\ P!Init /\ (part # "planning" => room = Asking)
  /\ Init /\ L!Init /\ (part # "launcher" => shell.child = 0)
  /\ I!Init /\ (part # "interactions" => conversation.cast = Blocking)

MergeStep ==
  /\ part = "merge" /\ M!Next
  /\ UNCHANGED <<part, planVars, vars, interactionVars, launcherVars>>
PlanningStep ==
  /\ part = "planning" /\ P!Next
  /\ UNCHANGED <<part, mergeVars, vars, interactionVars, launcherVars>>
DraftsStep ==
  /\ part = "drafts" /\ Next
  /\ UNCHANGED <<part, mergeVars, planVars, interactionVars, launcherVars>>
InteractionsStep ==
  /\ part = "interactions" /\ I!Next
  /\ UNCHANGED <<part, mergeVars, planVars, vars, launcherVars>>
LauncherStep ==
  /\ part = "launcher" /\ L!Next
  /\ UNCHANGED <<part, mergeVars, planVars, vars, interactionVars>>

Step == MergeStep \/ PlanningStep \/ DraftsStep \/ InteractionsStep \/ LauncherStep

ComponentsSpec ==
  /\ PickInit /\ [][Step]_allVars
  /\ M!Fairness /\ P!Fairness /\ Fairness /\ I!Fairness /\ L!Fairness

\* The types of the five components.
AllTyped == M!TypeOK /\ P!TypeOK /\ TypeOK /\ I!TypeOK /\ L!TypeOK

\* The properties of the instances, by names of their own.
\* Merge: a step of the board adds only a verified result to the target.
PublishedOnlyVerified == M!PublishedOnlyVerified
\* Merge: what is delivered is in the target.
DoneIsIntegrated == M!DoneIsIntegrated
\* Merge: no integration ends a task whose next turn has begun.
DoneIsIdle == M!DoneIsIdle
\* Merge: the board waits for one repair in the repository, and no other runs but where a
\* request timed out, a start came late or users touched a task whose repair was starting.
OneRepair == M!OneRepair
\* Merge: no task waits for its integration for ever.
Decided == M!Decided
\* Planning: a plan is accepted only for the requirements the task has then, but for a late
\* message, requirements set back or never told.
AcceptedForText == P!AcceptedForText
\* Planning: a turn of the board runs only in the conversation that holds the task back, but
\* for a late start.
OnlyHeldRuns == P!OnlyHeldRuns
\* Planning: a conversation whose turn is over does not go unnoticed.
Noticed == P!Noticed
\* Interactions: what the board calls answered has been answered in Codex, or its answer is
\* in the task's queue or was dropped from it.
AnsweredForReal == I!AnsweredForReal
\* Interactions: a question answered in Codex is not left pending.
Reconciled == I!Reconciled
\* Launcher: a wish to open the panel is fulfilled.
OpenHeard == L!OpenHeard
=============================================================================
