------------------------------- MODULE Dispatch -------------------------------
(***************************************************************************)
(* The scheduler and the parallel runtime as they drive the task store:    *)
(* user actions, the dispatch loop, turn results, native Codex turns and    *)
(* the merge queue, for ordinary tasks and parallel groups.                *)
(*                                                                         *)
(* A step is one transaction of the store, or the transactions a handler   *)
(* makes between two points where it waits for Codex or Git.  A handler's   *)
(* own awaits are steps of their own only where the outcome of the wait     *)
(* matters to the reservations: starting a turn, a turn's end, and merging. *)
(***************************************************************************)
EXTENDS TaskStore

CONSTANT CanDo \* bound: the optional operations users and Codex make per task

Operation == {"run", "feedback", "follow_up", "retry", "resume", "finish",
              "requeue", "cancel", "pause", "draft", "mode", "scopes", "lost",
              "native", "missed", "fail", "quota", "attention", "group", "merge_retry"}

ASSUME CanDoAssumption == CanDo \in [Task -> SUBSET Operation]

VARIABLE db
vars == <<db>>

May(t, op) == op \in CanDo[t]
row(t) == db.task[t]

ParentSubmitted(s, t) == IsChild(t) => s.task[RootOf[t]].phase = "submitted"
ParentStopping(s, t) ==
  IsChild(t) /\ s.task[RootOf[t]].phase \in {"pausing", "paused"}

Init == db = Created
-----------------------------------------------------------------------------
(* Starting and continuing an ordinary task or a subtask.                  *)

\* A turn found active on the thread of a failed task is observed again.
Reattached(s, t) ==
  Put(s, t, [s.task[t] EXCEPT !.status = "in_progress", !.run = "running"])

\* ParallelRuntime.queue: nothing changes when enqueue raises.
CanQueue(s, t) ==
  \/ s.task[t].turn = "active" /\ s.task[t].run \in {"failed", "waiting_quota"}
  \/ EnqueueOK(s, t)

Queue(s, t, prompted) ==
  IF s.task[t].turn = "active" /\ s.task[t].run \in {"failed", "waiting_quota"}
    THEN Reattached(s, t)
    ELSE TryClaim(Enqueued(s, t, prompted), t)

RunTask(t) ==
  /\ May(t, "run")
  /\ row(t).status = "todo" /\ DependenciesReady(db, t)
  /\ CanQueue(db, t)
  /\ db' = Queue(db, t, FALSE)

SubmitFeedback(t) ==
  /\ May(t, "feedback")
  /\ row(t).status = "in_review" /\ row(t).turn # "none"
  /\ CanQueue(db, t)
  /\ db' = Queue(db, t, TRUE)

Retry(t) ==
  /\ May(t, "retry")
  /\ row(t).status = "in_progress" /\ row(t).run \in {"failed", "waiting_quota"}
  /\ row(t).turn # "none" \/ Managed(db, t)
  /\ CanQueue(db, t)
  /\ db' = Queue(db, t, TRUE)

\* _resume_quota_tasks, once the reset time is due.
QuotaResume(t) ==
  /\ row(t).status = "in_progress" /\ row(t).run = "waiting_quota"
  /\ db.queue[t] # "pending" /\ ~row(t).paused
  /\ CanQueue(db, t)
  /\ db' = Queue(db, t, TRUE)

\* The flags are cleared first and stay cleared when queueing is refused.
Resume(t) ==
  LET s == Put(db, t, [row(t) EXCEPT !.paused = FALSE, !.conflict = FALSE]) IN
  /\ May(t, "resume")
  /\ row(t).paused
  /\ db' = IF \/ row(t).result
                 /\ row(t).merge \in {"queued", "blocked", "pending_review"}
              \/ ~CanQueue(s, t)
             THEN s ELSE Queue(s, t, row(t).turn # "none")

\* follow_up without an active turn...
CanFollowUp(t) ==
  /\ May(t, "follow_up")
  /\ row(t).turn \in {"idle", "completed"}
  /\ row(t).status \in {"in_progress", "in_review", "done"}
  /\ row(t).run # "starting"
  /\ EnqueueOK(db, t)

\* ... waits in the queue, or is prepared like a first execution when it
\* has to revalidate its result; ...
FollowUpQueued(t) ==
  LET s == Enqueued(db, t, TRUE) IN
  /\ CanFollowUp(t)
  /\ ~Claimable(s, t) \/ row(t).stale
  /\ db' = TryClaim(s, t)

\* ... or starts its turn at once; ...
FollowUpStarted(t) ==
  LET s == Enqueued(db, t, TRUE) IN
  /\ CanFollowUp(t)
  /\ Claimable(s, t) /\ ~row(t).stale
  /\ db' = LET claimed == Claimed(s, t) IN
           Put(claimed, t, [claimed.task[t] EXCEPT !.run = "running",
                                                   !.turn = "active"])

\* ... or is refused by Codex: the row is written back as it was read, while
\* the reservations and the marks on its consumers stay.
FollowUpRefused(t) ==
  LET s == Enqueued(db, t, TRUE)
      restored == Put(Reserve(s, t), t, [row(t) EXCEPT !.paused = FALSE])
  IN
  /\ CanFollowUp(t)
  /\ May(t, "fail")
  /\ Claimable(s, t) /\ ~row(t).stale
  /\ db' = GivenBack(FinishQueue(Release(restored, t), t), t, row(t).status)

\* The dispatch loop takes the queued continuations, then the ready tasks.
DispatchQueued(t) ==
  /\ db.queue[t] = "pending"
  /\ Claimable(db, t)
  /\ db' = Claimed(db, t)

GroupOpen(g) ==
  row(g).phase = "submitted" /\ row(g).status = "in_progress" /\ row(g).prepared

DispatchTodo(t) ==
  /\ IF IsChild(t) THEN GroupOpen(RootOf[t]) /\ ~row(t).again
                   ELSE t \in Automated
  /\ row(t).status = "todo" /\ db.queue[t] # "pending"
  /\ Claimable(db, t)
  /\ db' = Claimed(db, t)

\* A failed subtask that group_resume marked is continued by the loop.
DispatchResumed(t) ==
  LET s == Put(db, t, [row(t) EXCEPT !.again = FALSE]) IN
  /\ IsChild(t) /\ GroupOpen(RootOf[t]) /\ row(t).again
  /\ db' = IF CanQueue(s, t) THEN Queue(s, t, TRUE) ELSE s
-----------------------------------------------------------------------------
(* The life of a turn.                                                     *)

\* prepare_task gives up on a subtask whose group has no worktree yet.
Unready(t) == IsChild(t) /\ ~row(RootOf[t]).prepared

\* _execute_task up to the answer of turn/start.  A pause that comes after
\* its last check of the flags does not stop it.
Started(t) ==
  /\ row(t).run = "starting" /\ ~Unready(t)
  /\ db' = Put(db, t, [row(t) EXCEPT !.run = "running", !.turn = "active"])

\* Mutant: a state the tables do not know.
FailedInterrupted(s, t) ==
  FinishQueue(Release(Put(s, t, [s.task[t] EXCEPT !.run = "interrupted"]), t), t)

\* _fail_task with an error that is not uncertain.
Failed(s, t) ==
  FinishQueue(Release(Put(s, t, [s.task[t] EXCEPT !.run = "failed"]), t), t)

\* A definite error before the turn exists, with or without a thread.
StartFails(t) ==
  /\ row(t).run = "starting"
  /\ May(t, "fail") \/ Unready(t)
  /\ \E thread \in IF Unready(t) THEN {FALSE} ELSE BOOLEAN :
       db' = Failed(Put(db, t, [row(t) EXCEPT !.turn =
                       IF thread /\ @ = "none" THEN "idle" ELSE @]), t)

\* _handle_turn_result returns early for a paused or stopping task.
Observed(t) ==
  row(t).status = "in_progress" /\ ~row(t).paused /\ ~ParentStopping(db, t)

TurnEnds(s, t, how) ==
  Put(s, t, [s.task[t] EXCEPT !.turn = how, !.conflict = FALSE])

\* ParallelRuntime.completed, and the rest of _settle_completed for a task
\* the board does not merge.  "attention" is a result that cannot be taken as
\* it is (dirty tree, missing baseline), "outside" one beyond its scopes.
Settled(s, t, outcome) ==
  LET review == t \in Reviewed
      s1 == FinishQueue(Release(s, t), t)
  IN
  IF ~Managed(s, t)
    THEN Moved(s, t, IF review THEN "in_review" ELSE "done", "none")
  ELSE IF s.task[t].stale \/ outcome = "attention" THEN Failed(s1, t)
  ELSE IF outcome = "outside"
    THEN Failed(Put(s1, t, [s1.task[t] EXCEPT !.result = TRUE,
                                              !.merge = "blocked"]), t)
  ELSE LET reviewed == review /\ ~IsChild(t)
           s2 == Moved(s1, t, IF reviewed THEN "in_review" ELSE "in_progress",
                       "none")
       IN  Put(s2, t, [s2.task[t] EXCEPT
                 !.result = TRUE, !.stale = FALSE,
                 !.merge = IF reviewed THEN "pending_review" ELSE "queued"])

Outcomes(t) ==
  {"delivered"} \cup IF May(t, "attention") THEN {"attention", "outside"} ELSE {}

Completes(t) ==
  /\ row(t).turn = "active" /\ Observed(t)
  /\ \E outcome \in Outcomes(t) :
       db' = Settled(TurnEnds(db, t, "completed"), t, outcome)

Fails(t) ==
  /\ May(t, "fail")
  /\ row(t).turn = "active" /\ Observed(t)
  /\ db' = Failed(TurnEnds(db, t, "idle"), t)

QuotaWait(t) ==
  /\ May(t, "quota")
  /\ row(t).turn = "active" /\ Observed(t)
  /\ LET s == Failed(TurnEnds(db, t, "idle"), t)
     IN  db' = Put(s, t, [s.task[t] EXCEPT !.run = "waiting_quota"])

\* Codex ends a turn whose result the board no longer takes.
EndsUnobserved(t) ==
  /\ row(t).turn = "active" /\ ~Observed(t)
  /\ \E how \in {"completed"} \cup IF May(t, "fail") THEN {"idle"} ELSE {} :
       db' = Put(db, t, [row(t) EXCEPT !.turn = how])

\* Mutant: every failure gives the lease back.
ConnectionLostReleasing(t) ==
  /\ May(t, "lost")
  /\ row(t).turn = "active" /\ row(t).status = "in_progress"
  /\ row(t).run = "running"
  /\ db' = FinishQueue(Release(Put(db, t,
             [row(t) EXCEPT !.run = "failed", !.conflict = TRUE]), t), t)

\* _fail_task with an uncertain error keeps the lease.
ConnectionLost(t) ==
  /\ May(t, "lost")
  /\ row(t).turn = "active" /\ row(t).status = "in_progress"
  /\ row(t).run = "running"
  /\ db' = FinishQueue(Put(db, t,
             [row(t) EXCEPT !.run = "failed", !.conflict = TRUE]), t)

\* _sync_threads finds the turn of a failed task still active...
Reconnect(t) ==
  /\ row(t).turn = "active" /\ row(t).status = "in_progress"
  /\ row(t).run \in {"failed", "waiting_quota"}
  /\ db' = Reattached(db, t)

\* ... or the completed turn of a task in progress, and settles it again.
Reevaluate(t) ==
  /\ row(t).turn = "completed" /\ Observed(t) /\ row(t).run # "starting"
  /\ \E outcome \in Outcomes(t) :
       db' = Settled(TurnEnds(db, t, "completed"), t, outcome)

\* ... or that it ended otherwise.
ReevaluateFails(t) ==
  /\ row(t).turn = "idle" /\ Observed(t) /\ row(t).run = "running"
  /\ db' = Failed(TurnEnds(db, t, "idle"), t)

\* Mutant: the lease of a native turn counts as one that was granted.
AdoptedUnforced(s, t) ==
  [s EXCEPT !.lease[t] = IF @ = "none" THEN s.task[RootOf[t]].mode ELSE @,
            !.task[t] = [@ EXCEPT !.status = "in_progress", !.run = "running",
                                  !.turn = "active"]]

\* Mutant: a native turn takes a lease only when the rules allow it.
AdoptedUnrecorded(s, t) ==
  [(IF Eligible(s, t, FALSE) THEN Reserve(s, t) ELSE s) EXCEPT
     !.lease[t] = IF Eligible(s, t, FALSE) THEN s.task[RootOf[t]].mode ELSE @,
     !.task[t] = [@ EXCEPT !.status = "in_progress", !.run = "running",
                           !.turn = "active"]]

\* _adopt_turn: a turn the user started in Codex on the task's thread takes
\* the lease whether or not the rules allow it.
Occupied(s, t) ==
  LET eligible == Eligible(s, t, FALSE)
      reserved == IF eligible THEN Reserve(s, t) ELSE s
  IN  IF s.lease[t] # "none" THEN s
      ELSE [Put(reserved, t, [s.task[t] EXCEPT !.conflict = @ \/ ~eligible])
              EXCEPT !.lease[t] = s.task[RootOf[t]].mode, !.forced[t] = ~eligible]

Adopted(s, t) ==
  LET s1 == Occupied(s, t)
      s2 == IF Managed(s, t) /\ s.task[t].result
              THEN LET marked == MarkDownstreamStale(s1, t)
                   IN  Put(marked, t, [marked.task[t] EXCEPT !.merge = "none"])
              ELSE s1
  IN  Put(s2, t, [s2.task[t] EXCEPT !.status = "in_progress", !.run = "running",
                                    !.turn = "active"])

AdoptNative(t) ==
  /\ May(t, "native")
  /\ row(t).turn \in {"idle", "completed"} /\ row(t).run # "starting"
  /\ db' = Adopted(db, t)

\* A native turn that is over when it is first seen takes no lease and marks
\* nothing; its result is settled like that of a turn of the board.
NativeEnded(t) ==
  LET s == Put(db, t, [row(t) EXCEPT !.status = "in_progress", !.run = "running"])
  IN
  /\ May(t, "missed")
  /\ row(t).turn \in {"idle", "completed"} /\ row(t).run # "starting"
  /\ IF row(t).paused \/ ParentStopping(db, t)
       THEN \E how \in {"idle", "completed"} :
              db' = Put(s, t, [s.task[t] EXCEPT !.turn = how])
       ELSE \/ db' = Failed(TurnEnds(s, t, "idle"), t)
            \/ \E outcome \in Outcomes(t) :
                 db' = Settled(TurnEnds(s, t, "completed"), t, outcome)
-----------------------------------------------------------------------------
(* Ending and stopping.                                                    *)

Interrupted(s, t) ==
  Put(s, t, [s.task[t] EXCEPT !.turn = IF @ = "active" THEN "idle" ELSE @])

\* Mutant: complete marks a task done that the board has to merge.
FinishAny(t) ==
  /\ May(t, "finish")
  /\ t \notin Group /\ row(t).run # "starting"
  /\ row(t).status \in {"todo", "in_progress", "in_review"}
  /\ \E target \in {"done", "canceled", "in_review"} :
       /\ target = "in_review" => row(t).status = "in_progress"
       /\ db' = Moved(IF row(t).status = "in_progress"
                        THEN Interrupted(db, t) ELSE db, t, target, "none")

\* complete and cancel of a task the board does not merge.
Finish(t) ==
  /\ May(t, "finish")
  /\ t \notin Group /\ ~Managed(db, t) /\ row(t).run # "starting"
  /\ row(t).status \in {"todo", "in_progress", "in_review"}
  /\ \E target \in {"done", "canceled", "in_review"} :
       /\ target = "in_review" => row(t).status = "in_progress"
       /\ db' = Moved(IF row(t).status = "in_progress"
                        THEN Interrupted(db, t) ELSE db, t, target, "none")

InterruptRequeue(t) ==
  /\ May(t, "requeue")
  /\ ~Managed(db, t) /\ row(t).run # "starting"
  /\ row(t).status = "in_progress"
  /\ LET s == Moved(Interrupted(db, t), t, "todo", "none")
     IN  db' = Put(s, t, [s.task[t] EXCEPT !.draft = TRUE])

Members(t) == IF t \in Group THEN Children(t) ELSE {t}

PauseMarked(s, t) ==
  Put(s, t, [s.task[t] EXCEPT !.paused = TRUE,
                              !.phase = IF t \in Group THEN "pausing" ELSE @])

\* A start is waited out: its coroutine gives up only once it sees the flag
\* that an earlier pause has set.
Starting(t) == row(t).run = "starting" /\ ~row(t).paused /\ ~ParentStopping(db, t)

\* The worktree of a group is in creation.
Preparing(g) ==
  /\ g \in Group /\ row(g).phase = "submitted"
  /\ row(g).status = "in_progress" /\ ~row(g).prepared

Stoppable(t) == ~Preparing(t) /\ \A c \in Members(t) : ~Starting(c)

\* pause() once every member's turn has been observed to be stopped.
PauseConfirmed(s, t) ==
  LET stopped == Members(t)
      released == stopped \cup {t}
      halt(u) == [s.task[u] EXCEPT
        !.paused = TRUE, !.conflict = FALSE,
        !.turn = IF @ = "active" THEN "idle" ELSE @,
        !.merge = IF @ = "merging" THEN "blocked" ELSE @,
        !.run = IF @ \in {"starting", "running", "waiting_quota"}
                  THEN "failed" ELSE @]
      table(f, empty) == [u \in Task |-> IF u \in released THEN empty ELSE f[u]]
  IN  [s EXCEPT
        !.task = [u \in Task |->
          IF u \in stopped THEN halt(u)
          ELSE IF u = t THEN [s.task[u] EXCEPT !.phase = "paused",
                                !.paused = TRUE, !.conflict = FALSE]
          ELSE s.task[u]],
        !.queue = [u \in Task |->
          IF u \in stopped /\ s.queue[u] # "none" THEN "done" ELSE s.queue[u]],
        !.lease = table(@, "none"),
        !.forced = table(@, FALSE),
        !.scope = table(@, {}),
        !.resource = table(@, {})]

Pause(t) ==
  /\ May(t, "pause")
  /\ Stoppable(t)
  /\ db' = PauseConfirmed(db, t)

\* A start in progress, or a turn that Codex still reports as running, ends the
\* pause at that member, with others interrupted or not yet reached; a merge
\* or a worktree in creation ends it after all of them.  The flags stay set
\* and every lease is kept.
PauseHalted(s, reached, interrupted) ==
  [s EXCEPT !.queue = [u \in Task |-> IF u \in reached /\ s.queue[u] # "none"
                                        THEN "done" ELSE s.queue[u]],
            !.task = [u \in Task |-> IF u \in interrupted
                        THEN Interrupted(s, u).task[u] ELSE s.task[u]]]

PauseUnconfirmed(t) ==
  LET s == PauseMarked(db, t)
      members == Members(t)
  IN
  /\ May(t, "pause")
  /\ \/ \E c \in members, others \in SUBSET members :
          /\ row(c).run = "starting" \/ row(c).turn = "active"
          /\ c \notin others /\ \A o \in others : ~Starting(o)
          /\ db' = PauseHalted(s, others \cup {c}, others)
     \/ /\ \A c \in members : ~Starting(c)
        /\ \E c \in members \cup {t} : row(c).worker \/ Preparing(c)
        /\ db' = PauseHalted(s, members, members)

\* cancel of a managed task or a group: confirmed like a pause, then closed
\* together with the subtasks that are not done.
CancelManaged(t) ==
  LET s == PauseConfirmed(db, t)
      closed == {t} \cup {c \in Members(t) : row(c).status # "done"}
      shut(u) == [s.task[u] EXCEPT !.status = "canceled", !.run = "none"]
  IN
  /\ May(t, "cancel")
  /\ Managed(db, t) /\ Stoppable(t)
  /\ db' = [s EXCEPT
       !.task = [u \in Task |-> IF u \in closed THEN shut(u) ELSE s.task[u]],
       !.queue = [u \in Task |->
         IF u \in closed /\ s.queue[u] # "none" THEN "done" ELSE s.queue[u]]]
-----------------------------------------------------------------------------
(* Editing a task while the board runs (PATCH).                            *)

Editable(t) ==
  IsChild(t) => row(RootOf[t]).status \notin {"done", "canceled"}

SetDraft(t) ==
  /\ May(t, "draft")
  /\ row(t).status = "in_progress" => row(t).draft
  /\ db' = Put(db, t, [row(t) EXCEPT !.draft = ~@])

\* Locked once the task has a thread, a worktree or a baseline.  Switching to
\* "parallel" moves the execution to a worktree for good, which a running task
\* of the local checkout may not do.
EditMode(t) ==
  /\ May(t, "mode")
  /\ ~IsChild(t) /\ row(t).turn = "none" /\ ~row(t).prepared
  /\ row(t).local => row(t).status # "in_progress"
  /\ db' = Put(db, t, [row(t) EXCEPT
       !.mode = IF @ = "parallel" THEN "exclusive" ELSE "parallel",
       !.local = FALSE])

EditScopes(t) ==
  /\ May(t, "scopes")
  /\ t \notin Group /\ Editable(t)
  /\ row(t).status = "in_progress" => row(t).paused
  /\ ~row(t).worker
  /\ \E scopes \in {{p} : p \in Path} \ {row(t).scopes} :
       db' = Put(db, t, [row(t) EXCEPT !.scopes = scopes])
-----------------------------------------------------------------------------
(* Parallel groups.                                                        *)

\* start_group: the group reserves the union of its subtasks' scopes, or
\* remembers that it is wanted.
GroupStarted(s, g) ==
  IF s.task[g].status # "todo" \/ s.task[g].phase # "submitted" THEN s
  ELSE IF Eligible(s, g, TRUE)
    THEN Put(Reserve(s, g), g, [s.task[g] EXCEPT !.status = "in_progress",
                                                 !.wanted = FALSE])
    ELSE Put(s, g, [s.task[g] EXCEPT !.wanted = TRUE])

\* group_submit, and group_resume, which also starts the group.
GroupSubmit(g) ==
  LET s1 == Moved(db, g, "todo", "none")
      s2 == [s1 EXCEPT !.task = [u \in Task |->
               IF u = g THEN [s1.task[u] EXCEPT !.phase = "submitted",
                                !.paused = FALSE, !.merge = "none"]
               ELSE IF u \in Children(g)
                 THEN [s1.task[u] EXCEPT !.paused = FALSE,
                         !.again = @ \/ /\ s1.task[u].turn # "none"
                                        /\ s1.task[u].status = "in_progress"
                                        /\ s1.task[u].run = "failed"]
               ELSE s1.task[u]]]
  IN
  /\ May(g, "group")
  /\ g \in Group
  /\ row(g).phase \in {"preparing", "paused"}
  /\ row(g).status \notin {"done", "canceled"}
  /\ Children(g) # {}
  /\ \A c \in Children(g) : ~row(c).draft /\ row(c).status # "canceled"
  /\ \E resume \in BOOLEAN :
       db' = IF resume \/ g \in Automated THEN GroupStarted(s2, g) ELSE s2

RunGroup(g) ==
  /\ May(g, "group")
  /\ g \in Group /\ row(g).phase = "submitted" /\ row(g).status = "todo"
  /\ db' = GroupStarted(db, g)

DispatchGroup(g) ==
  /\ g \in Group /\ row(g).phase = "submitted" /\ row(g).status = "todo"
  /\ g \in Automated \/ row(g).wanted
  /\ db' = GroupStarted(db, g)

GroupPrepared(g) ==
  /\ Preparing(g)
  /\ db' = Put(db, g, [row(g) EXCEPT !.prepared = TRUE])

GroupPrepareFails(g) ==
  /\ May(g, "fail") /\ g \in Group
  /\ row(g).phase \in {"submitted", "pausing"}
  /\ row(g).status = "in_progress" /\ ~row(g).prepared
  /\ db' = Put(ReleaseAll(db, g), g,
              [row(g) EXCEPT !.phase = "paused", !.paused = TRUE, !.run = "failed"])

\* settle_group: the group is ready for its one review.
GroupSettled(s, g) ==
  LET moved == Moved(s, g, "in_review", "none") IN
  IF /\ s.task[g].phase = "submitted" /\ s.task[g].merge = "none"
     /\ Children(g) # {}
     /\ \A c \in Children(g) : /\ s.task[c].status = "done"
                               /\ s.task[c].merge = "merged"
                               /\ ~s.task[c].stale
    THEN Put(moved, g, [moved.task[g] EXCEPT
           !.result = TRUE,
           !.merge = IF g \in Reviewed THEN "pending_review" ELSE "queued"])
    ELSE s

DispatchSettle(g) ==
  /\ g \in Group /\ GroupOpen(g)
  /\ GroupSettled(db, g) # db
  /\ db' = GroupSettled(db, g)
-----------------------------------------------------------------------------
(* The merge queue, at the grain the reservations need: a candidate is     *)
(* prepared and verified between MergePrepare and its end.                 *)

\* "Confirm and merge", or the retry of a blocked merge.
Approve(t) ==
  /\ Managed(db, t) /\ row(t).result /\ ~row(t).paused
  /\ \/ row(t).merge = "pending_review"
     \/ row(t).merge = "blocked" /\ May(t, "merge_retry")
  /\ ParentSubmitted(db, t)
  /\ db' = Put(db, t, [row(t) EXCEPT !.merge = "queued"])

LocalExecution(s, t) ==
  \E o \in Task \ {t} : /\ SameRepo(o, t) /\ s.task[o].local
                        /\ s.task[o].status = "in_progress" /\ Executing(s, o)

\* One worker per repository, irrespective of the number of executions.
MergePrepare(t) ==
  LET merge(s, state, worker) ==
        Put(s, t, [row(t) EXCEPT !.merge = state, !.worker = worker])
  IN
  /\ row(t).merge = "queued" /\ ~row(t).paused /\ ParentSubmitted(db, t)
  /\ \A o \in Task : SameRepo(o, t) => ~row(o).worker
  /\ \/ May(t, "fail") /\ db' = merge(db, "blocked", FALSE)
     \/ db' = IF row(t).conflict \/ ~row(t).result \/ ~ScopesFree(db, t)
                THEN merge(db, "blocked", FALSE)
              ELSE IF LocalExecution(db, t)
                THEN merge(ReserveScopes(db, t), "blocked", FALSE)
              ELSE merge(ReserveScopes(db, t), "merging", TRUE)

\* The last checks before the target branch moves, and merged().
MayPublish(t) ==
  /\ row(t).merge = "merging" /\ db.queue[t] # "pending"
  /\ ~row(t).conflict /\ ~row(t).paused /\ row(t).status # "canceled"
  /\ ParentSubmitted(db, t) /\ ~LocalExecution(db, t)

MergePublish(t) ==
  LET moved == Moved(db, t, "done", "none")
      s == Put(moved, t, [moved.task[t] EXCEPT !.merge = "merged", !.worker = FALSE])
  IN
  /\ row(t).worker /\ MayPublish(t)
  /\ db' = IF IsChild(t) THEN GroupSettled(s, RootOf[t]) ELSE s

\* The target branch has moved: the merge is prepared again.
MergeSuperseded(t) ==
  /\ May(t, "fail")
  /\ row(t).worker /\ MayPublish(t)
  /\ db' = Put(db, t, [row(t) EXCEPT !.merge = "queued", !.worker = FALSE])

\* A conflict, a failed verification, or one of the checks above: the worker
\* ends with the task blocked, whatever has become of the task meanwhile.
MergeFails(t) ==
  /\ row(t).worker
  /\ May(t, "fail") \/ ~MayPublish(t)
  /\ db' = Put(db, t, [row(t) EXCEPT !.merge = "blocked", !.worker = FALSE])
-----------------------------------------------------------------------------
UserAction(t) ==
  \/ RunTask(t) \/ SubmitFeedback(t) \/ Retry(t) \/ Resume(t)
  \/ FollowUpQueued(t) \/ FollowUpStarted(t) \/ FollowUpRefused(t)
  \/ Finish(t) \/ InterruptRequeue(t) \/ Pause(t) \/ PauseUnconfirmed(t)
  \/ CancelManaged(t) \/ SetDraft(t) \/ EditMode(t) \/ EditScopes(t)
  \/ GroupSubmit(t) \/ RunGroup(t) \/ Approve(t)

LoopAction(t) ==
  \/ DispatchQueued(t) \/ DispatchTodo(t) \/ DispatchResumed(t)
  \/ DispatchGroup(t) \/ DispatchSettle(t)
  \/ QuotaResume(t) \/ Reconnect(t) \/ Reevaluate(t) \/ ReevaluateFails(t)
  \/ NativeEnded(t)

CodexAction(t) ==
  \/ Started(t) \/ StartFails(t) \/ Completes(t) \/ Fails(t) \/ QuotaWait(t)
  \/ EndsUnobserved(t) \/ ConnectionLost(t) \/ AdoptNative(t)
  \/ GroupPrepared(t) \/ GroupPrepareFails(t)
  \/ MergePrepare(t) \/ MergePublish(t) \/ MergeSuperseded(t) \/ MergeFails(t)

Next == \E t \in Task : UserAction(t) \/ LoopAction(t) \/ CodexAction(t)

Spec == Init /\ [][Next]_vars

\* The loop wakes at every change and at least every five seconds, every start
\* is answered within the RPC timeout, and every merge worker ends.  Turns end
\* because Codex ends them.  Users promise nothing.
Fairness ==
  \A t \in Task :
    /\ WF_vars(DispatchQueued(t)) /\ WF_vars(DispatchTodo(t))
    /\ WF_vars(DispatchGroup(t)) /\ WF_vars(DispatchSettle(t))
    /\ WF_vars(GroupPrepared(t))
    /\ WF_vars(Started(t)) /\ WF_vars(Completes(t))
    /\ WF_vars(MergePrepare(t))
    /\ WF_vars(MergePublish(t) \/ MergeSuperseded(t) \/ MergeFails(t))

FairSpec == Spec /\ Fairness
-----------------------------------------------------------------------------
(* Properties.                                                             *)

\* Every table keeps the shape its migration and its writers give it.
TypeOK == db \in Tables

Granted(t) == db.lease[t] # "none" /\ ~db.forced[t]

\* A turn that runs holds an execution lease, whatever stopped, failed, was
\* continued or was adopted around it.
RunningHoldsLease == \A t \in Task : row(t).turn = "active" => db.lease[t] # "none"

\* Executions of different roots share a repository only when both were let
\* in as parallel ones; native turns adopted against the rules are apart.
Isolation ==
  \A t, o \in Task :
    Granted(t) /\ Granted(o) /\ SameRepo(t, o) /\ RootOf[t] # RootOf[o] =>
      db.lease[t] = "parallel" /\ db.lease[o] = "parallel"

\* No two owners of one namespace reserve overlapping scopes.
ScopesDisjoint ==
  \A t, o \in Task :
    t # o /\ ScopeNamespace(t) = ScopeNamespace(o) =>
      \A a \in db.scope[t], b \in db.scope[o] : ~Overlaps(a, b)

\* No two owners of one namespace hold the same resource.
ResourcesExclusive ==
  \A t, o \in Task :
    t # o /\ ResourceNamespace(t) = ResourceNamespace(o) =>
      db.resource[t] \cap db.resource[o] = {}

\* An execution the board let in still owns, itself and through its group,
\* every resource it declared.  A subtask that is run before its group has a
\* worktree is apart: it is turned away at its start.
RunningOwnsResources ==
  \A t \in Task : Granted(t) /\ ~Unready(t) =>
    \A o \in Owners(t) : NeedsOf(t) \subseteq db.resource[o]

\* A dispatched execution never exceeds the repository's budget.
BudgetKept ==
  [][\A t \in Task :
       /\ db.lease[t] = "none" /\ db'.lease[t] # "none" /\ ~db'.forced[t]
       /\ Budget[RepoOf[t]] > 0
       => Cardinality({o \in Task : SameRepo(o, t) /\ db'.lease[o] # "none"})
            <= Budget[RepoOf[t]]]_vars

\* Results that wait for review or integration keep what they reserved: a
\* reservation is only brought up to date with the declaration, never dropped.
Awaiting(s, t) ==
  /\ s.task[t].result /\ ~s.task[t].paused /\ s.task[t].status # "canceled"
  /\ s.task[t].merge \in {"pending_review", "queued", "merging", "blocked"}

ReservationsLast ==
  [][\A t \in Task : Awaiting(db, t) /\ Awaiting(db', t) =>
       /\ db.scope[t] \subseteq db'.scope[t] \/ db'.scope[t] = ScopesOf(db, t)
       /\ db.resource[t] \subseteq db'.resource[t]]_vars

\* A managed task is marked done by a merge that was under way, only.
DoneByMerge ==
  [][\A t \in Task :
       Managed(db', t) /\ row(t).status # "done" /\ db'.task[t].status = "done"
         => row(t).merge = "merging" /\ db'.task[t].merge = "merged"]_vars

\* Reworking an integrated task marks every started consumer of its result: every one
\* that has a thread or a result. One that is claimed and has neither yet is not marked.
ReworkMarks ==
  [][\A t \in Task \ Group :
       row(t).merge = "merged" /\ db'.task[t].merge # "merged" =>
         \A d \in Downstream(t) :
           row(d).turn # "none" \/ row(d).result => db'.task[d].stale]_vars

\* A group is under review, merging or merged only while all its subtasks are
\* integrated and none of them has to be validated again.
GroupReviewComplete ==
  \A g \in Group : row(g).merge \notin {"none", "blocked"} =>
    \A c \in Children(g) : row(c).merge = "merged" /\ ~row(c).stale

\* A ready exclusive task that has been asked to run does run.
ExclusiveRuns ==
  \A t \in Task \ Group :
    db.queue[t] = "pending" /\ row(t).mode = "exclusive" ~> db.queue[t] # "pending"

\* The leases granted by dispatch implement the lock.
Lock == INSTANCE RepoLock WITH
          holds <- [t \in Task |-> IF db.forced[t] THEN "none" ELSE db.lease[t]]
LockSpec == Lock!Spec
=============================================================================
