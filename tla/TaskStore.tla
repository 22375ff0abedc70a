------------------------------ MODULE TaskStore ------------------------------
(***************************************************************************)
(* The durable scheduling state of the task board (the SQLite tables of     *)
(* db.py and parallel_db.py) and the transactions that change it.           *)
(*                                                                         *)
(* The tables are one record:                                              *)
(*   task      the rows of "tasks", the columns scheduling reads, and       *)
(*             whether the repository's merge worker is on the task (memory) *)
(*   queue     execution_queue.state of the task, "none" without a row      *)
(*   lease     execution_leases.mode of the task, "none" without a row      *)
(*   forced    history: the lease was inserted although eligibility refused *)
(*   scope     scope_leases of the owner: a top-level owner's row is in the *)
(*             namespace of its repository, a subtask's in its group's      *)
(*   resource  resource_leases of the owner: a top-level owner's rows are   *)
(*             board-wide, a subtask's are in its group's namespace         *)
(* Every operator below takes the tables and returns the tables, so that a  *)
(* handler that makes several of these calls in one transaction is their    *)
(* composition.                                                            *)
(***************************************************************************)
EXTENDS Naturals, FiniteSets, Sequences

CONSTANTS
  Task,          \* tasks, subtasks and parallel groups
  Group,         \* those with kind = "parallel_group"
  RootOf,        \* parent_id of a subtask, the task itself otherwise
  RepoOf,        \* key of the Git repository of the task's project
  Rank,          \* position in the order of rank(): priority, then creation
  Blockers,      \* task_dependencies: the tasks a task waits for
  Path,          \* repository-relative paths, as sequences of components
  Resource,      \* names of shared resources
  Needs,         \* shared_resources declared by a task
  Budget,        \* strictest maxConcurrentTasks of the repository, 0: unlimited
  Automated,     \* tasks of projects with automationEnabled
  Reviewed,      \* tasks of projects with reviewRequired
  InitialMode,   \* scheduling_mode at creation
  InitialScopes, \* write_scopes at creation
  InitialLocal   \* tasks created with execution_mode = "local"

Mode == {"exclusive", "parallel"}

IsChild(t) == RootOf[t] # t
Children(g) == {c \in Task : IsChild(c) /\ RootOf[c] = g}

ASSUME TaskAssumption ==
  /\ Group \subseteq Task
  /\ RootOf \in [Task -> Task]
  /\ \A t \in Task : IsChild(t) => RootOf[t] \in Group /\ t \notin Group
  /\ \A t \in Task : RootOf[RootOf[t]] = RootOf[t]
  /\ \A t \in Task : RepoOf[RootOf[t]] = RepoOf[t]
  /\ Blockers \in [Task -> SUBSET Task]
  /\ Needs \in [Task -> SUBSET Resource]
  /\ Path \subseteq Seq(STRING)
  /\ InitialMode \in [Task -> Mode]
  /\ InitialScopes \in [Task -> SUBSET Path]
  /\ \A g \in Group : InitialScopes[g] = {} /\ Needs[g] = {}
  /\ InitialLocal \subseteq Task \ Group

ASSUME BudgetAssumption ==
  IsFiniteSet(Task) /\ \A t \in Task : Budget[RepoOf[t]] \in Nat

Status == {"todo", "in_progress", "in_review", "done", "canceled"}
RunState == {"none", "starting", "running", "waiting_quota", "failed"}
MergeState == {"none", "pending_review", "queued", "merging", "blocked", "merged"}
Phase == {"none", "preparing", "submitted", "pausing", "paused"}
\* The latest turn of the task's Codex thread; "none": no thread is recorded.
Turn == {"none", "idle", "active", "completed"}

Row == [status: Status, run: RunState, mode: Mode, local: BOOLEAN,
        scopes: SUBSET Path, draft: BOOLEAN, turn: Turn, paused: BOOLEAN,
        conflict: BOOLEAN, stale: BOOLEAN, merge: MergeState, result: BOOLEAN,
        phase: Phase, prepared: BOOLEAN, wanted: BOOLEAN, again: BOOLEAN,
        worker: BOOLEAN]

Tables == [task: [Task -> Row],
           queue: [Task -> {"none", "pending", "claimed", "done"}],
           lease: [Task -> Mode \cup {"none"}],
           forced: [Task -> BOOLEAN],
           scope: [Task -> SUBSET Path],
           resource: [Task -> SUBSET Resource]]

\* The tables after create_task of every task, before anything has run.
Created ==
  [task |-> [t \in Task |->
     [status |-> "todo", run |-> "none", mode |-> InitialMode[t],
      local |-> t \in InitialLocal, scopes |-> InitialScopes[t],
      draft |-> FALSE, turn |-> "none", paused |-> FALSE, conflict |-> FALSE,
      stale |-> FALSE, merge |-> "none", result |-> FALSE,
      phase |-> IF t \in Group THEN "preparing" ELSE "none",
      prepared |-> FALSE, wanted |-> FALSE, again |-> FALSE,
      worker |-> FALSE]],
   queue |-> [t \in Task |-> "none"],
   lease |-> [t \in Task |-> "none"],
   forced |-> [t \in Task |-> FALSE],
   scope |-> [t \in Task |-> {}],
   resource |-> [t \in Task |-> {}]]
-----------------------------------------------------------------------------
(* Reading the tables.                                                     *)

\* parallel_state.managed: delivered by a merge that the board makes.
Managed(s, t) == t \in Group \/ IsChild(t) \/ s.task[t].mode = "parallel"

\* run_state of a row that counts as an execution of its own.
Executing(s, t) == s.task[t].run \in {"starting", "running"}

SameRepo(t, o) == RepoOf[t] = RepoOf[o]

Delivered(s, b) ==
  /\ s.task[b].status = "done"
  /\ ~s.task[b].stale
  /\ Managed(s, b) => s.task[b].merge = "merged"

DependenciesReady(s, t) == \A b \in Blockers[t] : Delivered(s, b)

\* Every task that waits for t, directly or through others.
Consumers ==
  [t \in Task |->
    LET Closed(S) == \A d \in Task : Blockers[d] \cap (S \cup {t}) # {} => d \in S
    IN  {d \in Task : \A S \in SUBSET Task : Closed(S) => d \in S}]
Downstream(t) == Consumers[t]

\* replace_dependencies takes blockers of the same parent only, and no cycle.
ASSUME DependencyAssumption ==
  /\ \A d \in Task : \A b \in Blockers[d] :
       IF IsChild(d) THEN IsChild(b) /\ RootOf[b] = RootOf[d] ELSE ~IsChild(b)
  /\ \A t \in Task : t \notin Consumers[t]

Prefix(a, b) == Len(a) <= Len(b) /\ SubSeq(b, 1, Len(a)) = a
\* Mutant: a scope inside a reserved one is not seen.
OverlapsOneWay(a, b) == Prefix(a, b)
Overlaps(a, b) == Prefix(a, b) \/ Prefix(b, a)

\* A group asks for the union of what its subtasks declare.
ScopesOf(s, t) ==
  IF t \in Group THEN UNION {s.task[c].scopes : c \in Children(t)}
                 ELSE s.task[t].scopes
NeedsOf(t) ==
  IF t \in Group THEN UNION {Needs[c] : c \in Children(t)} ELSE Needs[t]

\* The owners a reservation for t writes: the group too, for a subtask.
Owners(t) == {RootOf[t], t}

ScopeNamespace(t) ==
  IF IsChild(t) THEN <<"group", RootOf[t]>> ELSE <<"repository", RepoOf[t]>>
ResourceNamespace(t) ==
  IF IsChild(t) THEN <<"group", RootOf[t]>> ELSE <<"global">>

\* Mutant: a subtask is compared in the repository's namespace only.
ScopesFreeInRoot(s, t) ==
  \A other \in Task \ {RootOf[t]} :
    ScopeNamespace(other) = ScopeNamespace(RootOf[t]) =>
      \A a \in ScopesOf(s, RootOf[t]), b \in s.scope[other] : ~Overlaps(a, b)

ScopesFree(s, t) ==
  \A o \in Owners(t), other \in Task :
    other # o /\ ScopeNamespace(other) = ScopeNamespace(o) =>
      \A a \in ScopesOf(s, o), b \in s.scope[other] : ~Overlaps(a, b)

\* Mutant: a result that waits for its merge no longer counts.
ResourcesFreeOfRunning(s, t) ==
  \A o \in Owners(t), other \in Task :
    /\ other # o /\ ResourceNamespace(other) = ResourceNamespace(o)
    /\ s.lease[other] # "none"
    => NeedsOf(o) \cap s.resource[other] = {}

ResourcesFree(s, t) ==
  \A o \in Owners(t), other \in Task :
    other # o /\ ResourceNamespace(other) = ResourceNamespace(o) =>
      NeedsOf(o) \cap s.resource[other] = {}

\* Mutant: the task that asks is not counted.
WithinBudgetOffByOne(s, t) ==
  Budget[RepoOf[t]] > 0 =>
    Cardinality({o \in Task \ {t} : SameRepo(o, t) /\ s.lease[o] # "none"})
      <= Budget[RepoOf[t]]

WithinBudget(s, t) ==
  Budget[RepoOf[t]] > 0 =>
    Cardinality({o \in Task \ {t} : SameRepo(o, t) /\ s.lease[o] # "none"})
      < Budget[RepoOf[t]]

\* No lease of another root excludes t, and t is not executing already.
LeasesAdmit(s, t) ==
  \A o \in Task : SameRepo(o, t) /\ s.lease[o] # "none" =>
    IF o = t THEN ~Executing(s, t)
    ELSE RootOf[o] # RootOf[t] =>
           s.task[RootOf[t]].mode # "exclusive" /\ s.lease[o] # "exclusive"

\* A group that has started, or a turn, occupies the repository without a lease.
Occupies(s, o) ==
  /\ s.task[o].status = "in_progress"
  /\ \/ o \in Group /\ s.task[o].phase = "submitted"
     \/ Executing(s, o)

OccupantsAdmit(s, t) ==
  \A o \in Task : o # t /\ RootOf[o] # RootOf[t] /\ SameRepo(o, t) =>
    /\ ~s.task[o].conflict
    /\ Occupies(s, o) => /\ s.task[RootOf[t]].mode = "parallel"
                         /\ s.task[RootOf[o]].mode = "parallel"

\* Mutant: only tasks that were never queued bar the way.
BarsUnqueued(s, e, t) ==
  /\ ~IsChild(e) /\ e # RootOf[t] /\ Rank[e] < Rank[RootOf[t]] /\ SameRepo(e, t)
  /\ s.task[e].status = "todo" /\ (s.task[e].wanted \/ e \in Automated)
  /\ s.task[e].mode = "exclusive" /\ ~s.task[e].draft /\ ~s.task[e].paused
  /\ DependenciesReady(s, e)
  /\ e \in Group => s.task[e].phase = "submitted"

\* e is a ready exclusive task in front of t, which t may not overtake.
Bars(s, e, t) ==
  /\ ~IsChild(e) /\ e # RootOf[t] /\ Rank[e] < Rank[RootOf[t]] /\ SameRepo(e, t)
  /\ \/ s.queue[e] = "pending"
     \/ s.task[e].status = "todo" /\ (s.task[e].wanted \/ e \in Automated)
  /\ s.task[e].mode = "exclusive" /\ ~s.task[e].draft /\ ~s.task[e].paused
  /\ DependenciesReady(s, e)
  /\ e \in Group => s.task[e].phase = "submitted"

\* eligibility() returns None.
Eligible(s, t, fairness) ==
  LET root == s.task[RootOf[t]] IN
  /\ DependenciesReady(s, t)
  /\ ~s.task[t].paused /\ ~s.task[t].conflict
  /\ ~root.draft
  /\ RootOf[t] \in Group =>
       root.phase = "submitted" /\ (IsChild(t) => root.status = "in_progress")
  /\ t \notin Group => WithinBudget(s, t)
  /\ LeasesAdmit(s, t)
  /\ OccupantsAdmit(s, t)
  /\ fairness => \A e \in Task : ~Bars(s, e, t)
  /\ ResourcesFree(s, t)
  /\ ScopesFree(s, t)
-----------------------------------------------------------------------------
(* Changing the tables.                                                    *)

\* update_task and set_parallel: one row is written again.
Put(s, t, r) == [s EXCEPT !.task[t] = r]

\* Mutant: the end of an execution also drops its reservations.
ReleaseReservations(s, t) ==
  [s EXCEPT !.lease[t] = "none", !.forced[t] = FALSE,
            !.scope[t] = {}, !.resource[t] = {}]

Release(s, t) == [s EXCEPT !.lease[t] = "none", !.forced[t] = FALSE]

ReleaseAll(s, t) ==
  [Release(s, t) EXCEPT !.scope[t] = {}, !.resource[t] = {}]

FinishQueue(s, t) ==
  [s EXCEPT !.queue[t] = IF @ = "none" THEN "none" ELSE "done"]

\* Mutant: every task that leaves in_progress loses its reservations.
MovedReleasing(s, t, status, run) ==
  LET set == Put(s, t, [s.task[t] EXCEPT !.status = status, !.run = run])
  IN  IF status = "in_progress" THEN set ELSE FinishQueue(ReleaseAll(set, t), t)

\* What update_task gives back with a status: the lease unless the task is in
\* progress, and the reservations unless it is managed and not over.
GivenBack(s, t, status) ==
  IF status = "in_progress" THEN s
  ELSE FinishQueue(IF status \in {"done", "canceled"} \/ ~Managed(s, t)
                     THEN ReleaseAll(s, t) ELSE Release(s, t), t)

\* update_task(status, run_state).
Moved(s, t, status, run) ==
  GivenBack(Put(s, t, [s.task[t] EXCEPT !.status = status, !.run = run]), t, status)

ReserveScopes(s, t) ==
  [s EXCEPT !.scope = [o \in Task |->
     IF o \in Owners(t) THEN ScopesOf(s, o) ELSE s.scope[o]]]

Reserve(s, t) ==
  [ReserveScopes(s, t) EXCEPT !.resource = [o \in Task |->
     IF o \in Owners(t) THEN s.resource[o] \cup NeedsOf(o) ELSE s.resource[o]]]

\* Mutant: the consumers of consumers are forgotten.
MarkDirectConsumers(s, t) ==
  [s EXCEPT !.task = [u \in Task |->
     [s.task[u] EXCEPT
        !.merge = IF IsChild(t) /\ u = RootOf[t] THEN "none" ELSE @,
        !.stale = @ \/ /\ t \in Blockers[u]
                       /\ s.task[u].turn # "none" \/ s.task[u].result]]]

\* Mutant: the review of the group goes on.
MarkKeepingReview(s, t) ==
  [s EXCEPT !.task = [u \in Task |->
     [s.task[u] EXCEPT
        !.stale = @ \/ /\ u \in Downstream(t)
                       /\ s.task[u].turn # "none" \/ s.task[u].result]]]

MarkDownstreamStale(s, t) ==
  [s EXCEPT !.task = [u \in Task |->
     [s.task[u] EXCEPT
        !.merge = IF IsChild(t) /\ u = RootOf[t] THEN "none" ELSE @,
        !.stale = @ \/ /\ u \in Downstream(t)
                       /\ s.task[u].turn # "none" \/ s.task[u].result]]]

\* claim_candidate: the transaction either takes the lease or leaves the task.
Claimable(s, t) == t \notin Group /\ ~s.task[t].draft /\ Eligible(s, t, TRUE)

Claimed(s, t) ==
  [Reserve(s, t) EXCEPT
     !.lease[t] = s.task[RootOf[t]].mode,
     !.forced[t] = FALSE,
     !.queue[t] = IF @ = "none" THEN "none" ELSE "claimed",
     !.task[t] = [@ EXCEPT !.status = "in_progress", !.run = "starting",
                           !.paused = FALSE, !.merge = "none", !.stale = FALSE]]

TryClaim(s, t) == IF Claimable(s, t) THEN Claimed(s, t) ELSE s

\* enqueue raises unless this holds.
EnqueueOK(s, t) ==
  /\ s.queue[t] \notin {"pending", "claimed"}
  /\ ~s.task[t].draft
  /\ t \notin Group
  /\ IsChild(t) => /\ s.task[RootOf[t]].phase = "submitted"
                   /\ s.task[RootOf[t]].status \in {"in_progress", "in_review"}

\* A continuation of a subtask reopens the review of its group.
Reopened(s, t) ==
  LET parent == RootOf[t]
      todo == Moved(s, parent, "todo", s.task[parent].run)
  IN  IF IsChild(t) /\ s.task[parent].status = "in_review"
        THEN Put(todo, parent, [todo.task[parent] EXCEPT !.merge = "none",
                                                         !.wanted = TRUE])
        ELSE s

Enqueued(s, t, prompted) ==
  LET rework == prompted /\ Managed(s, t)
      s1 == Reopened(s, t)
      s2 == [Put(s1, t, [s1.task[t] EXCEPT !.paused = FALSE,
                                           !.merge = IF rework THEN "none" ELSE @])
               EXCEPT !.queue[t] = "pending"]
  IN  IF rework THEN MarkDownstreamStale(s2, t) ELSE s2
=============================================================================
