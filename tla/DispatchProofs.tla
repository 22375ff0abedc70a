---------------------------- MODULE DispatchProofs ----------------------------
(***************************************************************************)
(* For every board, whatever its tasks, groups, repositories, scopes,       *)
(* resources and budgets: the tables keep their types, granted leases keep  *)
(* the repositories apart, and reservations of one namespace are disjoint;   *)
(* and the rows of the board, its queue and its leases agree.               *)
(*                                                                         *)
(* First, the four facts about the tables, proved together as Sound.  A     *)
(* transaction that only gives back leases and reservations (Narrows) keeps *)
(* Sound; the ones that take some, Claimed, Occupied, GroupStarted and a     *)
(* merge's ReserveScopes, keep it because Eligible was evaluated in the     *)
(* same transaction.  Every action is a composition of such transactions.   *)
(***************************************************************************)
EXTENDS Dispatch, TLAPS

IsolatedIn(s) ==
  \A t, o \in Task :
    /\ s.lease[t] # "none" /\ ~s.forced[t] /\ s.lease[o] # "none" /\ ~s.forced[o]
    /\ SameRepo(t, o) /\ RootOf[t] # RootOf[o]
    => s.lease[t] = "parallel" /\ s.lease[o] = "parallel"

ScopesDisjointIn(s) ==
  \A t, o \in Task :
    t # o /\ ScopeNamespace(t) = ScopeNamespace(o) =>
      \A a \in s.scope[t], b \in s.scope[o] : ~Overlaps(a, b)

ResourcesExclusiveIn(s) ==
  \A t, o \in Task :
    t # o /\ ResourceNamespace(t) = ResourceNamespace(o) =>
      s.resource[t] \cap s.resource[o] = {}

Sound(s) ==
  s \in Tables /\ IsolatedIn(s) /\ ScopesDisjointIn(s) /\ ResourcesExclusiveIn(s)

Narrows(s, n) ==
  \A t \in Task :
    /\ \/ n.lease[t] = "none"
       \/ n.lease[t] = s.lease[t] /\ n.forced[t] = s.forced[t]
    /\ n.scope[t] \subseteq s.scope[t]
    /\ n.resource[t] \subseteq s.resource[t]

\* Giving leases and reservations back keeps the tables sound.
LEMMA NarrowsSound ==
  ASSUME NEW s, NEW n \in Tables, Sound(s), Narrows(s, n)
  PROVE  Sound(n)
<1>1. IsolatedIn(n)
  BY DEF Sound, Narrows, IsolatedIn, SameRepo
<1>2. ScopesDisjointIn(n)
  BY DEF Sound, Narrows, ScopesDisjointIn
<1>3. ResourcesExclusiveIn(n)
  BY DEF Sound, Narrows, ResourcesExclusiveIn
<1> QED
  BY <1>1, <1>2, <1>3 DEF Sound

-----------------------------------------------------------------------------
(* The transactions of the task store.                                     *)

\* Writing a row keeps the tables sound: leases and reservations are apart.
LEMMA PutSound ==
  ASSUME NEW s, Sound(s), NEW t \in Task, NEW r \in Row
  PROVE  Sound(Put(s, t, r)) /\ Put(s, t, r).task = [s.task EXCEPT ![t] = r]
<1>1. Put(s, t, r) \in Tables
  BY DEF Sound, Tables, Put
<1>2. Narrows(s, Put(s, t, r))
  BY DEF Sound, Tables, Put, Narrows
<1> QED
  BY <1>1, <1>2, NarrowsSound DEF Sound, Tables, Put

\* A sound record of tables has a row for every task.
LEMMA RowOf ==
  ASSUME NEW s, Sound(s), NEW t \in Task
  PROVE  s.task[t] \in Row
BY DEF Sound, Tables

\* release_execution of a lease keeps the tables sound and the rows as they are.
LEMMA ReleaseSound ==
  ASSUME NEW s, Sound(s), NEW t \in Task
  PROVE  Sound(Release(s, t)) /\ Release(s, t).task = s.task
<1>1. Release(s, t) \in Tables
  BY DEF Sound, Tables, Release
<1>2. Narrows(s, Release(s, t))
  BY DEF Sound, Tables, Release, Narrows
<1> QED
  BY <1>1, <1>2, NarrowsSound DEF Release, Sound, Tables

\* release_execution with scopes keeps the tables sound and the rows as they are.
LEMMA ReleaseAllSound ==
  ASSUME NEW s, Sound(s), NEW t \in Task
  PROVE  Sound(ReleaseAll(s, t)) /\ ReleaseAll(s, t).task = s.task
<1> DEFINE n == Release(s, t)
<1>1. ReleaseAll(s, t) = [n EXCEPT !.scope[t] = {}, !.resource[t] = {}]
  BY DEF ReleaseAll
<1>2. Sound(n) /\ n.task = s.task
  BY ReleaseSound
<1> HIDE DEF n
<1>3. ReleaseAll(s, t) \in Tables
  <2>1. [n EXCEPT !.scope[t] = {}] \in Tables
    BY <1>2 DEF Sound, Tables
  <2>2. [[n EXCEPT !.scope[t] = {}] EXCEPT !.resource[t] = {}] \in Tables
    BY <2>1 DEF Tables
  <2> QED
    BY <1>1, <2>2
<1>4. Narrows(n, ReleaseAll(s, t))
  BY <1>1, <1>2 DEF Sound, Tables, Narrows
<1>5. Sound(ReleaseAll(s, t))
  BY <1>2, <1>3, <1>4, NarrowsSound
<1>6. ReleaseAll(s, t).task = n.task
  BY <1>1, <1>2 DEF Sound, Tables
<1> QED
  BY <1>2, <1>5, <1>6

\* finish_queue keeps the tables sound and the rows as they are.
LEMMA FinishQueueSound ==
  ASSUME NEW s, Sound(s), NEW t \in Task
  PROVE  Sound(FinishQueue(s, t)) /\ FinishQueue(s, t).task = s.task
<1> DEFINE q == IF s.queue[t] = "none" THEN "none" ELSE "done"
<1>1. FinishQueue(s, t) = [s EXCEPT !.queue[t] = q]
  BY DEF FinishQueue
<1>2. q \in {"none", "pending", "claimed", "done"}
  OBVIOUS
<1> HIDE DEF q
<1>3. FinishQueue(s, t) \in Tables
  BY <1>1, <1>2 DEF Sound, Tables
<1>4. Narrows(s, FinishQueue(s, t))
  BY <1>1 DEF Sound, Tables, Narrows
<1> QED
  BY <1>1, <1>3, <1>4, NarrowsSound DEF Sound, Tables

\* What update_task gives back with a status keeps the tables sound.
LEMMA GivenBackSound ==
  ASSUME NEW s, Sound(s), NEW t \in Task, NEW status
  PROVE  /\ Sound(GivenBack(s, t, status))
         /\ GivenBack(s, t, status).task = s.task
<1>1. /\ Sound(Release(s, t)) /\ Release(s, t).task = s.task
      /\ Sound(ReleaseAll(s, t)) /\ ReleaseAll(s, t).task = s.task
  BY ReleaseSound, ReleaseAllSound
<1>2. /\ Sound(FinishQueue(Release(s, t), t))
      /\ FinishQueue(Release(s, t), t).task = s.task
      /\ Sound(FinishQueue(ReleaseAll(s, t), t))
      /\ FinishQueue(ReleaseAll(s, t), t).task = s.task
  BY <1>1, FinishQueueSound
<1> QED
  BY <1>2 DEF GivenBack

\* update_task with a status and a run state keeps the tables sound.
LEMMA MovedSound ==
  ASSUME NEW s, Sound(s), NEW t \in Task, NEW status \in Status, NEW run \in RunState
  PROVE  Sound(Moved(s, t, status, run))
<1> DEFINE r == [s.task[t] EXCEPT !.status = status, !.run = run]
<1>1. r \in Row
  BY RowOf DEF Row
<1>2. Sound(Put(s, t, r))
  BY <1>1, PutSound
<1> QED
  BY <1>2, GivenBackSound DEF Moved

\* mark_downstream_stale changes flags of rows only.
LEMMA MarkDownstreamStaleSound ==
  ASSUME NEW s, Sound(s), NEW t \in Task
  PROVE  Sound(MarkDownstreamStale(s, t))
<1> DEFINE marked == MarkDownstreamStale(s, t)
           r(u) == [s.task[u] EXCEPT
                     !.merge = IF IsChild(t) /\ u = RootOf[t] THEN "none" ELSE @,
                     !.stale = @ \/ /\ u \in Downstream(t)
                                    /\ s.task[u].turn # "none" \/ s.task[u].result]
<1>1. ASSUME NEW u \in Task PROVE r(u) \in Row
  <2> DEFINE m == IF IsChild(t) /\ u = RootOf[t] THEN "none" ELSE s.task[u].merge
             w == s.task[u].stale \/ /\ u \in Downstream(t)
                                     /\ s.task[u].turn # "none" \/ s.task[u].result
  <2>1. s.task[u] \in Row
    BY RowOf
  <2>2. m \in MergeState
    BY <2>1 DEF Row, MergeState
  <2>3. w \in BOOLEAN
    OBVIOUS
  <2>4. r(u) = [s.task[u] EXCEPT !.merge = m, !.stale = w]
    OBVIOUS
  <2> HIDE DEF m, w
  <2> QED
    BY <2>1, <2>2, <2>3, <2>4 DEF Row
<1>2. marked = [s EXCEPT !.task = [u \in Task |-> r(u)]]
  BY DEF MarkDownstreamStale
<1> HIDE DEF r, marked
<1>3. marked \in Tables
  BY <1>1, <1>2 DEF Sound, Tables
<1>4. Narrows(s, marked)
  BY <1>2 DEF Sound, Tables, Narrows
<1> QED
  BY <1>3, <1>4, NarrowsSound DEF marked

-----------------------------------------------------------------------------
(* The transactions that take leases and reservations.                     *)

\* A reservation is written for the task and its root.
LEMMA OwnersAreTasks ==
  ASSUME NEW t \in Task
  PROVE  RootOf[t] \in Task /\ Owners(t) \subseteq Task
BY TaskAssumption DEF Owners

\* Every owner asks for paths of the repository, a group for their union.
LEMMA ScopesOfType ==
  ASSUME NEW s, Sound(s), NEW o \in Task
  PROVE  ScopesOf(s, o) \subseteq Path
<1>1. \A c \in Task : s.task[c].scopes \subseteq Path
  BY RowOf DEF Row
<1>2. Children(o) \subseteq Task
  BY DEF Children
<1> QED
  BY <1>1, <1>2 DEF ScopesOf

\* Every owner asks for resources the board knows.
LEMMA NeedsOfType ==
  ASSUME NEW o \in Task
  PROVE  NeedsOf(o) \subseteq Resource
BY TaskAssumption DEF NeedsOf, Children

\* It does not matter which of two scopes is reserved first.
LEMMA OverlapsSymmetric ==
  ASSUME NEW a, NEW b
  PROVE  Overlaps(a, b) <=> Overlaps(b, a)
BY DEF Overlaps

\* The owners a reservation writes are in different namespaces.
LEMMA OwnersApart ==
  ASSUME NEW t \in Task, NEW o \in Owners(t), NEW p \in Owners(t), o # p
  PROVE  /\ ScopeNamespace(o) # ScopeNamespace(p)
         /\ ResourceNamespace(o) # ResourceNamespace(p)
<1>1. ~IsChild(RootOf[t])
  BY TaskAssumption DEF IsChild
<1>2. IsChild(t)
  BY DEF Owners, IsChild
<1> QED
  BY <1>1, <1>2 DEF Owners, ScopeNamespace, ResourceNamespace

\* Replacing the scopes of a task's owners keeps the tables sound when the
\* new ones are free.
LEMMA ReserveScopesSound ==
  ASSUME NEW s, Sound(s), NEW t \in Task, ScopesFree(s, t)
  PROVE  /\ Sound(ReserveScopes(s, t))
         /\ ReserveScopes(s, t).task = s.task
         /\ ReserveScopes(s, t).lease = s.lease
         /\ ReserveScopes(s, t).forced = s.forced
         /\ ReserveScopes(s, t).resource = s.resource
<1> DEFINE f == [o \in Task |-> IF o \in Owners(t) THEN ScopesOf(s, o) ELSE s.scope[o]]
           n == ReserveScopes(s, t)
<1>1. n = [s EXCEPT !.scope = f]
  BY DEF ReserveScopes
<1>2. f \in [Task -> SUBSET Path]
  BY ScopesOfType DEF Sound, Tables
<1>3. ASSUME NEW u \in Task, NEW o \in Task, u # o,
             ScopeNamespace(u) = ScopeNamespace(o),
             NEW a \in f[u], NEW b \in f[o]
      PROVE  ~Overlaps(a, b)
  <2>1. CASE u \in Owners(t) /\ o \in Owners(t)
    BY <2>1, <1>3, OwnersApart
  <2>2. CASE u \in Owners(t) /\ o \notin Owners(t)
    BY <2>2, <1>3 DEF ScopesFree
  <2>3. CASE u \notin Owners(t) /\ o \in Owners(t)
    BY <2>3, <1>3, OverlapsSymmetric DEF ScopesFree
  <2>4. CASE u \notin Owners(t) /\ o \notin Owners(t)
    BY <2>4, <1>3 DEF Sound, ScopesDisjointIn
  <2> QED
    BY <2>1, <2>2, <2>3, <2>4
<1> HIDE DEF f, n
<1>4. n \in Tables
  BY <1>1, <1>2 DEF Sound, Tables
<1>5. /\ n.task = s.task /\ n.lease = s.lease /\ n.forced = s.forced
      /\ n.resource = s.resource /\ n.scope = f
  BY <1>1 DEF Sound, Tables
<1>6. IsolatedIn(n) /\ ResourcesExclusiveIn(n)
  BY <1>5 DEF Sound, IsolatedIn, ResourcesExclusiveIn
<1>7. ScopesDisjointIn(n)
  BY <1>3, <1>5 DEF ScopesDisjointIn
<1> QED
  BY <1>4, <1>5, <1>6, <1>7 DEF Sound, n

\* Adding the resources a task's owners declare does so when they are free.
LEMMA ReserveSound ==
  ASSUME NEW s, Sound(s), NEW t \in Task, ScopesFree(s, t), ResourcesFree(s, t)
  PROVE  /\ Sound(Reserve(s, t))
         /\ Reserve(s, t).task = s.task
         /\ Reserve(s, t).lease = s.lease
         /\ Reserve(s, t).forced = s.forced
<1> DEFINE f == [o \in Task |-> IF o \in Owners(t) THEN s.resource[o] \cup NeedsOf(o)
                                                   ELSE s.resource[o]]
           r == ReserveScopes(s, t)
           n == Reserve(s, t)
<1>1. n = [r EXCEPT !.resource = f]
  BY DEF Reserve
<1>2. f \in [Task -> SUBSET Resource]
  BY NeedsOfType DEF Sound, Tables
<1>3. /\ Sound(r) /\ r.task = s.task /\ r.lease = s.lease
      /\ r.forced = s.forced /\ r.resource = s.resource
  BY ReserveScopesSound
<1>4. ASSUME NEW u \in Task, NEW o \in Task, u # o,
             ResourceNamespace(u) = ResourceNamespace(o)
      PROVE  f[u] \cap f[o] = {}
  <2>1. s.resource[u] \cap s.resource[o] = {}
    BY <1>4 DEF Sound, ResourcesExclusiveIn
  <2>2. CASE u \in Owners(t) /\ o \in Owners(t)
    BY <2>2, <1>4, OwnersApart
  <2>3. CASE u \in Owners(t) /\ o \notin Owners(t)
    BY <2>1, <2>3, <1>4 DEF ResourcesFree
  <2>4. CASE u \notin Owners(t) /\ o \in Owners(t)
    BY <2>1, <2>4, <1>4 DEF ResourcesFree
  <2>5. CASE u \notin Owners(t) /\ o \notin Owners(t)
    BY <2>1, <2>5
  <2> QED
    BY <2>2, <2>3, <2>4, <2>5
<1> HIDE DEF f, r, n
<1>5. n \in Tables
  BY <1>1, <1>2, <1>3 DEF Sound, Tables
<1>6. /\ n.task = r.task /\ n.lease = r.lease /\ n.forced = r.forced
      /\ n.scope = r.scope /\ n.resource = f
  BY <1>1, <1>3 DEF Sound, Tables
<1>7. IsolatedIn(n) /\ ScopesDisjointIn(n)
  BY <1>3, <1>6 DEF Sound, IsolatedIn, ScopesDisjointIn
<1>8. ResourcesExclusiveIn(n)
  BY <1>4, <1>6 DEF ResourcesExclusiveIn
<1> QED
  BY <1>3, <1>5, <1>6, <1>7, <1>8 DEF Sound, n

\* A lease that the other leases admit keeps the repositories apart.
LEMMA GrantIsolated ==
  ASSUME NEW s, Sound(s), NEW t \in Task, LeasesAdmit(s, t), NEW n,
         n.lease = [s.lease EXCEPT ![t] = s.task[RootOf[t]].mode],
         n.forced = [s.forced EXCEPT ![t] = FALSE]
  PROVE  IsolatedIn(n)
<1> DEFINE m == s.task[RootOf[t]].mode
<1>1. m \in Mode
  BY RowOf, OwnersAreTasks DEF Row
<1>2. s.lease \in [Task -> Mode \cup {"none"}] /\ s.forced \in [Task -> BOOLEAN]
  BY DEF Sound, Tables
<1>3. ASSUME NEW o \in Task, o # t, s.lease[o] # "none", SameRepo(o, t),
             RootOf[o] # RootOf[t]
      PROVE  m = "parallel" /\ s.lease[o] = "parallel"
  BY <1>1, <1>2, <1>3 DEF LeasesAdmit, Mode
<1>4. ASSUME NEW u \in Task, NEW o \in Task,
             n.lease[u] # "none", ~n.forced[u], n.lease[o] # "none", ~n.forced[o],
             SameRepo(u, o), RootOf[u] # RootOf[o]
      PROVE  n.lease[u] = "parallel" /\ n.lease[o] = "parallel"
  <2>1. SameRepo(o, u)
    BY <1>4 DEF SameRepo
  <2>2. CASE u = t
    BY <2>1, <2>2, <1>2, <1>3, <1>4
  <2>3. CASE o = t
    BY <2>3, <1>2, <1>3, <1>4
  <2>4. CASE u # t /\ o # t
    BY <2>4, <1>2, <1>4 DEF Sound, IsolatedIn
  <2> QED
    BY <2>2, <2>3, <2>4
<1> QED
  BY <1>4 DEF IsolatedIn

\* What eligibility checks when it returns no reason.
LEMMA EligibleAdmits ==
  ASSUME NEW s, NEW t, NEW fairness, Eligible(s, t, fairness)
  PROVE  LeasesAdmit(s, t) /\ ScopesFree(s, t) /\ ResourcesFree(s, t)
BY DEF Eligible

\* claim_candidate takes a lease that the eligibility of the same transaction allows.
LEMMA ClaimedSound ==
  ASSUME NEW s, Sound(s), NEW t \in Task, Claimable(s, t)
  PROVE  Sound(Claimed(s, t))
<1> DEFINE r == Reserve(s, t)
           n == Claimed(s, t)
           m == s.task[RootOf[t]].mode
           q == IF r.queue[t] = "none" THEN "none" ELSE "claimed"
           row0 == [r.task[t] EXCEPT !.status = "in_progress", !.run = "starting",
                          !.paused = FALSE, !.merge = "none", !.stale = FALSE]
<1>1. LeasesAdmit(s, t) /\ ScopesFree(s, t) /\ ResourcesFree(s, t)
  BY EligibleAdmits DEF Claimable
<1>2. /\ Sound(r) /\ r.task = s.task /\ r.lease = s.lease /\ r.forced = s.forced
  BY <1>1, ReserveSound
<1>3. n = [r EXCEPT !.lease[t] = m, !.forced[t] = FALSE, !.queue[t] = q,
                    !.task[t] = row0]
  BY DEF Claimed
<1>4. row0 \in Row
  <2>1. r.task[t] \in Row
    BY <1>2, RowOf
  <2> QED
    BY <2>1 DEF Row, Status, RunState, MergeState
<1>5. m \in Mode
  BY RowOf, OwnersAreTasks DEF Row
<1>6. q \in {"none", "pending", "claimed", "done"}
  OBVIOUS
<1> HIDE DEF r, n, m, q, row0
<1>7. n \in Tables
  <2>1. [r EXCEPT !.lease[t] = m] \in Tables
    BY <1>2, <1>5 DEF Sound, Tables
  <2>2. [[r EXCEPT !.lease[t] = m] EXCEPT !.forced[t] = FALSE] \in Tables
    BY <2>1 DEF Tables
  <2>3. [[[r EXCEPT !.lease[t] = m] EXCEPT !.forced[t] = FALSE] EXCEPT !.queue[t] = q]
          \in Tables
    BY <2>2, <1>6 DEF Tables
  <2> QED
    BY <2>3, <1>3, <1>4 DEF Tables
<1>8. /\ n.lease = [r.lease EXCEPT ![t] = m] /\ n.forced = [r.forced EXCEPT ![t] = FALSE]
      /\ n.scope = r.scope /\ n.resource = r.resource
  BY <1>2, <1>3 DEF Sound, Tables
<1>9. IsolatedIn(n)
  BY <1>1, <1>2, <1>8, GrantIsolated DEF m
<1>10. ScopesDisjointIn(n) /\ ResourcesExclusiveIn(n)
  BY <1>2, <1>8 DEF Sound, ScopesDisjointIn, ResourcesExclusiveIn
<1> QED
  BY <1>7, <1>9, <1>10 DEF Sound, n

\* claim_candidate keeps the tables sound whether or not it claims.
LEMMA TryClaimSound ==
  ASSUME NEW s, Sound(s), NEW t \in Task
  PROVE  Sound(TryClaim(s, t))
BY ClaimedSound DEF TryClaim

\* Reopening the review of a group gives back at most a lease.
LEMMA ReopenedSound ==
  ASSUME NEW s, Sound(s), NEW t \in Task
  PROVE  Sound(Reopened(s, t))
<1> DEFINE g == RootOf[t]
           todo == Moved(s, g, "todo", s.task[g].run)
           r == [todo.task[g] EXCEPT !.merge = "none", !.wanted = TRUE]
<1>1. g \in Task /\ s.task[g] \in Row
  BY OwnersAreTasks, RowOf
<1>2. s.task[g].run \in RunState
  BY <1>1 DEF Row
<1>3. Sound(todo)
  BY <1>1, <1>2, MovedSound DEF Status
<1>4. r \in Row
  <2>1. todo.task[g] \in Row
    BY <1>1, <1>3, RowOf
  <2> QED
    BY <2>1 DEF Row, MergeState
<1>5. Sound(Put(todo, g, r))
  BY <1>1, <1>3, <1>4, PutSound
<1> HIDE DEF g, todo, r
<1>6. Reopened(s, t) = IF IsChild(t) /\ s.task[g].status = "in_review"
                         THEN Put(todo, g, r) ELSE s
  BY DEF Reopened, g, todo, r
<1> QED
  BY <1>5, <1>6

\* enqueue keeps the tables sound.
LEMMA EnqueuedSound ==
  ASSUME NEW s, Sound(s), NEW t \in Task, NEW prompted \in BOOLEAN
  PROVE  Sound(Enqueued(s, t, prompted))
<1> DEFINE rework == prompted /\ Managed(s, t)
           s1 == Reopened(s, t)
           r == [s1.task[t] EXCEPT !.paused = FALSE,
                                   !.merge = IF rework THEN "none" ELSE @]
           p == Put(s1, t, r)
           n == [p EXCEPT !.queue[t] = "pending"]
<1>1. Sound(s1)
  BY ReopenedSound
<1>2. r \in Row
  <2>1. s1.task[t] \in Row
    BY <1>1, RowOf
  <2> QED
    BY <2>1 DEF Row, MergeState
<1>3. Sound(p)
  BY <1>1, <1>2, PutSound
<1>4. Enqueued(s, t, prompted) = IF rework THEN MarkDownstreamStale(n, t) ELSE n
  BY DEF Enqueued
<1> HIDE DEF p, rework
<1>5. n \in Tables
  BY <1>3 DEF Sound, Tables
<1>6. Narrows(p, n)
  BY <1>3 DEF Sound, Tables, Narrows
<1>7. Sound(n)
  BY <1>3, <1>5, <1>6, NarrowsSound
<1> HIDE DEF n
<1> QED
  BY <1>4, <1>7, MarkDownstreamStaleSound

-----------------------------------------------------------------------------
(* Continuing, and the life of a turn.                                     *)

\* Observing a turn again rewrites one row.
LEMMA ReattachedSound ==
  ASSUME NEW s, Sound(s), NEW t \in Task
  PROVE  Sound(Reattached(s, t))
<1>1. [s.task[t] EXCEPT !.status = "in_progress", !.run = "running"] \in Row
  <2>1. s.task[t] \in Row
    BY RowOf
  <2> QED
    BY <2>1 DEF Row, Status, RunState
<1> QED
  BY <1>1, PutSound DEF Reattached

\* ParallelRuntime.queue keeps the tables sound.
LEMMA QueueSound ==
  ASSUME NEW s, Sound(s), NEW t \in Task, NEW prompted \in BOOLEAN
  PROVE  Sound(Queue(s, t, prompted))
BY ReattachedSound, EnqueuedSound, TryClaimSound DEF Queue

\* _fail_task keeps the tables sound.
LEMMA FailedSound ==
  ASSUME NEW s, Sound(s), NEW t \in Task
  PROVE  Sound(Failed(s, t)) /\ Failed(s, t).task[t] \in Row
<1> DEFINE r == [s.task[t] EXCEPT !.run = "failed"]
<1>1. r \in Row
  BY RowOf DEF Row, RunState
<1>2. Sound(Put(s, t, r))
  BY <1>1, PutSound
<1>3. Sound(Release(Put(s, t, r), t))
  BY <1>2, ReleaseSound
<1>4. Sound(Failed(s, t))
  BY <1>3, FinishQueueSound DEF Failed
<1> QED
  BY <1>4, RowOf

\* The end of a turn rewrites one row.
LEMMA TurnEndsSound ==
  ASSUME NEW s, Sound(s), NEW t \in Task, NEW how \in Turn
  PROVE  Sound(TurnEnds(s, t, how))
<1>1. [s.task[t] EXCEPT !.turn = how, !.conflict = FALSE] \in Row
  BY RowOf DEF Row
<1> QED
  BY <1>1, PutSound DEF TurnEnds

\* _interrupt rewrites one row.
LEMMA InterruptedSound ==
  ASSUME NEW s, Sound(s), NEW t \in Task
  PROVE  Sound(Interrupted(s, t)) /\ Interrupted(s, t).task[t] \in Row
<1> DEFINE turn == IF s.task[t].turn = "active" THEN "idle" ELSE s.task[t].turn
<1>1. s.task[t] \in Row
  BY RowOf
<1>2. turn \in Turn
  BY <1>1 DEF Row, Turn
<1>3. Interrupted(s, t) = Put(s, t, [s.task[t] EXCEPT !.turn = turn])
  BY DEF Interrupted
<1> HIDE DEF turn
<1>4. [s.task[t] EXCEPT !.turn = turn] \in Row
  BY <1>1, <1>2 DEF Row
<1>5. Sound(Put(s, t, [s.task[t] EXCEPT !.turn = turn]))
  BY <1>4, PutSound
<1>6. Sound(Interrupted(s, t))
  BY <1>3, <1>5
<1> QED
  BY <1>6, RowOf

\* A completed turn gives back at most what it held, whatever its outcome.
LEMMA SettledSound ==
  ASSUME NEW s, Sound(s), NEW t \in Task, NEW outcome
  PROVE  Sound(Settled(s, t, outcome))
<1> DEFINE s1 == FinishQueue(Release(s, t), t)
           blocked == [s1.task[t] EXCEPT !.result = TRUE, !.merge = "blocked"]
           reviewed == t \in Reviewed /\ ~IsChild(t)
           s2 == Moved(s1, t, IF reviewed THEN "in_review" ELSE "in_progress", "none")
           ready == [s2.task[t] EXCEPT
                      !.result = TRUE, !.stale = FALSE,
                      !.merge = IF reviewed THEN "pending_review" ELSE "queued"]
<1>1. Sound(s1)
  BY ReleaseSound, FinishQueueSound
<1>2. Sound(Moved(s, t, IF t \in Reviewed THEN "in_review" ELSE "done", "none"))
  BY MovedSound DEF Status, RunState
<1>3. Sound(Failed(s1, t))
  BY <1>1, FailedSound
<1>4. blocked \in Row
  <2>1. s1.task[t] \in Row
    BY <1>1, RowOf
  <2> QED
    BY <2>1 DEF Row, MergeState
<1>5. Sound(Failed(Put(s1, t, blocked), t))
  <2>1. Sound(Put(s1, t, blocked))
    BY <1>1, <1>4, PutSound
  <2> QED
    BY <2>1, FailedSound
<1>6. Sound(s2)
  BY <1>1, MovedSound DEF Status, RunState
<1>7. ready \in Row
  <2>1. s2.task[t] \in Row
    BY <1>6, RowOf
  <2> HIDE DEF s2
  <2> QED
    BY <2>1 DEF Row, MergeState
<1>8. Sound(Put(s2, t, ready))
  BY <1>6, <1>7, PutSound
<1>9. Settled(s, t, outcome) =
        IF ~Managed(s, t)
          THEN Moved(s, t, IF t \in Reviewed THEN "in_review" ELSE "done", "none")
        ELSE IF s.task[t].stale \/ outcome = "attention" THEN Failed(s1, t)
        ELSE IF outcome = "outside" THEN Failed(Put(s1, t, blocked), t)
        ELSE Put(s2, t, ready)
  BY DEF Settled
<1> HIDE DEF s1, blocked, s2, ready
<1> QED
  BY <1>2, <1>3, <1>5, <1>8, <1>9

\* _adopt_turn takes a lease marked as forced, or one eligibility allows.
LEMMA OccupiedSound ==
  ASSUME NEW s, Sound(s), NEW t \in Task
  PROVE  Sound(Occupied(s, t))
<1> DEFINE eligible == Eligible(s, t, FALSE)
           reserved == IF eligible THEN Reserve(s, t) ELSE s
           r == [s.task[t] EXCEPT !.conflict = @ \/ ~eligible]
           p == Put(reserved, t, r)
           m == s.task[RootOf[t]].mode
           n == [p EXCEPT !.lease[t] = m, !.forced[t] = ~eligible]
<1>1. eligible => LeasesAdmit(s, t) /\ ScopesFree(s, t) /\ ResourcesFree(s, t)
  BY EligibleAdmits
<1>2. eligible \in BOOLEAN
  BY DEF Eligible
<1>3. Occupied(s, t) = IF s.lease[t] # "none" THEN s ELSE n
  BY DEF Occupied
<1>4. r \in Row
  <2>1. s.task[t] \in Row
    BY RowOf
  <2> DEFINE w == s.task[t].conflict \/ ~eligible
  <2>2. w \in BOOLEAN
    OBVIOUS
  <2>3. r = [s.task[t] EXCEPT !.conflict = w]
    OBVIOUS
  <2> HIDE DEF eligible, w
  <2> QED
    BY <2>1, <2>2, <2>3 DEF Row
<1> HIDE DEF eligible, r, m, n, p
<1>5. /\ Sound(reserved) /\ reserved.lease = s.lease /\ reserved.forced = s.forced
  BY <1>1, ReserveSound
<1> HIDE DEF reserved
<1>6. Sound(p) /\ p.lease = s.lease /\ p.forced = s.forced
  BY <1>4, <1>5, PutSound DEF p, Put, Sound, Tables
<1>7. m \in Mode
  BY RowOf, OwnersAreTasks DEF Row, m
<1>8. n \in Tables
  <2>1. [p EXCEPT !.lease[t] = m] \in Tables
    BY <1>6, <1>7 DEF Sound, Tables
  <2> QED
    BY <2>1, <1>2 DEF Tables, n
<1>9. /\ n.lease = [s.lease EXCEPT ![t] = m]
      /\ n.forced = [s.forced EXCEPT ![t] = ~eligible]
      /\ n.scope = p.scope /\ n.resource = p.resource
  BY <1>6 DEF Sound, Tables, n
<1>10. IsolatedIn(n)
  <2>1. CASE eligible
    <3>1. n.forced = [s.forced EXCEPT ![t] = FALSE]
      BY <2>1, <1>9
    <3> QED
      BY <2>1, <3>1, <1>1, <1>9, GrantIsolated DEF m
  <2>2. CASE ~eligible
    <3>1. n.forced = [s.forced EXCEPT ![t] = TRUE]
      BY <2>2, <1>9
    <3>2. s.lease \in [Task -> Mode \cup {"none"}] /\ s.forced \in [Task -> BOOLEAN]
      BY DEF Sound, Tables
    <3>3. IsolatedIn(s)
      BY DEF Sound
    <3>4. \A u \in Task : ~n.forced[u] =>
            u # t /\ ~s.forced[u] /\ n.lease[u] = s.lease[u]
      BY <3>1, <3>2, <1>9
    <3> QED
      BY <3>3, <3>4 DEF IsolatedIn
  <2> QED
    BY <2>1, <2>2
<1>11. ScopesDisjointIn(n) /\ ResourcesExclusiveIn(n)
  BY <1>6, <1>9 DEF Sound, ScopesDisjointIn, ResourcesExclusiveIn
<1>12. Sound(n)
  BY <1>8, <1>10, <1>11 DEF Sound
<1> QED
  BY <1>3, <1>12

\* Adopting a native turn keeps the tables sound.
LEMMA AdoptedSound ==
  ASSUME NEW s, Sound(s), NEW t \in Task
  PROVE  Sound(Adopted(s, t))
<1> DEFINE s1 == Occupied(s, t)
           marked == MarkDownstreamStale(s1, t)
           unmerged == [marked.task[t] EXCEPT !.merge = "none"]
           s2 == IF Managed(s, t) /\ s.task[t].result
                   THEN Put(marked, t, unmerged) ELSE s1
           r == [s2.task[t] EXCEPT !.status = "in_progress", !.run = "running",
                                   !.turn = "active"]
<1>1. Adopted(s, t) = Put(s2, t, r)
  BY DEF Adopted
<1>2. Sound(s1) /\ Sound(marked)
  BY OccupiedSound, MarkDownstreamStaleSound
<1> HIDE DEF s1, marked
<1>3. unmerged \in Row
  BY <1>2, RowOf DEF Row, MergeState
<1>4. Sound(s2)
  BY <1>2, <1>3, PutSound
<1> HIDE DEF s2
<1>5. r \in Row
  <2>1. s2.task[t] \in Row
    BY <1>4, RowOf
  <2> QED
    BY <2>1 DEF Row, Status, RunState, Turn
<1>6. Sound(Put(s2, t, r))
  BY <1>4, <1>5, PutSound
<1> QED
  BY <1>1, <1>6

-----------------------------------------------------------------------------
(* Stopping, and parallel groups.                                          *)

\* Writing every row, or every row and the queue, keeps the tables sound.
LEMMA RowsSound ==
  ASSUME NEW s, Sound(s), NEW f \in [Task -> Row]
  PROVE  Sound([s EXCEPT !.task = f])
<1>1. [s EXCEPT !.task = f] \in Tables
  BY DEF Sound, Tables
<1>2. Narrows(s, [s EXCEPT !.task = f])
  BY DEF Sound, Tables, Narrows
<1> QED
  BY <1>1, <1>2, NarrowsSound

\* Rewriting rows and queue states keeps the tables sound.
LEMMA RewriteSound ==
  ASSUME NEW s, Sound(s), NEW f \in [Task -> Row],
         NEW q \in [Task -> {"none", "pending", "claimed", "done"}]
  PROVE  Sound([s EXCEPT !.task = f, !.queue = q])
<1>1. [s EXCEPT !.task = f, !.queue = q] \in Tables
  BY DEF Sound, Tables
<1>2. Narrows(s, [s EXCEPT !.task = f, !.queue = q])
  BY DEF Sound, Tables, Narrows
<1> QED
  BY <1>1, <1>2, NarrowsSound

\* The first write of a pause rewrites one row.
LEMMA PauseMarkedSound ==
  ASSUME NEW s, Sound(s), NEW t \in Task
  PROVE  Sound(PauseMarked(s, t))
<1> DEFINE phase == IF t \in Group THEN "pausing" ELSE s.task[t].phase
           r == [s.task[t] EXCEPT !.paused = TRUE, !.phase = phase]
<1>1. s.task[t] \in Row
  BY RowOf
<1>2. phase \in Phase
  BY <1>1 DEF Row, Phase
<1>3. PauseMarked(s, t) = Put(s, t, r)
  BY DEF PauseMarked
<1> HIDE DEF phase
<1>4. r \in Row
  BY <1>1, <1>2 DEF Row
<1>5. Sound(Put(s, t, r))
  BY <1>4, PutSound
<1> QED
  BY <1>3, <1>5

\* A pause that ends early rewrites rows and queue states.
LEMMA PauseHaltedSound ==
  ASSUME NEW s, Sound(s), NEW reached, NEW interrupted
  PROVE  Sound(PauseHalted(s, reached, interrupted))
<1> DEFINE q == [u \in Task |-> IF u \in reached /\ s.queue[u] # "none"
                                  THEN "done" ELSE s.queue[u]]
           f == [u \in Task |-> IF u \in interrupted
                                  THEN Interrupted(s, u).task[u] ELSE s.task[u]]
<1>1. q \in [Task -> {"none", "pending", "claimed", "done"}]
  BY DEF Sound, Tables
<1>2. f \in [Task -> Row]
  BY InterruptedSound, RowOf
<1>3. PauseHalted(s, reached, interrupted) = [s EXCEPT !.queue = q, !.task = f]
  BY DEF PauseHalted
<1> HIDE DEF q, f
<1>4. [s EXCEPT !.queue = q, !.task = f] = [s EXCEPT !.task = f, !.queue = q]
  BY DEF Sound, Tables
<1>5. Sound([s EXCEPT !.task = f, !.queue = q])
  BY <1>1, <1>2, RewriteSound
<1> QED
  BY <1>3, <1>4, <1>5

\* A confirmed pause gives back the leases and reservations of its members.
LEMMA PauseConfirmedSound ==
  ASSUME NEW s, Sound(s), NEW t \in Task
  PROVE  Sound(PauseConfirmed(s, t))
<1> DEFINE stopped == Members(t)
           released == stopped \cup {t}
           halt(u) == [s.task[u] EXCEPT
             !.paused = TRUE, !.conflict = FALSE,
             !.turn = IF @ = "active" THEN "idle" ELSE @,
             !.merge = IF @ = "merging" THEN "blocked" ELSE @,
             !.run = IF @ \in {"starting", "running", "waiting_quota"}
                       THEN "failed" ELSE @]
           f == [u \in Task |->
                  IF u \in stopped THEN halt(u)
                  ELSE IF u = t THEN [s.task[u] EXCEPT !.phase = "paused",
                                        !.paused = TRUE, !.conflict = FALSE]
                  ELSE s.task[u]]
           q == [u \in Task |-> IF u \in stopped /\ s.queue[u] # "none"
                                  THEN "done" ELSE s.queue[u]]
           lease == [u \in Task |-> IF u \in released THEN "none" ELSE s.lease[u]]
           forced == [u \in Task |-> IF u \in released THEN FALSE ELSE s.forced[u]]
           scope == [u \in Task |-> IF u \in released THEN {} ELSE s.scope[u]]
           resource == [u \in Task |-> IF u \in released THEN {} ELSE s.resource[u]]
           n == [s EXCEPT !.task = f, !.queue = q, !.lease = lease, !.forced = forced,
                          !.scope = scope, !.resource = resource]
<1>1. PauseConfirmed(s, t) = n
  BY DEF PauseConfirmed
<1>2. f \in [Task -> Row]
  <2>1. ASSUME NEW u \in Task PROVE s.task[u] \in Row /\ halt(u) \in Row
    <3>1. s.task[u] \in Row
      BY RowOf
    <3> DEFINE turn == IF s.task[u].turn = "active" THEN "idle" ELSE s.task[u].turn
               merge == IF s.task[u].merge = "merging" THEN "blocked" ELSE s.task[u].merge
               run == IF s.task[u].run \in {"starting", "running", "waiting_quota"}
                        THEN "failed" ELSE s.task[u].run
    <3>2. turn \in Turn /\ merge \in MergeState /\ run \in RunState
      BY <3>1 DEF Row, Turn, MergeState, RunState
    <3>3. halt(u) = [s.task[u] EXCEPT !.paused = TRUE, !.conflict = FALSE, !.turn = turn,
                                      !.merge = merge, !.run = run]
      OBVIOUS
    <3> HIDE DEF turn, merge, run, halt
    <3> QED
      BY <3>1, <3>2, <3>3 DEF Row
  <2>2. [s.task[t] EXCEPT !.phase = "paused", !.paused = TRUE, !.conflict = FALSE] \in Row
    <3>1. s.task[t] \in Row
      BY RowOf
    <3> QED
      BY <3>1 DEF Row, Phase
  <2> HIDE DEF halt
  <2> QED
    BY <2>1, <2>2
<1>3. /\ q \in [Task -> {"none", "pending", "claimed", "done"}]
      /\ lease \in [Task -> Mode \cup {"none"}]
      /\ forced \in [Task -> BOOLEAN]
      /\ scope \in [Task -> SUBSET Path]
      /\ resource \in [Task -> SUBSET Resource]
  BY DEF Sound, Tables
<1>4. \A u \in Task : /\ \/ lease[u] = "none"
                         \/ lease[u] = s.lease[u] /\ forced[u] = s.forced[u]
                      /\ scope[u] \subseteq s.scope[u]
                      /\ resource[u] \subseteq s.resource[u]
  <2> HIDE DEF f, q, n
  <2> QED
    OBVIOUS
<1> HIDE DEF f, q, lease, forced, scope, resource, n
<1>5. n \in Tables
  BY <1>2, <1>3 DEF Sound, Tables, n
<1>6. Narrows(s, n)
  BY <1>4 DEF Sound, Tables, Narrows, n
<1> QED
  BY <1>1, <1>5, <1>6, NarrowsSound

\* start_group reserves for a group only what eligibility allows.
LEMMA GroupStartedSound ==
  ASSUME NEW s, Sound(s), NEW g \in Task
  PROVE  Sound(GroupStarted(s, g))
<1> DEFINE started == [s.task[g] EXCEPT !.status = "in_progress", !.wanted = FALSE]
           wanted == [s.task[g] EXCEPT !.wanted = TRUE]
<1>1. started \in Row /\ wanted \in Row
  <2>1. s.task[g] \in Row
    BY RowOf
  <2> QED
    BY <2>1 DEF Row, Status
<1>2. Eligible(s, g, TRUE) => Sound(Put(Reserve(s, g), g, started))
  <2>1. Eligible(s, g, TRUE) => Sound(Reserve(s, g))
    BY EligibleAdmits, ReserveSound
  <2> QED
    BY <2>1, <1>1, PutSound
<1>3. Sound(Put(s, g, wanted))
  BY <1>1, PutSound
<1> QED
  BY <1>2, <1>3 DEF GroupStarted

\* settle_group keeps the tables sound.
LEMMA GroupSettledSound ==
  ASSUME NEW s, Sound(s), NEW g \in Task
  PROVE  Sound(GroupSettled(s, g))
<1> DEFINE moved == Moved(s, g, "in_review", "none")
           r == [moved.task[g] EXCEPT
                  !.result = TRUE,
                  !.merge = IF g \in Reviewed THEN "pending_review" ELSE "queued"]
<1>1. Sound(moved)
  BY MovedSound DEF Status, RunState
<1>2. GroupSettled(s, g) \in {Put(moved, g, r), s}
  BY DEF GroupSettled
<1> HIDE DEF moved
<1>3. r \in Row
  <2>1. moved.task[g] \in Row
    BY <1>1, RowOf
  <2> QED
    BY <2>1 DEF Row, MergeState
<1>4. Sound(Put(moved, g, r))
  BY <1>1, <1>3, PutSound
<1> QED
  BY <1>2, <1>4

-----------------------------------------------------------------------------
(* The initial tables, and the steps.                                      *)

\* Nothing is leased or reserved before anything has run.
LEMMA InitSound ==
  ASSUME Init
  PROVE  Sound(db)
<1> DEFINE r(t) == Created.task[t]
<1>1. Created.task \in [Task -> Row]
  <2>1. ASSUME NEW t \in Task PROVE r(t) \in Row
    <3> DEFINE phase == IF t \in Group THEN "preparing" ELSE "none"
               local == t \in InitialLocal
    <3>1. phase \in Phase /\ local \in BOOLEAN
      BY DEF Phase
    <3>2. InitialMode[t] \in Mode /\ InitialScopes[t] \subseteq Path
      BY TaskAssumption
    <3>3. r(t) = [status |-> "todo", run |-> "none", mode |-> InitialMode[t],
                  local |-> local, scopes |-> InitialScopes[t],
                  draft |-> FALSE, turn |-> "none", paused |-> FALSE, conflict |-> FALSE,
                  stale |-> FALSE, merge |-> "none", result |-> FALSE,
                  phase |-> phase,
                  prepared |-> FALSE, wanted |-> FALSE, again |-> FALSE,
                  worker |-> FALSE]
      BY DEF Created
    <3> HIDE DEF phase, local, r
    <3> QED
      BY <3>1, <3>2, <3>3 DEF Row, Status, RunState, MergeState, Turn
  <2> QED
    BY <2>1 DEF Created
<1>2. /\ Created.queue = [t \in Task |-> "none"]
      /\ Created.lease = [t \in Task |-> "none"]
      /\ Created.forced = [t \in Task |-> FALSE]
      /\ Created.scope = [t \in Task |-> {}]
      /\ Created.resource = [t \in Task |-> {}]
      /\ Created = [task |-> Created.task, queue |-> Created.queue,
                    lease |-> Created.lease, forced |-> Created.forced,
                    scope |-> Created.scope, resource |-> Created.resource]
  BY DEF Created
<1>3. Created \in Tables
  BY <1>1, <1>2 DEF Tables
<1>4. IsolatedIn(Created) /\ ScopesDisjointIn(Created) /\ ResourcesExclusiveIn(Created)
  BY <1>2 DEF IsolatedIn, ScopesDisjointIn, ResourcesExclusiveIn
<1> QED
  BY <1>3, <1>4 DEF Sound, Init

\* Every action of a user keeps the tables sound.
LEMMA UserActionSound ==
  ASSUME Sound(db), NEW t \in Task, UserAction(t)
  PROVE  Sound(db')
<1>0. row(t) \in Row
  BY RowOf DEF row
<1>1. CASE RunTask(t)
  BY <1>1, QueueSound DEF RunTask
<1>2. CASE SubmitFeedback(t)
  BY <1>2, QueueSound DEF SubmitFeedback
<1>3. CASE Retry(t)
  BY <1>3, QueueSound DEF Retry
<1>4. CASE Resume(t)
  <2> DEFINE s == Put(db, t, [row(t) EXCEPT !.paused = FALSE, !.conflict = FALSE])
             prompted == row(t).turn # "none"
  <2>1. db' \in {s, Queue(s, t, prompted)}
    BY <1>4 DEF Resume
  <2>2. [row(t) EXCEPT !.paused = FALSE, !.conflict = FALSE] \in Row
    BY <1>0 DEF Row
  <2>3. Sound(s)
    BY <2>2, PutSound
  <2>4. prompted \in BOOLEAN
    OBVIOUS
  <2> HIDE DEF s, prompted
  <2>5. Sound(Queue(s, t, prompted))
    BY <2>3, <2>4, QueueSound
  <2> QED
    BY <2>1, <2>3, <2>5
<1>5. CASE FollowUpQueued(t)
  BY <1>5, EnqueuedSound, TryClaimSound DEF FollowUpQueued
<1>6. CASE FollowUpStarted(t)
  <2> DEFINE s == Enqueued(db, t, TRUE)
             claimed == Claimed(s, t)
             r == [claimed.task[t] EXCEPT !.run = "running", !.turn = "active"]
  <2>1. Claimable(s, t) /\ db' = Put(claimed, t, r)
    BY <1>6 DEF FollowUpStarted
  <2>2. Sound(claimed)
    BY <2>1, EnqueuedSound, ClaimedSound
  <2> HIDE DEF claimed, s
  <2>3. r \in Row
    <3>1. claimed.task[t] \in Row
      BY <2>2, RowOf
    <3> QED
      BY <3>1 DEF Row, RunState, Turn
  <2>4. Sound(Put(claimed, t, r))
    BY <2>2, <2>3, PutSound
  <2> QED
    BY <2>1, <2>4
<1>7. CASE FollowUpRefused(t)
  <2> DEFINE s == Enqueued(db, t, TRUE)
             r == [row(t) EXCEPT !.paused = FALSE]
             restored == Put(Reserve(s, t), t, r)
  <2>1. /\ Claimable(s, t)
        /\ db' = GivenBack(FinishQueue(Release(restored, t), t), t, row(t).status)
    BY <1>7 DEF FollowUpRefused
  <2>2. Sound(s)
    BY EnqueuedSound
  <2> HIDE DEF s
  <2>3. Sound(Reserve(s, t))
    BY <2>1, <2>2, EligibleAdmits, ReserveSound DEF Claimable
  <2>4. r \in Row
    BY <1>0 DEF Row
  <2>5. Sound(restored)
    BY <2>3, <2>4, PutSound
  <2> HIDE DEF restored
  <2>6. Sound(FinishQueue(Release(restored, t), t))
    BY <2>5, ReleaseSound, FinishQueueSound
  <2> QED
    BY <2>1, <2>6, GivenBackSound
<1>8. CASE Finish(t)
  <2>1. PICK target \in {"done", "canceled", "in_review"} :
          db' = Moved(IF row(t).status = "in_progress"
                        THEN Interrupted(db, t) ELSE db, t, target, "none")
    BY <1>8 DEF Finish
  <2>2. target \in Status /\ "none" \in RunState
    BY DEF Status, RunState
  <2>3. Sound(IF row(t).status = "in_progress" THEN Interrupted(db, t) ELSE db)
    BY InterruptedSound
  <2> QED
    BY <2>1, <2>2, <2>3, MovedSound
<1>9. CASE InterruptRequeue(t)
  <2> DEFINE s == Moved(Interrupted(db, t), t, "todo", "none")
             r == [s.task[t] EXCEPT !.draft = TRUE]
  <2>1. db' = Put(s, t, r)
    BY <1>9 DEF InterruptRequeue
  <2>2. Sound(s)
    BY InterruptedSound, MovedSound DEF Status, RunState
  <2> HIDE DEF s
  <2>3. r \in Row
    BY <2>2, RowOf DEF Row
  <2>4. Sound(Put(s, t, r))
    BY <2>2, <2>3, PutSound
  <2> QED
    BY <2>1, <2>4
<1>10. CASE Pause(t)
  BY <1>10, PauseConfirmedSound DEF Pause
<1>11. CASE PauseUnconfirmed(t)
  BY <1>11, PauseMarkedSound, PauseHaltedSound DEF PauseUnconfirmed
<1>12. CASE CancelManaged(t)
  <2> DEFINE s == PauseConfirmed(db, t)
             closed == {t} \cup {c \in Members(t) : row(c).status # "done"}
             shut(u) == [s.task[u] EXCEPT !.status = "canceled", !.run = "none"]
             f == [u \in Task |-> IF u \in closed THEN shut(u) ELSE s.task[u]]
             q == [u \in Task |->
                     IF u \in closed /\ s.queue[u] # "none" THEN "done" ELSE s.queue[u]]
  <2>1. db' = [s EXCEPT !.task = f, !.queue = q]
    BY <1>12 DEF CancelManaged
  <2>2. Sound(s)
    BY PauseConfirmedSound
  <2> HIDE DEF s, closed
  <2>3. ASSUME NEW u \in Task PROVE s.task[u] \in Row /\ shut(u) \in Row
    <3>1. s.task[u] \in Row
      BY <2>2, RowOf
    <3> QED
      BY <3>1 DEF Row, Status, RunState
  <2>4. f \in [Task -> Row]
    <3> HIDE DEF shut
    <3> QED
      BY <2>3
  <2>5. q \in [Task -> {"none", "pending", "claimed", "done"}]
    BY <2>2 DEF Sound, Tables
  <2> HIDE DEF f, q
  <2>6. Sound([s EXCEPT !.task = f, !.queue = q])
    BY <2>2, <2>4, <2>5, RewriteSound
  <2> QED
    BY <2>1, <2>6
<1>13. CASE SetDraft(t)
  <2>1. [row(t) EXCEPT !.draft = ~@] \in Row
    BY <1>0 DEF Row
  <2> QED
    BY <1>13, <2>1, PutSound DEF SetDraft
<1>14. CASE EditMode(t)
  <2> DEFINE mode == IF row(t).mode = "parallel" THEN "exclusive" ELSE "parallel"
  <2>1. db' = Put(db, t, [row(t) EXCEPT !.mode = mode, !.local = FALSE])
    BY <1>14 DEF EditMode
  <2>2. mode \in Mode
    BY DEF Mode
  <2> HIDE DEF mode
  <2>3. [row(t) EXCEPT !.mode = mode, !.local = FALSE] \in Row
    BY <1>0, <2>2 DEF Row
  <2> QED
    BY <2>1, <2>3, PutSound
<1>15. CASE EditScopes(t)
  <2>1. PICK p \in Path : db' = Put(db, t, [row(t) EXCEPT !.scopes = {p}])
    BY <1>15 DEF EditScopes
  <2>2. [row(t) EXCEPT !.scopes = {p}] \in Row
    BY <1>0 DEF Row
  <2> QED
    BY <2>1, <2>2, PutSound
<1>16. CASE GroupSubmit(t)
  <2> DEFINE s1 == Moved(db, t, "todo", "none")
             open == [s1.task[t] EXCEPT !.phase = "submitted", !.paused = FALSE,
                                        !.merge = "none"]
             again(u) == s1.task[u].again \/ /\ s1.task[u].turn # "none"
                                             /\ s1.task[u].status = "in_progress"
                                             /\ s1.task[u].run = "failed"
             freed(u) == [s1.task[u] EXCEPT !.paused = FALSE, !.again = again(u)]
             f == [u \in Task |-> IF u = t THEN open
                                  ELSE IF u \in Children(t) THEN freed(u)
                                  ELSE s1.task[u]]
             s2 == [s1 EXCEPT !.task = f]
  <2>1. Sound(s1)
    BY MovedSound DEF Status, RunState
  <2>2. db' \in {s2, GroupStarted(s2, t)}
    <3>1. f = [u \in Task |->
               IF u = t THEN [s1.task[u] EXCEPT !.phase = "submitted",
                                !.paused = FALSE, !.merge = "none"]
               ELSE IF u \in Children(t)
                 THEN [s1.task[u] EXCEPT !.paused = FALSE,
                         !.again = @ \/ /\ s1.task[u].turn # "none"
                                        /\ s1.task[u].status = "in_progress"
                                        /\ s1.task[u].run = "failed"]
               ELSE s1.task[u]]
      OBVIOUS
    <3> HIDE DEF f
    <3> QED
      BY <1>16, <3>1 DEF GroupSubmit
  <2> HIDE DEF s1
  <2>3. ASSUME NEW u \in Task PROVE s1.task[u] \in Row /\ freed(u) \in Row
    <3>1. s1.task[u] \in Row
      BY <2>1, RowOf
    <3> DEFINE w == again(u)
    <3>2. w \in BOOLEAN
      BY <3>1 DEF Row
    <3>3. freed(u) = [s1.task[u] EXCEPT !.paused = FALSE, !.again = w]
      OBVIOUS
    <3> HIDE DEF w, freed
    <3> QED
      BY <3>1, <3>2, <3>3 DEF Row
  <2>4. open \in Row
    <3>1. s1.task[t] \in Row
      BY <2>3
    <3> QED
      BY <3>1 DEF Row, Phase, MergeState
  <2>5. f \in [Task -> Row]
    <3> HIDE DEF freed, open
    <3> QED
      BY <2>3, <2>4
  <2> HIDE DEF f
  <2>6. Sound(s2)
    BY <2>1, <2>5, RowsSound
  <2> HIDE DEF s2
  <2> QED
    BY <2>2, <2>6, GroupStartedSound
<1>17. CASE RunGroup(t)
  BY <1>17, GroupStartedSound DEF RunGroup
<1>18. CASE Approve(t)
  <2>1. [row(t) EXCEPT !.merge = "queued"] \in Row
    BY <1>0 DEF Row, MergeState
  <2> QED
    BY <1>18, <2>1, PutSound DEF Approve
<1> QED
  BY <1>1, <1>2, <1>3, <1>4, <1>5, <1>6, <1>7, <1>8, <1>9, <1>10, <1>11, <1>12,
     <1>13, <1>14, <1>15, <1>16, <1>17, <1>18 DEF UserAction

\* Every step of the scheduler's loop keeps the tables sound.
LEMMA LoopActionSound ==
  ASSUME Sound(db), NEW t \in Task, LoopAction(t)
  PROVE  Sound(db')
<1>0. row(t) \in Row
  BY RowOf DEF row
<1>1. CASE DispatchQueued(t)
  BY <1>1, ClaimedSound DEF DispatchQueued
<1>2. CASE DispatchTodo(t)
  BY <1>2, ClaimedSound DEF DispatchTodo
<1>3. CASE DispatchResumed(t)
  <2> DEFINE s == Put(db, t, [row(t) EXCEPT !.again = FALSE])
  <2>1. db' \in {s, Queue(s, t, TRUE)}
    BY <1>3 DEF DispatchResumed
  <2>2. [row(t) EXCEPT !.again = FALSE] \in Row
    BY <1>0 DEF Row
  <2>3. Sound(s)
    BY <2>2, PutSound
  <2> HIDE DEF s
  <2>4. Sound(Queue(s, t, TRUE))
    BY <2>3, QueueSound
  <2> QED
    BY <2>1, <2>3, <2>4
<1>4. CASE DispatchGroup(t)
  BY <1>4, GroupStartedSound DEF DispatchGroup
<1>5. CASE DispatchSettle(t)
  BY <1>5, GroupSettledSound DEF DispatchSettle
<1>6. CASE QuotaResume(t)
  BY <1>6, QueueSound DEF QuotaResume
<1>7. CASE Reconnect(t)
  BY <1>7, ReattachedSound DEF Reconnect
<1>8. CASE Reevaluate(t)
  <2>1. Sound(TurnEnds(db, t, "completed"))
    BY TurnEndsSound DEF Turn
  <2> QED
    BY <1>8, <2>1, SettledSound DEF Reevaluate
<1>9. CASE ReevaluateFails(t)
  <2>1. Sound(TurnEnds(db, t, "idle"))
    BY TurnEndsSound DEF Turn
  <2> QED
    BY <1>9, <2>1, FailedSound DEF ReevaluateFails
<1>10. CASE NativeEnded(t)
  <2> DEFINE s == Put(db, t, [row(t) EXCEPT !.status = "in_progress", !.run = "running"])
  <2>1. \/ \E how \in {"idle", "completed"} :
             db' = Put(s, t, [s.task[t] EXCEPT !.turn = how])
        \/ db' = Failed(TurnEnds(s, t, "idle"), t)
        \/ \E outcome \in Outcomes(t) :
             db' = Settled(TurnEnds(s, t, "completed"), t, outcome)
    BY <1>10 DEF NativeEnded
  <2>2. [row(t) EXCEPT !.status = "in_progress", !.run = "running"] \in Row
    BY <1>0 DEF Row, Status, RunState
  <2>3. Sound(s)
    BY <2>2, PutSound
  <2> HIDE DEF s
  <2>4. ASSUME NEW how \in {"idle", "completed"}
        PROVE  Sound(Put(s, t, [s.task[t] EXCEPT !.turn = how]))
    <3>1. [s.task[t] EXCEPT !.turn = how] \in Row
      BY <2>3, RowOf DEF Row, Turn
    <3> QED
      BY <2>3, <3>1, PutSound
  <2>5. Sound(TurnEnds(s, t, "idle")) /\ Sound(TurnEnds(s, t, "completed"))
    BY <2>3, TurnEndsSound DEF Turn
  <2> QED
    BY <2>1, <2>4, <2>5, FailedSound, SettledSound
<1> QED
  BY <1>1, <1>2, <1>3, <1>4, <1>5, <1>6, <1>7, <1>8, <1>9, <1>10 DEF LoopAction

\* Every step that Codex or the merge worker answers keeps the tables sound.
LEMMA CodexActionSound ==
  ASSUME Sound(db), NEW t \in Task, CodexAction(t)
  PROVE  Sound(db')
<1>0. row(t) \in Row
  BY RowOf DEF row
<1>1. CASE Started(t)
  <2>1. [row(t) EXCEPT !.run = "running", !.turn = "active"] \in Row
    BY <1>0 DEF Row, RunState, Turn
  <2> QED
    BY <1>1, <2>1, PutSound DEF Started
<1>2. CASE StartFails(t)
  <2>1. PICK thread \in IF Unready(t) THEN {FALSE} ELSE BOOLEAN :
          db' = Failed(Put(db, t, [row(t) EXCEPT !.turn =
                          IF thread /\ @ = "none" THEN "idle" ELSE @]), t)
    BY <1>2 DEF StartFails
  <2> DEFINE turn == IF thread /\ row(t).turn = "none" THEN "idle" ELSE row(t).turn
             s == Put(db, t, [row(t) EXCEPT !.turn = turn])
  <2>2. turn \in Turn
    BY <1>0 DEF Row, Turn
  <2>3. db' = Failed(s, t)
    BY <2>1
  <2> HIDE DEF turn
  <2>4. [row(t) EXCEPT !.turn = turn] \in Row
    BY <1>0, <2>2 DEF Row
  <2>5. Sound(s)
    BY <2>4, PutSound
  <2> HIDE DEF s
  <2> QED
    BY <2>3, <2>5, FailedSound
<1>3. CASE Completes(t)
  <2>1. Sound(TurnEnds(db, t, "completed"))
    BY TurnEndsSound DEF Turn
  <2> QED
    BY <1>3, <2>1, SettledSound DEF Completes
<1>4. CASE Fails(t)
  <2>1. Sound(TurnEnds(db, t, "idle"))
    BY TurnEndsSound DEF Turn
  <2> QED
    BY <1>4, <2>1, FailedSound DEF Fails
<1>5. CASE QuotaWait(t)
  <2> DEFINE s == Failed(TurnEnds(db, t, "idle"), t)
  <2>1. db' = Put(s, t, [s.task[t] EXCEPT !.run = "waiting_quota"])
    BY <1>5 DEF QuotaWait
  <2>2. Sound(TurnEnds(db, t, "idle"))
    BY TurnEndsSound DEF Turn
  <2>3. Sound(s) /\ s.task[t] \in Row
    BY <2>2, FailedSound
  <2> HIDE DEF s
  <2>4. [s.task[t] EXCEPT !.run = "waiting_quota"] \in Row
    BY <2>3 DEF Row, RunState
  <2> QED
    BY <2>1, <2>3, <2>4, PutSound
<1>6. CASE EndsUnobserved(t)
  <2>1. PICK how \in {"completed", "idle"} : db' = Put(db, t, [row(t) EXCEPT !.turn = how])
    BY <1>6 DEF EndsUnobserved
  <2>2. [row(t) EXCEPT !.turn = how] \in Row
    BY <1>0 DEF Row, Turn
  <2> QED
    BY <2>1, <2>2, PutSound
<1>7. CASE ConnectionLost(t)
  <2>1. [row(t) EXCEPT !.run = "failed", !.conflict = TRUE] \in Row
    BY <1>0 DEF Row, RunState
  <2>2. Sound(Put(db, t, [row(t) EXCEPT !.run = "failed", !.conflict = TRUE]))
    BY <2>1, PutSound
  <2> QED
    BY <1>7, <2>2, FinishQueueSound DEF ConnectionLost
<1>8. CASE AdoptNative(t)
  BY <1>8, AdoptedSound DEF AdoptNative
<1>9. CASE GroupPrepared(t)
  <2>1. [row(t) EXCEPT !.prepared = TRUE] \in Row
    BY <1>0 DEF Row
  <2> QED
    BY <1>9, <2>1, PutSound DEF GroupPrepared
<1>10. CASE GroupPrepareFails(t)
  <2>1. [row(t) EXCEPT !.phase = "paused", !.paused = TRUE, !.run = "failed"] \in Row
    BY <1>0 DEF Row, Phase, RunState
  <2>2. Sound(ReleaseAll(db, t))
    BY ReleaseAllSound
  <2> QED
    BY <1>10, <2>1, <2>2, PutSound DEF GroupPrepareFails
<1>11. CASE MergePrepare(t)
  <2> DEFINE merge(s, state, worker) ==
               Put(s, t, [row(t) EXCEPT !.merge = state, !.worker = worker])
  <2>1. \/ db' = merge(db, "blocked", FALSE)
        \/ ScopesFree(db, t) /\ db' = merge(ReserveScopes(db, t), "blocked", FALSE)
        \/ ScopesFree(db, t) /\ db' = merge(ReserveScopes(db, t), "merging", TRUE)
    BY <1>11 DEF MergePrepare
  <2>2. ASSUME NEW state \in MergeState, NEW worker \in BOOLEAN
        PROVE  [row(t) EXCEPT !.merge = state, !.worker = worker] \in Row
    BY <1>0 DEF Row
  <2>3. ASSUME NEW s, Sound(s), NEW state \in MergeState, NEW worker \in BOOLEAN
        PROVE  Sound(merge(s, state, worker))
    BY <2>2, <2>3, PutSound
  <2>4. ScopesFree(db, t) => Sound(ReserveScopes(db, t))
    BY ReserveScopesSound
  <2> HIDE DEF merge
  <2> QED
    BY <2>1, <2>3, <2>4 DEF MergeState
<1>12. CASE MergePublish(t)
  <2> DEFINE moved == Moved(db, t, "done", "none")
             r == [moved.task[t] EXCEPT !.merge = "merged", !.worker = FALSE]
             s == Put(moved, t, r)
  <2>1. db' = IF IsChild(t) THEN GroupSettled(s, RootOf[t]) ELSE s
    BY <1>12 DEF MergePublish
  <2>2. Sound(moved)
    BY MovedSound DEF Status, RunState
  <2> HIDE DEF moved
  <2>3. r \in Row
    <3>1. moved.task[t] \in Row
      BY <2>2, RowOf
    <3> QED
      BY <3>1 DEF Row, MergeState
  <2>4. Sound(s)
    BY <2>2, <2>3, PutSound
  <2> HIDE DEF s
  <2> QED
    BY <2>1, <2>4, OwnersAreTasks, GroupSettledSound
<1>13. CASE MergeSuperseded(t)
  <2>1. [row(t) EXCEPT !.merge = "queued", !.worker = FALSE] \in Row
    BY <1>0 DEF Row, MergeState
  <2> QED
    BY <1>13, <2>1, PutSound DEF MergeSuperseded
<1>14. CASE MergeFails(t)
  <2>1. [row(t) EXCEPT !.merge = "blocked", !.worker = FALSE] \in Row
    BY <1>0 DEF Row, MergeState
  <2> QED
    BY <1>14, <2>1, PutSound DEF MergeFails
<1> QED
  BY <1>1, <1>2, <1>3, <1>4, <1>5, <1>6, <1>7, <1>8, <1>9, <1>10, <1>11, <1>12,
     <1>13, <1>14 DEF CodexAction

\* Sound is inductive.
LEMMA NextSound ==
  ASSUME Sound(db), [Next]_vars
  PROVE  Sound(db')
<1>1. CASE UNCHANGED vars
  BY <1>1 DEF vars
<1>2. CASE Next
  BY <1>2, UserActionSound, LoopActionSound, CodexActionSound DEF Next
<1> QED
  BY <1>1, <1>2

-----------------------------------------------------------------------------
(* The theorems.                                                           *)

\* The tables are sound at every moment of every board.
THEOREM AlwaysSound == Spec => []Sound(db)
<1>1. Init => Sound(db)
  BY InitSound
<1>2. Sound(db) /\ [Next]_vars => Sound(db)'
  BY NextSound
<1> QED
  BY <1>1, <1>2, PTL DEF Spec

\* The tables keep the shape their migrations give them: every writer of
\* db.py and parallel_db.py stores a value its readers know.
THEOREM TypeCorrect == Spec => []TypeOK
<1>1. Sound(db) => TypeOK
  BY DEF Sound, TypeOK
<1> QED
  BY <1>1, AlwaysSound, PTL

\* However many tasks share a repository, an exclusive one that was let in by
\* eligibility runs without an execution of another root.
THEOREM IsolationHolds == Spec => []Isolation
<1>1. Sound(db) => Isolation
  BY DEF Sound, IsolatedIn, Isolation, Granted
<1> QED
  BY <1>1, AlwaysSound, PTL

\* reserve_scopes, the board-wide scope table and the namespaces of the groups
\* never let two owners write the same paths.
THEOREM ScopesStayDisjoint == Spec => []ScopesDisjoint
<1>1. Sound(db) => ScopesDisjoint
  BY DEF Sound, ScopesDisjointIn, ScopesDisjoint
<1> QED
  BY <1>1, AlwaysSound, PTL

\* A shared resource has at most one owner per namespace, through pauses,
\* failures, native turns and merges.
THEOREM ResourcesStayExclusive == Spec => []ResourcesExclusive
<1>1. Sound(db) => ResourcesExclusive
  BY DEF Sound, ResourcesExclusiveIn, ResourcesExclusive
<1> QED
  BY <1>1, AlwaysSound, PTL

-----------------------------------------------------------------------------
(***************************************************************************)
(* Second, Coherent: a turn that runs holds a lease, a result under review   *)
(* or being merged holds none, and a merged result belongs to a closed task. *)
(*                                                                         *)
(* The board as it is does not keep all of this: the retry of a blocked      *)
(* merge while a turn runs, and a native turn that is over when it is first  *)
(* seen, break it (the runs retry and missed show how).  What depends on     *)
(* their absence says so.                                                   *)
(*                                                                         *)
(* It begins with what the transactions of the task store write, table by   *)
(* table: a transaction about one task leaves every other task alone, up to *)
(* the group of a subtask and the consumers of a reworked result.           *)
(***************************************************************************)

\* n differs from s in task t alone.
Only(s, n, t) ==
  \A u \in Task \ {t} :
    /\ n.task[u] = s.task[u] /\ n.queue[u] = s.queue[u]
    /\ n.lease[u] = s.lease[u] /\ n.forced[u] = s.forced[u]
    /\ n.scope[u] = s.scope[u] /\ n.resource[u] = s.resource[u]

\* t's reservations are the same in n as in s.
SameReserved(s, n, t) == n.scope[t] = s.scope[t] /\ n.resource[t] = s.resource[t]
SameLease(s, n, t) == n.lease[t] = s.lease[t] /\ n.forced[t] = s.forced[t]
NoLease(n, t) == n.lease[t] = "none" /\ ~n.forced[t]

\* A row with another status and run state.
Standing(r, status, run) == [r EXCEPT !.status = status, !.run = run]

\* It is a row.
LEMMA StandingRow ==
  ASSUME NEW r \in Row, NEW status \in Status, NEW run \in RunState
  PROVE  Standing(r, status, run) \in Row
BY DEF Row, Standing

\* So is one with a result that is blocked.
LEMMA BlockedRow ==
  ASSUME NEW r \in Row
  PROVE  [r EXCEPT !.result = TRUE, !.merge = "blocked"] \in Row
BY DEF Row, MergeState

\* The state of a queue entry that is finished.
Fin(q) == IF q = "none" THEN "none" ELSE "done"

\* Steps about one task compose.
LEMMA OnlyTransitive ==
  ASSUME NEW s, NEW n, NEW k, NEW t, Only(s, n, t), Only(n, k, t)
  PROVE  Only(s, k, t)
BY DEF Only

\* update_task and set_parallel write one row.
LEMMA PutAt ==
  ASSUME NEW s, Sound(s), NEW t \in Task, NEW r
  PROVE  LET n == Put(s, t, r) IN
         /\ Only(s, n, t) /\ n.task[t] = r /\ n.queue[t] = s.queue[t]
         /\ SameLease(s, n, t) /\ SameReserved(s, n, t)
BY DEF Sound, Tables, Put, Only, SameLease, SameReserved

\* release_execution drops the lease alone.
LEMMA ReleaseAt ==
  ASSUME NEW s, Sound(s), NEW t \in Task
  PROVE  LET n == Release(s, t) IN
         /\ Only(s, n, t) /\ n.task[t] = s.task[t] /\ n.queue[t] = s.queue[t]
         /\ NoLease(n, t) /\ SameReserved(s, n, t)
BY DEF Sound, Tables, Release, Only, NoLease, SameReserved

\* release_execution with scopes drops the reservations too.
LEMMA ReleaseAllAt ==
  ASSUME NEW s, Sound(s), NEW t \in Task
  PROVE  LET n == ReleaseAll(s, t) IN
         /\ Only(s, n, t) /\ n.task[t] = s.task[t] /\ n.queue[t] = s.queue[t]
         /\ NoLease(n, t) /\ n.scope[t] = {} /\ n.resource[t] = {}
<1> DEFINE k == Release(s, t)
<1>1. Sound(k)
  BY ReleaseSound
<1>2. /\ Only(s, k, t) /\ k.task[t] = s.task[t] /\ k.queue[t] = s.queue[t]
      /\ NoLease(k, t)
  BY ReleaseAt
<1>3. ReleaseAll(s, t) = [k EXCEPT !.scope[t] = {}, !.resource[t] = {}]
  BY DEF ReleaseAll
<1> HIDE DEF k
<1> QED
  BY <1>1, <1>2, <1>3 DEF Sound, Tables, Only, NoLease

\* finish_queue ends the entry of the queue alone.
LEMMA FinishQueueAt ==
  ASSUME NEW s, Sound(s), NEW t \in Task
  PROVE  LET n == FinishQueue(s, t) IN
         /\ Only(s, n, t) /\ n.task[t] = s.task[t] /\ n.queue[t] = Fin(s.queue[t])
         /\ SameLease(s, n, t) /\ SameReserved(s, n, t)
<1> DEFINE q == Fin(s.queue[t])
<1>1. FinishQueue(s, t) = [s EXCEPT !.queue[t] = q]
  BY DEF FinishQueue, Fin
<1> HIDE DEF q
<1>2. LET n == [s EXCEPT !.queue[t] = q] IN
      /\ Only(s, n, t) /\ n.task[t] = s.task[t] /\ n.queue[t] = q
      /\ SameLease(s, n, t) /\ SameReserved(s, n, t)
  BY DEF Sound, Tables, Only, SameLease, SameReserved
<1> QED
  BY <1>1, <1>2 DEF q

\* What update_task gives back besides the row.
LEMMA GivenBackAt ==
  ASSUME NEW s, Sound(s), NEW t \in Task, NEW status
  PROVE  LET n == GivenBack(s, t, status) IN
         /\ Only(s, n, t) /\ n.task[t] = s.task[t]
         /\ status = "in_progress" =>
              /\ n.queue[t] = s.queue[t] /\ SameLease(s, n, t) /\ SameReserved(s, n, t)
         /\ status # "in_progress" => n.queue[t] = Fin(s.queue[t]) /\ NoLease(n, t)
         /\ status \notin {"done", "canceled"} /\ Managed(s, t) => SameReserved(s, n, t)
<1> DEFINE k == Release(s, t)
           a == ReleaseAll(s, t)
           kq == FinishQueue(k, t)
           aq == FinishQueue(a, t)
<1>1. Sound(k) /\ Sound(a)
  BY ReleaseSound, ReleaseAllSound
<1>2. /\ Only(s, k, t) /\ k.task[t] = s.task[t] /\ k.queue[t] = s.queue[t]
      /\ NoLease(k, t) /\ SameReserved(s, k, t)
  BY ReleaseAt
<1>3. /\ Only(s, a, t) /\ a.task[t] = s.task[t] /\ a.queue[t] = s.queue[t]
      /\ NoLease(a, t)
  BY ReleaseAllAt
<1>4. GivenBack(s, t, status) =
        IF status = "in_progress" THEN s
        ELSE IF status \in {"done", "canceled"} \/ ~Managed(s, t) THEN aq ELSE kq
  BY DEF GivenBack
<1> HIDE DEF k, a
<1>5. /\ Only(k, kq, t) /\ kq.task[t] = k.task[t] /\ kq.queue[t] = Fin(k.queue[t])
      /\ SameLease(k, kq, t) /\ SameReserved(k, kq, t)
  BY <1>1, FinishQueueAt
<1>6. /\ Only(a, aq, t) /\ aq.task[t] = a.task[t] /\ aq.queue[t] = Fin(a.queue[t])
      /\ SameLease(a, aq, t)
  BY <1>1, FinishQueueAt
<1> HIDE DEF kq, aq
<1>7. Only(s, kq, t) /\ Only(s, aq, t) /\ Only(s, s, t)
  BY <1>2, <1>3, <1>5, <1>6 DEF Only
<1> QED
  BY <1>2, <1>3, <1>4, <1>5, <1>6, <1>7 DEF SameLease, SameReserved, NoLease

\* update_task with a status and a run state.
LEMMA MovedAt ==
  ASSUME NEW s, Sound(s), NEW t \in Task, NEW status \in Status, NEW run \in RunState
  PROVE  LET n == Moved(s, t, status, run) IN
         /\ Only(s, n, t)
         /\ n.task[t] = Standing(s.task[t], status, run)
         /\ status = "in_progress" =>
              /\ n.queue[t] = s.queue[t] /\ SameLease(s, n, t) /\ SameReserved(s, n, t)
         /\ status # "in_progress" => n.queue[t] = Fin(s.queue[t]) /\ NoLease(n, t)
         /\ status \notin {"done", "canceled"} /\ Managed(s, t) => SameReserved(s, n, t)
<1> DEFINE r == Standing(s.task[t], status, run)
           p == Put(s, t, r)
           n == GivenBack(p, t, status)
<1>1. r \in Row /\ r.mode = s.task[t].mode
  BY RowOf DEF Row, Standing
<1>2. Moved(s, t, status, run) = n
  BY DEF Moved, Standing
<1> HIDE DEF r
<1>3. Sound(p)
  BY <1>1, PutSound
<1>4. /\ Only(s, p, t) /\ p.task[t] = r /\ p.queue[t] = s.queue[t]
      /\ SameLease(s, p, t) /\ SameReserved(s, p, t)
  BY PutAt
<1>5. Managed(p, t) <=> Managed(s, t)
  BY <1>1, <1>4 DEF Managed
<1> HIDE DEF p
<1>6. /\ Only(p, n, t) /\ n.task[t] = p.task[t]
      /\ status = "in_progress" =>
           /\ n.queue[t] = p.queue[t] /\ SameLease(p, n, t) /\ SameReserved(p, n, t)
      /\ status # "in_progress" => n.queue[t] = Fin(p.queue[t]) /\ NoLease(n, t)
      /\ status \notin {"done", "canceled"} /\ Managed(p, t) => SameReserved(p, n, t)
  BY <1>3, GivenBackAt
<1> HIDE DEF n
<1>7. Only(s, n, t)
  BY <1>4, <1>6, OnlyTransitive
<1> QED
  BY <1>2, <1>4, <1>5, <1>6, <1>7 DEF SameLease, SameReserved, r

\* _fail_task drops the lease and ends the entry of the queue.
LEMMA FailedAt ==
  ASSUME NEW s, Sound(s), NEW t \in Task
  PROVE  LET n == Failed(s, t) IN
         /\ Only(s, n, t) /\ n.task[t] = [s.task[t] EXCEPT !.run = "failed"]
         /\ n.queue[t] = Fin(s.queue[t]) /\ NoLease(n, t) /\ SameReserved(s, n, t)
<1> DEFINE r == [s.task[t] EXCEPT !.run = "failed"]
           p == Put(s, t, r)
           k == Release(p, t)
           n == FinishQueue(k, t)
<1>1. r \in Row
  BY RowOf DEF Row, RunState
<1>2. Failed(s, t) = n
  BY DEF Failed
<1> HIDE DEF r
<1>3. /\ Only(s, p, t) /\ p.task[t] = r /\ p.queue[t] = s.queue[t]
      /\ SameReserved(s, p, t)
  BY PutAt
<1>4. Sound(p)
  BY <1>1, PutSound
<1> HIDE DEF p
<1>5. /\ Only(p, k, t) /\ k.task[t] = p.task[t] /\ k.queue[t] = p.queue[t]
      /\ NoLease(k, t) /\ SameReserved(p, k, t)
  BY <1>4, ReleaseAt
<1>6. Sound(k)
  BY <1>4, ReleaseSound
<1> HIDE DEF k
<1>7. /\ Only(k, n, t) /\ n.task[t] = k.task[t] /\ n.queue[t] = Fin(k.queue[t])
      /\ SameLease(k, n, t) /\ SameReserved(k, n, t)
  BY <1>6, FinishQueueAt
<1> HIDE DEF n
<1>8. Only(s, n, t)
  BY <1>3, <1>5, <1>7, OnlyTransitive
<1> QED
  BY <1>2, <1>3, <1>5, <1>7, <1>8 DEF SameLease, SameReserved, NoLease, r

\* The row of a task the board does not merge, after its completed turn...
Closing(r, q) ==
  \E status \in {"in_review", "done"} : q = Standing(r, status, "none")

\* ... and of one that it merges.
Delivery(r, q) ==
  \/ q = [r EXCEPT !.run = "failed"]
  \/ q = [[r EXCEPT !.result = TRUE, !.merge = "blocked"] EXCEPT !.run = "failed"]
  \/ /\ ~r.stale
     /\ \E status \in {"in_review", "in_progress"}, merge \in {"pending_review", "queued"} :
          q = [Standing(r, status, "none") EXCEPT
                 !.result = TRUE, !.stale = FALSE, !.merge = merge]

\* What a completed turn leaves, whatever its outcome.
LEMMA SettledAt ==
  ASSUME NEW s, Sound(s), NEW t \in Task, NEW outcome
  PROVE  LET n == Settled(s, t, outcome) IN
         /\ Only(s, n, t) /\ n.queue[t] = Fin(s.queue[t]) /\ NoLease(n, t)
         /\ ~Managed(s, t) => Closing(s.task[t], n.task[t])
         /\ Managed(s, t) => Delivery(s.task[t], n.task[t]) /\ SameReserved(s, n, t)
<1> DEFINE k == Release(s, t)
           s1 == FinishQueue(k, t)
           r1 == [s.task[t] EXCEPT !.result = TRUE, !.merge = "blocked"]
           reviewed == t \in Reviewed /\ ~IsChild(t)
           status == IF reviewed THEN "in_review" ELSE "in_progress"
           merge == IF reviewed THEN "pending_review" ELSE "queued"
           s2 == Moved(s1, t, status, "none")
           r2 == [s2.task[t] EXCEPT !.result = TRUE, !.stale = FALSE, !.merge = merge]
           over == IF t \in Reviewed THEN "in_review" ELSE "done"
           u0 == Moved(s, t, over, "none")
           b == Put(s1, t, r1)
           fb == Failed(b, t)
           f1 == Failed(s1, t)
           n2 == Put(s2, t, r2)
<1>1. /\ Sound(k) /\ Only(s, k, t) /\ k.task[t] = s.task[t] /\ k.queue[t] = s.queue[t]
      /\ NoLease(k, t) /\ SameReserved(s, k, t)
  BY ReleaseSound, ReleaseAt
<1>2. /\ Sound(s1) /\ Only(k, s1, t) /\ s1.task[t] = k.task[t]
      /\ s1.queue[t] = Fin(k.queue[t]) /\ SameLease(k, s1, t) /\ SameReserved(k, s1, t)
  BY <1>1, FinishQueueSound, FinishQueueAt
<1>3. Settled(s, t, outcome) =
        IF ~Managed(s, t) THEN u0
        ELSE IF s.task[t].stale \/ outcome = "attention" THEN f1
        ELSE IF outcome = "outside" THEN fb
        ELSE n2
  BY <1>1, <1>2 DEF Settled
<1> HIDE DEF k, s1
<1>4. /\ Only(s, s1, t) /\ s1.task[t] = s.task[t] /\ s1.queue[t] = Fin(s.queue[t])
      /\ NoLease(s1, t) /\ SameReserved(s, s1, t)
  BY <1>1, <1>2, OnlyTransitive DEF SameLease, SameReserved, NoLease
<1>5. Managed(s1, t) <=> Managed(s, t)
  BY <1>4 DEF Managed
<1>6. over \in Status /\ status \in Status /\ "none" \in RunState
      /\ over # "in_progress" /\ over \in {"in_review", "done"}
  BY DEF Status, RunState
<1>7. status \in {"in_review", "in_progress"} /\ merge \in {"pending_review", "queued"}
  OBVIOUS
<1> HIDE DEF over, status, merge
<1>8. /\ Only(s, u0, t)
      /\ u0.task[t] = Standing(s.task[t], over, "none")
      /\ u0.queue[t] = Fin(s.queue[t]) /\ NoLease(u0, t)
  BY <1>6, MovedAt
<1>9. /\ Only(s1, f1, t) /\ f1.task[t] = [s1.task[t] EXCEPT !.run = "failed"]
      /\ f1.queue[t] = Fin(s1.queue[t]) /\ NoLease(f1, t) /\ SameReserved(s1, f1, t)
  BY <1>2, FailedAt
<1>10. r1 \in Row
  BY RowOf, BlockedRow
<1> HIDE DEF r1
<1>11. /\ Sound(b) /\ Only(s1, b, t) /\ b.task[t] = r1 /\ b.queue[t] = s1.queue[t]
       /\ SameLease(s1, b, t) /\ SameReserved(s1, b, t)
  <2>1. Sound(b)
    BY <1>2, <1>10, PutSound
  <2>2. /\ Only(s1, b, t) /\ b.task[t] = r1 /\ b.queue[t] = s1.queue[t]
        /\ SameLease(s1, b, t) /\ SameReserved(s1, b, t)
    BY <1>2, PutAt
  <2> QED
    BY <2>1, <2>2
<1> HIDE DEF b
<1>12. /\ Only(b, fb, t) /\ fb.task[t] = [b.task[t] EXCEPT !.run = "failed"]
       /\ fb.queue[t] = Fin(b.queue[t]) /\ NoLease(fb, t) /\ SameReserved(b, fb, t)
  BY <1>11, FailedAt
<1>13. /\ Sound(s2) /\ Only(s1, s2, t)
       /\ s2.task[t] = Standing(s1.task[t], status, "none")
       /\ s2.queue[t] \in {s1.queue[t], Fin(s1.queue[t])}
       /\ SameLease(s1, s2, t) \/ NoLease(s2, t)
       /\ Managed(s1, t) => SameReserved(s1, s2, t)
  BY <1>2, <1>6, <1>7, MovedSound, MovedAt
<1> HIDE DEF s2
<1>14. /\ Only(s2, n2, t) /\ n2.task[t] = r2 /\ n2.queue[t] = s2.queue[t]
       /\ SameLease(s2, n2, t) /\ SameReserved(s2, n2, t)
  BY <1>13, PutAt
<1> HIDE DEF n2, f1, fb, u0
<1>15. Fin(Fin(s.queue[t])) = Fin(s.queue[t])
  BY DEF Fin
<1>16. CASE ~Managed(s, t)
  BY <1>3, <1>6, <1>8, <1>16 DEF Closing
<1>17. CASE Settled(s, t, outcome) = f1 /\ Managed(s, t)
  <2>1. Only(s, f1, t) /\ SameReserved(s, f1, t)
    BY <1>4, <1>9, OnlyTransitive DEF SameReserved
  <2>2. f1.task[t] = [s.task[t] EXCEPT !.run = "failed"]
    BY <1>4, <1>9
  <2>3. Delivery(s.task[t], f1.task[t])
    BY <2>2 DEF Delivery
  <2>4. NoLease(f1, t) /\ f1.queue[t] = Fin(s.queue[t])
    BY <1>4, <1>9, <1>15
  <2> QED
    BY <1>17, <2>1, <2>3, <2>4
<1>18. CASE Settled(s, t, outcome) = fb /\ Managed(s, t)
  <2>1. Only(s, fb, t) /\ SameReserved(s, fb, t)
    BY <1>4, <1>11, <1>12, OnlyTransitive DEF SameReserved
  <2>2. fb.task[t] = [[s.task[t] EXCEPT !.result = TRUE, !.merge = "blocked"]
                        EXCEPT !.run = "failed"]
    BY <1>11, <1>12 DEF r1
  <2>3. Delivery(s.task[t], fb.task[t])
    BY <2>2 DEF Delivery
  <2>4. NoLease(fb, t) /\ fb.queue[t] = Fin(s.queue[t])
    BY <1>4, <1>11, <1>12, <1>15
  <2> QED
    BY <1>18, <2>1, <2>3, <2>4
<1>19. CASE Settled(s, t, outcome) = n2 /\ Managed(s, t) /\ ~s.task[t].stale
  <2>1. Only(s, n2, t) /\ SameReserved(s, n2, t)
    BY <1>4, <1>5, <1>13, <1>14, <1>19, OnlyTransitive DEF SameReserved
  <2>2. NoLease(n2, t) /\ n2.queue[t] = Fin(s.queue[t])
    BY <1>4, <1>13, <1>14, <1>15 DEF SameLease, NoLease
  <2>3. n2.task[t] = [Standing(s.task[t], status, "none") EXCEPT
                        !.result = TRUE, !.stale = FALSE, !.merge = merge]
    BY <1>4, <1>13, <1>14
  <2>4. Delivery(s.task[t], n2.task[t])
    BY <1>7, <1>19, <2>3 DEF Delivery
  <2> QED
    BY <1>19, <2>1, <2>2, <2>4
<1> QED
  BY <1>3, <1>16, <1>17, <1>18, <1>19

-----------------------------------------------------------------------------
(* The transactions that take leases and reservations.                     *)

\* Rows, queue and leases of the tasks besides t are the same.
Beside(s, n, t) ==
  \A u \in Task \ {t} :
    /\ n.task[u] = s.task[u] /\ n.queue[u] = s.queue[u]
    /\ n.lease[u] = s.lease[u] /\ n.forced[u] = s.forced[u]

\* t's owners have reserved what they declare in s.
Reserves(s, n, t) ==
  \A u \in Task :
    /\ n.scope[u] = IF u \in Owners(t) THEN ScopesOf(s, u) ELSE s.scope[u]
    /\ n.resource[u] = IF u \in Owners(t) THEN s.resource[u] \cup NeedsOf(u)
                                          ELSE s.resource[u]

SameReservations(s, n) == n.scope = s.scope /\ n.resource = s.resource

\* reserve_scopes rewrites the scopes of the task and its root alone.
LEMMA ReserveScopesAt ==
  ASSUME NEW s, Sound(s), NEW t \in Task
  PROVE  LET n == ReserveScopes(s, t) IN
         /\ n.task = s.task /\ n.queue = s.queue /\ n.lease = s.lease
         /\ n.forced = s.forced /\ n.resource = s.resource
         /\ \A u \in Task :
              n.scope[u] = IF u \in Owners(t) THEN ScopesOf(s, u) ELSE s.scope[u]
BY DEF Sound, Tables, ReserveScopes

\* A reservation adds the resources.
LEMMA ReserveAt ==
  ASSUME NEW s, Sound(s), NEW t \in Task
  PROVE  LET n == Reserve(s, t) IN
         /\ n.task = s.task /\ n.queue = s.queue /\ n.lease = s.lease
         /\ n.forced = s.forced /\ Reserves(s, n, t)
<1> DEFINE f == [o \in Task |-> IF o \in Owners(t) THEN s.resource[o] \cup NeedsOf(o)
                                                   ELSE s.resource[o]]
           g == [o \in Task |-> IF o \in Owners(t) THEN ScopesOf(s, o) ELSE s.scope[o]]
           n == Reserve(s, t)
<1>1. n = [[s EXCEPT !.scope = g] EXCEPT !.resource = f]
  BY DEF Reserve, ReserveScopes
<1>2. /\ \A u \in Task : f[u] = IF u \in Owners(t) THEN s.resource[u] \cup NeedsOf(u)
                                                   ELSE s.resource[u]
      /\ \A u \in Task : g[u] = IF u \in Owners(t) THEN ScopesOf(s, u) ELSE s.scope[u]
  OBVIOUS
<1> HIDE DEF f, g, n
<1>3. /\ n.task = s.task /\ n.queue = s.queue /\ n.lease = s.lease
      /\ n.forced = s.forced /\ n.scope = g /\ n.resource = f
  BY <1>1 DEF Sound, Tables
<1> QED
  BY <1>2, <1>3 DEF Reserves, n

\* The row of a task that was claimed.
ClaimedRow(r) == [r EXCEPT !.status = "in_progress", !.run = "starting",
                           !.paused = FALSE, !.merge = "none", !.stale = FALSE]

\* claim_candidate writes the row, the queue entry and the lease of the task,
\* and the reservations of its owners.
LEMMA ClaimedAt ==
  ASSUME NEW s, Sound(s), NEW t \in Task
  PROVE  LET n == Claimed(s, t) IN
         /\ Beside(s, n, t) /\ Reserves(s, n, t)
         /\ n.task[t] = ClaimedRow(s.task[t])
         /\ n.queue[t] = IF s.queue[t] = "none" THEN "none" ELSE "claimed"
         /\ n.lease[t] = s.task[RootOf[t]].mode /\ ~n.forced[t]
<1> DEFINE r == Reserve(s, t)
           n == Claimed(s, t)
           m == s.task[RootOf[t]].mode
           q == IF r.queue[t] = "none" THEN "none" ELSE "claimed"
           row0 == ClaimedRow(r.task[t])
<1>1. /\ r.task = s.task /\ r.queue = s.queue /\ r.lease = s.lease
      /\ r.forced = s.forced /\ Reserves(s, r, t)
  BY ReserveAt
<1>2. n = [r EXCEPT !.lease[t] = m, !.forced[t] = FALSE, !.queue[t] = q,
                    !.task[t] = row0]
  BY DEF Claimed, ClaimedRow
<1>3. r = [s EXCEPT !.scope = r.scope, !.resource = r.resource]
  BY DEF Reserve, ReserveScopes, Sound, Tables
<1> HIDE DEF r, n, m, q, row0
<1>4. /\ n.lease = [r.lease EXCEPT ![t] = m] /\ n.forced = [r.forced EXCEPT ![t] = FALSE]
      /\ n.queue = [r.queue EXCEPT ![t] = q] /\ n.task = [r.task EXCEPT ![t] = row0]
      /\ n.scope = r.scope /\ n.resource = r.resource
  BY <1>2, <1>3 DEF Sound, Tables
<1>5. Reserves(s, n, t)
  BY <1>1, <1>4 DEF Reserves
<1>6. Beside(s, n, t)
  BY <1>1, <1>4 DEF Beside, Sound, Tables
<1>7. n.lease[t] = m /\ ~n.forced[t] /\ n.queue[t] = q /\ n.task[t] = row0
  BY <1>1, <1>4 DEF Sound, Tables
<1> QED
  BY <1>1, <1>5, <1>6, <1>7 DEF n, m, q, row0

\* _adopt_turn takes a lease unless the task has one, with the reservations
\* when eligibility allows it.
LEMMA OccupiedAt ==
  ASSUME NEW s, Sound(s), NEW t \in Task, s.lease[t] = "none"
  PROVE  LET n == Occupied(s, t) IN
         /\ Beside(s, n, t) /\ n.queue[t] = s.queue[t]
         /\ n.task[t] = [s.task[t] EXCEPT !.conflict = n.task[t].conflict]
         /\ n.lease[t] = s.task[RootOf[t]].mode
         /\ IF Eligible(s, t, FALSE) THEN ~n.forced[t] /\ Reserves(s, n, t)
                                     ELSE n.forced[t] /\ SameReservations(s, n)
<1> DEFINE eligible == Eligible(s, t, FALSE)
           r == IF eligible THEN Reserve(s, t) ELSE s
           w == s.task[t].conflict \/ ~eligible
           row0 == [s.task[t] EXCEPT !.conflict = w]
           m == s.task[RootOf[t]].mode
           p == Put(r, t, row0)
           forced == ~eligible
           n == [p EXCEPT !.lease[t] = m, !.forced[t] = forced]
<1>1. Occupied(s, t) = n
  BY DEF Occupied
<1>2. row0 = [s.task[t] EXCEPT !.conflict = row0.conflict]
  BY RowOf DEF Row
<1>3. /\ r.task = s.task /\ r.queue = s.queue /\ r.lease = s.lease /\ r.forced = s.forced
      /\ IF eligible THEN Reserves(s, r, t) ELSE SameReservations(s, r)
      /\ eligible => Sound(r)
      /\ ~eligible => Sound(r)
  <2>1. CASE eligible
    <3>1. LeasesAdmit(s, t) /\ ScopesFree(s, t) /\ ResourcesFree(s, t)
      BY <2>1, EligibleAdmits
    <3>2. Sound(Reserve(s, t))
      BY <3>1, ReserveSound
    <3>3. /\ Reserve(s, t).task = s.task /\ Reserve(s, t).queue = s.queue
          /\ Reserve(s, t).lease = s.lease /\ Reserve(s, t).forced = s.forced
          /\ Reserves(s, Reserve(s, t), t)
      BY ReserveAt
    <3> HIDE DEF eligible
    <3> QED
      BY <2>1, <3>2, <3>3
  <2>2. CASE ~eligible
    <3> HIDE DEF eligible
    <3> QED
      BY <2>2 DEF SameReservations
  <2> QED
    BY <2>1, <2>2
<1>4. forced = ~eligible /\ forced \in BOOLEAN
  OBVIOUS
<1> HIDE DEF r, w, row0, eligible, forced
<1>5. Sound(r)
  BY <1>3
<1>6. /\ p.task = [r.task EXCEPT ![t] = row0] /\ p.queue = r.queue /\ p.lease = r.lease
      /\ p.forced = r.forced /\ p.scope = r.scope /\ p.resource = r.resource
      /\ p = [task |-> p.task, queue |-> p.queue, lease |-> p.lease, forced |-> p.forced,
              scope |-> p.scope, resource |-> p.resource]
  BY <1>5 DEF Put, Sound, Tables
<1> HIDE DEF p, m
<1>7. /\ n.task = p.task /\ n.queue = p.queue /\ n.scope = p.scope
      /\ n.resource = p.resource
      /\ n.lease = [p.lease EXCEPT ![t] = m] /\ n.forced = [p.forced EXCEPT ![t] = forced]
  BY <1>6
<1> HIDE DEF n
<1>8. Beside(s, n, t) /\ n.queue[t] = s.queue[t]
  BY <1>3, <1>6, <1>7 DEF Beside, Sound, Tables
<1>9. n.task[t] = row0 /\ n.lease[t] = m /\ n.forced[t] = forced
  BY <1>3, <1>6, <1>7 DEF Sound, Tables
<1>10. IF eligible THEN Reserves(s, n, t) ELSE SameReservations(s, n)
  BY <1>3, <1>6, <1>7 DEF Reserves, SameReservations
<1>11. n.task[t] = [s.task[t] EXCEPT !.conflict = n.task[t].conflict]
  BY <1>2, <1>9
<1>12. IF eligible THEN ~n.forced[t] ELSE n.forced[t]
  BY <1>4, <1>9
<1>13. IF eligible THEN ~n.forced[t] /\ Reserves(s, n, t)
                   ELSE n.forced[t] /\ SameReservations(s, n)
  BY <1>10, <1>12
<1> QED
  BY <1>1, <1>8, <1>9, <1>11, <1>13 DEF eligible, m

-----------------------------------------------------------------------------
(* Rework: the consumers are marked, the review of the group is reopened.   *)

\* A row with another merge state and validity.
Flagged(r, merge, stale) == [r EXCEPT !.merge = merge, !.stale = stale]

\* The consumers that have to validate their work when t is reworked.
ToMark(s, t, u) == u \in Downstream(t) /\ (s.task[u].turn # "none" \/ s.task[u].result)

\* mark_downstream_stale writes flags of rows alone.
LEMMA MarkedAt ==
  ASSUME NEW s, Sound(s), NEW t \in Task
  PROVE  LET n == MarkDownstreamStale(s, t) IN
         /\ n.queue = s.queue /\ n.lease = s.lease /\ n.forced = s.forced
         /\ SameReservations(s, n)
         /\ \A u \in Task :
              /\ n.task[u] = Flagged(s.task[u], n.task[u].merge, n.task[u].stale)
              /\ n.task[u].merge = IF IsChild(t) /\ u = RootOf[t] THEN "none"
                                                                  ELSE s.task[u].merge
              /\ n.task[u].stale <=> s.task[u].stale \/ ToMark(s, t, u)
<1> DEFINE n == MarkDownstreamStale(s, t)
           m(u) == IF IsChild(t) /\ u = RootOf[t] THEN "none" ELSE s.task[u].merge
           w(u) == s.task[u].stale \/ /\ u \in Downstream(t)
                                      /\ s.task[u].turn # "none" \/ s.task[u].result
           f == [u \in Task |-> Flagged(s.task[u], m(u), w(u))]
<1>1. n = [s EXCEPT !.task = f]
  BY DEF MarkDownstreamStale, Flagged
<1>2. ASSUME NEW u \in Task
      PROVE  /\ f[u] = Flagged(s.task[u], m(u), w(u))
             /\ f[u].merge = m(u) /\ f[u].stale = w(u)
  <2>1. f[u] = Flagged(s.task[u], m(u), w(u))
    OBVIOUS
  <2>2. s.task[u] \in Row
    BY RowOf
  <2> DEFINE mu == m(u)
             wu == w(u)
  <2> HIDE DEF f, m, w, mu, wu
  <2>3. Flagged(s.task[u], mu, wu).merge = mu /\ Flagged(s.task[u], mu, wu).stale = wu
    BY <2>2 DEF Flagged, Row
  <2> QED
    BY <2>1, <2>3 DEF mu, wu
<1>3. \A u \in Task : w(u) <=> s.task[u].stale \/ ToMark(s, t, u)
  BY DEF ToMark
<1>4. \A u \in Task : m(u) = IF IsChild(t) /\ u = RootOf[t] THEN "none" ELSE s.task[u].merge
  OBVIOUS
<1> HIDE DEF f, n, m, w
<1>5. /\ n.queue = s.queue /\ n.lease = s.lease /\ n.forced = s.forced
      /\ SameReservations(s, n) /\ n.task = f
  BY <1>1 DEF Sound, Tables, SameReservations
<1>6. ASSUME NEW u \in Task
      PROVE  /\ n.task[u] = Flagged(s.task[u], n.task[u].merge, n.task[u].stale)
             /\ n.task[u].merge = m(u) /\ n.task[u].stale = w(u)
  BY <1>2, <1>5
<1>7. ASSUME NEW u \in Task
      PROVE  n.task[u].stale <=> s.task[u].stale \/ ToMark(s, t, u)
  BY <1>3, <1>6
<1> QED
  BY <1>4, <1>5, <1>6, <1>7 DEF n

\* The subtask t is continued while the review of its group u waits.
Reopens(s, t, u) == IsChild(t) /\ u = RootOf[t] /\ s.task[u].status = "in_review"

\* A row of a task or a group that is put back.
Reset(r, status, paused, merge, stale, wanted) ==
  [r EXCEPT !.status = status, !.paused = paused, !.merge = merge, !.stale = stale,
            !.wanted = wanted]

ResetTo(r, q) == q = Reset(r, q.status, q.paused, q.merge, q.stale, q.wanted)

\* Reopening a review writes the row of the group and drops its lease.
LEMMA ReopenedAt ==
  ASSUME NEW s, Sound(s), NEW t \in Task
  PROVE  LET n == Reopened(s, t) IN
         /\ SameReservations(s, n)
         /\ \A u \in Task :
              IF Reopens(s, t, u)
                THEN /\ ResetTo(s.task[u], n.task[u])
                     /\ n.task[u].status = "todo" /\ n.task[u].merge = "none"
                     /\ n.task[u].paused = s.task[u].paused
                     /\ n.task[u].stale = s.task[u].stale
                     /\ n.queue[u] = Fin(s.queue[u]) /\ NoLease(n, u)
                ELSE /\ n.task[u] = s.task[u] /\ n.queue[u] = s.queue[u]
                     /\ SameLease(s, n, u)
<1> DEFINE g == RootOf[t]
           todo == Moved(s, g, "todo", s.task[g].run)
           r == [todo.task[g] EXCEPT !.merge = "none", !.wanted = TRUE]
           n == Put(todo, g, r)
<1>1. g \in Task /\ s.task[g] \in Row
  BY OwnersAreTasks, RowOf
<1>2. s.task[g].run \in RunState
  BY <1>1 DEF Row
<1>3. Reopened(s, t) = IF Reopens(s, t, g) THEN n ELSE s
  BY DEF Reopened, Reopens
<1>4. CASE ~Reopens(s, t, g)
  <2>1. \A u \in Task : ~Reopens(s, t, u)
    BY <1>4 DEF Reopens
  <2>2. Reopened(s, t) = s
    BY <1>3, <1>4
  <2> QED
    BY <2>1, <2>2 DEF SameReservations, SameLease
<1>5. CASE Reopens(s, t, g)
  <2>1. Managed(s, g)
    BY <1>5, TaskAssumption DEF Managed, Reopens
  <2>2. /\ Sound(todo) /\ Only(s, todo, g)
        /\ todo.task[g] = Standing(s.task[g], "todo", s.task[g].run)
        /\ todo.queue[g] = Fin(s.queue[g]) /\ NoLease(todo, g)
        /\ SameReserved(s, todo, g)
    <3>1. Sound(todo)
      BY <1>1, <1>2, MovedSound DEF Status
    <3>2. "todo" \in Status /\ "todo" # "in_progress" /\ "todo" \notin {"done", "canceled"}
      BY DEF Status
    <3> QED
      BY <1>1, <1>2, <2>1, <3>1, <3>2, MovedAt
  <2> HIDE DEF todo, g
  <2>3. /\ Only(todo, n, g) /\ n.task[g] = r /\ n.queue[g] = todo.queue[g]
        /\ SameLease(todo, n, g) /\ SameReserved(todo, n, g)
    BY <1>1, <2>2, PutAt
  <2>4. /\ n.task[g].status = "todo" /\ n.task[g].merge = "none"
        /\ n.task[g].paused = s.task[g].paused /\ n.task[g].stale = s.task[g].stale
        /\ ResetTo(s.task[g], n.task[g])
    <3>1. r = [Standing(s.task[g], "todo", s.task[g].run) EXCEPT
                 !.merge = "none", !.wanted = TRUE]
      BY <2>2
    <3>2. r = Reset(s.task[g], "todo", s.task[g].paused, "none", s.task[g].stale, TRUE)
      BY <1>1, <3>1 DEF Row, Standing, Reset
    <3>3. /\ r.status = "todo" /\ r.merge = "none" /\ r.paused = s.task[g].paused
          /\ r.stale = s.task[g].stale /\ r.wanted = TRUE
      BY <1>1, <3>1 DEF Row, Standing
    <3> HIDE DEF r
    <3> QED
      BY <2>3, <3>2, <3>3 DEF ResetTo
  <2> HIDE DEF r, n
  <2>5. Only(s, n, g) /\ SameReserved(s, n, g) /\ NoLease(n, g) /\ n.queue[g] = Fin(s.queue[g])
    BY <2>2, <2>3, OnlyTransitive DEF SameReserved, NoLease, SameLease
  <2>6. Sound(n)
    BY <1>3, <1>5, ReopenedSound
  <2>7. SameReservations(s, n)
    BY <2>5, <2>6 DEF Only, SameReserved, SameReservations, Sound, Tables
  <2>8. \A u \in Task : Reopens(s, t, u) => u = g
    BY DEF Reopens, g
  <2>9. ASSUME NEW u \in Task
        PROVE  IF Reopens(s, t, u)
                 THEN /\ ResetTo(s.task[u], n.task[u])
                      /\ n.task[u].status = "todo" /\ n.task[u].merge = "none"
                      /\ n.task[u].paused = s.task[u].paused
                      /\ n.task[u].stale = s.task[u].stale
                      /\ n.queue[u] = Fin(s.queue[u]) /\ NoLease(n, u)
                 ELSE /\ n.task[u] = s.task[u] /\ n.queue[u] = s.queue[u]
                      /\ SameLease(s, n, u)
    <3>1. CASE u = g
      BY <1>5, <2>4, <2>5, <3>1
    <3>2. CASE u # g
      BY <2>5, <2>8, <3>2 DEF Only, SameLease
    <3> QED
      BY <3>1, <3>2
  <2>10. Reopened(s, t) = n
    BY <1>3, <1>5 DEF n, g
  <2> QED
    BY <2>7, <2>9, <2>10
<1> QED
  BY <1>4, <1>5

\* A subtask is not a group, and not its own group.
LEMMA ChildrenApart ==
  ASSUME NEW t \in Task, IsChild(t)
  PROVE  RootOf[t] \in Task /\ RootOf[t] # t /\ RootOf[t] \in Group /\ t \notin Group
BY TaskAssumption DEF IsChild

\* A row that was put back and flagged was put back.
LEMMA FlaggedReset ==
  ASSUME NEW r \in Row, NEW status, NEW paused, NEW m, NEW w, NEW wanted,
         NEW merge, NEW stale,
         NEW k, k = Flagged(Reset(r, status, paused, m, w, wanted), merge, stale)
  PROVE  ResetTo(r, k) /\ k.status = status /\ k.paused = paused
<1>1. k = Reset(r, status, paused, merge, stale, wanted)
  BY DEF Flagged, Reset, Row
<1>2. /\ k.status = status /\ k.paused = paused /\ k.merge = merge /\ k.stale = stale
      /\ k.wanted = wanted
  BY <1>1 DEF Reset, Row
<1> QED
  BY <1>1, <1>2 DEF ResetTo

\* The tables s with the task t queued, for a rework or not, are n.
Enqueues(s, n, t, rework) ==
  /\ SameReservations(s, n)
  /\ \A u \in Task :
       /\ ResetTo(s.task[u], n.task[u])
       /\ n.task[u].status = IF Reopens(s, t, u) THEN "todo" ELSE s.task[u].status
       /\ n.task[u].paused = IF u = t THEN FALSE ELSE s.task[u].paused
       /\ n.task[u].merge = IF Reopens(s, t, u) \/ (rework /\ u \in Owners(t))
                              THEN "none" ELSE s.task[u].merge
       /\ n.task[u].stale <=> s.task[u].stale \/ (rework /\ ToMark(s, t, u))
       /\ n.queue[u] = IF u = t THEN "pending"
                       ELSE IF Reopens(s, t, u) THEN Fin(s.queue[u])
                       ELSE s.queue[u]
       /\ IF Reopens(s, t, u) THEN NoLease(n, u) ELSE SameLease(s, n, u)

\* enqueue puts the task in the queue, reopens the review of its group, and on
\* a rework withdraws the result and marks its consumers.
LEMMA EnqueuedAt ==
  ASSUME NEW s, Sound(s), NEW t \in Task, NEW prompted \in BOOLEAN
  PROVE  Enqueues(s, Enqueued(s, t, prompted), t, prompted /\ Managed(s, t))
<1> DEFINE rework == prompted /\ Managed(s, t)
           s1 == Reopened(s, t)
           m == IF rework THEN "none" ELSE s1.task[t].merge
           r == [s1.task[t] EXCEPT !.paused = FALSE, !.merge = m]
           p == Put(s1, t, r)
           n1 == [p EXCEPT !.queue[t] = "pending"]
           n == IF rework THEN MarkDownstreamStale(n1, t) ELSE n1
<1>1. Enqueued(s, t, prompted) = n
  BY DEF Enqueued
<1>2. Sound(s1)
  BY ReopenedSound
<1>3. /\ SameReservations(s, s1)
      /\ \A u \in Task :
           IF Reopens(s, t, u)
             THEN /\ ResetTo(s.task[u], s1.task[u])
                  /\ s1.task[u].status = "todo" /\ s1.task[u].merge = "none"
                  /\ s1.task[u].paused = s.task[u].paused
                  /\ s1.task[u].stale = s.task[u].stale
                  /\ s1.queue[u] = Fin(s.queue[u]) /\ NoLease(s1, u)
             ELSE /\ s1.task[u] = s.task[u] /\ s1.queue[u] = s.queue[u]
                  /\ SameLease(s, s1, u)
  BY ReopenedAt
<1>4. ~Reopens(s, t, t)
  BY ChildrenApart DEF Reopens
<1>5. s1.task[t] = s.task[t]
  BY <1>3, <1>4
<1>6. r \in Row /\ Sound(p) /\ Sound(n1)
  <2>1. r \in Row
    <3>1. s1.task[t] \in Row
      BY <1>2, RowOf
    <3>2. m \in MergeState
      BY <3>1 DEF Row, MergeState
    <3> HIDE DEF m, s1
    <3> QED
      BY <3>1, <3>2 DEF Row
  <2> HIDE DEF r
  <2>2. Sound(p)
    BY <1>2, <2>1, PutSound
  <2> HIDE DEF p
  <2>3. n1 \in Tables /\ Narrows(p, n1)
    BY <2>2 DEF Sound, Tables, Narrows
  <2> QED
    BY <2>1, <2>2, <2>3, NarrowsSound
<1> DEFINE P == /\ Only(s1, p, t) /\ p.task[t] = r /\ p.queue[t] = s1.queue[t]
                /\ SameLease(s1, p, t) /\ SameReserved(s1, p, t)
<1>7. P
  BY <1>2, PutAt
<1>8. rework \in BOOLEAN /\ m = (IF rework THEN "none" ELSE s.task[t].merge)
  BY <1>5
<1>9. /\ r.paused = FALSE /\ r.merge = m /\ r.status = s.task[t].status
      /\ r.stale = s.task[t].stale
      /\ r = Reset(s.task[t], s.task[t].status, FALSE, m, s.task[t].stale, s.task[t].wanted)
      /\ r.wanted = s.task[t].wanted
      /\ r.turn = s.task[t].turn /\ r.result = s.task[t].result
  <2>1. r = [s.task[t] EXCEPT !.paused = FALSE, !.merge = m]
    BY <1>5
  <2> HIDE DEF r, m
  <2> QED
    BY <2>1, RowOf DEF Row, Reset
<1> HIDE DEF s1, rework, m, r, p
<1>10. /\ n1.task = p.task /\ n1.lease = p.lease /\ n1.forced = p.forced
       /\ n1.scope = p.scope /\ n1.resource = p.resource
       /\ n1.queue = [p.queue EXCEPT ![t] = "pending"]
  BY <1>6 DEF Sound, Tables
<1> HIDE DEF n1
<1>11. SameReservations(s, n1)
  <2>1. SameReservations(s1, p)
    BY <1>2, <1>6, <1>7 DEF P, Only, SameReserved, SameReservations, Sound, Tables
  <2> QED
    BY <1>3, <1>10, <2>1 DEF SameReservations
<1>12. ASSUME NEW u \in Task
       PROVE  /\ ResetTo(s.task[u], n1.task[u])
              /\ n1.task[u].status = IF Reopens(s, t, u) THEN "todo" ELSE s.task[u].status
              /\ n1.task[u].paused = IF u = t THEN FALSE ELSE s.task[u].paused
              /\ n1.task[u].merge = IF Reopens(s, t, u) \/ (rework /\ u = t)
                                      THEN "none" ELSE s.task[u].merge
              /\ n1.task[u].stale = s.task[u].stale
              /\ n1.task[u].turn = s.task[u].turn /\ n1.task[u].result = s.task[u].result
              /\ n1.queue[u] = IF u = t THEN "pending"
                               ELSE IF Reopens(s, t, u) THEN Fin(s.queue[u])
                               ELSE s.queue[u]
              /\ IF Reopens(s, t, u) THEN NoLease(n1, u) ELSE SameLease(s, n1, u)
  <2>1. s.task[u] \in Row /\ s.task[u].stale \in BOOLEAN
    BY RowOf DEF Row
  <2>2. CASE u = t
    <3>1. n1.task[t] = r
      BY <1>7, <1>10 DEF P
    <3>2. ResetTo(s.task[t], r)
      BY <1>9 DEF ResetTo
    <3>3. n1.queue[t] = "pending"
      BY <1>6, <1>10 DEF Sound, Tables
    <3>4. SameLease(s, n1, t)
      BY <1>3, <1>4, <1>7, <1>10 DEF P, SameLease
    <3> QED
      BY <1>4, <1>8, <1>9, <2>2, <3>1, <3>2, <3>3, <3>4
  <2>3. CASE u # t /\ Reopens(s, t, u)
    <3>1. /\ n1.task[u] = s1.task[u] /\ n1.queue[u] = s1.queue[u]
          /\ n1.lease[u] = s1.lease[u] /\ n1.forced[u] = s1.forced[u]
      BY <1>6, <1>7, <1>10, <2>3 DEF P, Only, Sound, Tables
    <3>2. /\ ResetTo(s.task[u], s1.task[u])
          /\ s1.task[u].status = "todo" /\ s1.task[u].merge = "none"
          /\ s1.task[u].paused = s.task[u].paused /\ s1.task[u].stale = s.task[u].stale
          /\ s1.queue[u] = Fin(s.queue[u]) /\ NoLease(s1, u)
      BY <1>3, <2>3
    <3>3. /\ s1.task[u].turn = s.task[u].turn /\ s1.task[u].result = s.task[u].result
      BY <2>1, <3>2 DEF ResetTo, Reset, Row
    <3> QED
      BY <2>3, <3>1, <3>2, <3>3 DEF NoLease
  <2>4. CASE u # t /\ ~Reopens(s, t, u)
    <3>1. /\ n1.task[u] = s.task[u] /\ n1.queue[u] = s.queue[u] /\ SameLease(s, n1, u)
      BY <1>3, <1>6, <1>7, <1>10, <2>4 DEF P, Only, SameLease, Sound, Tables
    <3>2. ResetTo(s.task[u], s.task[u])
      BY <2>1 DEF ResetTo, Reset, Row
    <3> QED
      BY <2>4, <3>1, <3>2
  <2> QED
    BY <2>2, <2>3, <2>4
<1>13. CASE ~rework
  <2>1. Enqueued(s, t, prompted) = n1
    BY <1>1, <1>13
  <2>2. \A u \in Task : s.task[u].stale \in BOOLEAN
    BY RowOf DEF Row
  <2> QED
    BY <1>11, <1>12, <1>13, <2>1, <2>2 DEF rework, Enqueues
<1>14. CASE rework
  <2> DEFINE k == MarkDownstreamStale(n1, t)
  <2>1. Enqueued(s, t, prompted) = k
    BY <1>1, <1>14
  <2>2. /\ k.queue = n1.queue /\ k.lease = n1.lease /\ k.forced = n1.forced
        /\ SameReservations(n1, k)
        /\ \A u \in Task :
             /\ k.task[u] = Flagged(n1.task[u], k.task[u].merge, k.task[u].stale)
             /\ k.task[u].merge = IF IsChild(t) /\ u = RootOf[t] THEN "none"
                                                                 ELSE n1.task[u].merge
             /\ k.task[u].stale <=> n1.task[u].stale \/ ToMark(n1, t, u)
    BY <1>6, MarkedAt
  <2>3. SameReservations(s, k)
    BY <1>11, <2>2 DEF SameReservations
  <2>4. \A u \in Task : ToMark(n1, t, u) <=> ToMark(s, t, u)
    BY <1>12 DEF ToMark
  <2> HIDE DEF k
  <2>5. ASSUME NEW u \in Task
        PROVE  /\ ResetTo(s.task[u], k.task[u])
               /\ k.task[u].status = n1.task[u].status
               /\ k.task[u].paused = n1.task[u].paused
    <3>1. s.task[u] \in Row /\ n1.task[u] \in Row
      BY <1>6, RowOf
    <3>2. ResetTo(s.task[u], n1.task[u])
      BY <1>12
    <3>3. k.task[u] = Flagged(n1.task[u], k.task[u].merge, k.task[u].stale)
      BY <2>2
    <3> QED
      BY <3>1, <3>2, <3>3, FlaggedReset DEF ResetTo
  <2>6. ASSUME NEW u \in Task
        PROVE  k.task[u].merge = IF Reopens(s, t, u) \/ u \in Owners(t)
                                   THEN "none" ELSE s.task[u].merge
    <3>1. u \in Owners(t) <=> u = t \/ (IsChild(t) /\ u = RootOf[t])
      BY DEF Owners, IsChild
    <3> QED
      BY <1>12, <1>14, <2>2, <3>1
  <2>7. ASSUME NEW u \in Task
        PROVE  /\ k.task[u].stale <=> s.task[u].stale \/ ToMark(s, t, u)
               /\ k.queue[u] = n1.queue[u] /\ k.lease[u] = n1.lease[u]
               /\ k.forced[u] = n1.forced[u]
    BY <1>12, <2>2, <2>4
  <2>8. ASSUME NEW u \in Task
        PROVE  IF Reopens(s, t, u) THEN NoLease(k, u) ELSE SameLease(s, k, u)
    BY <1>12, <2>7 DEF NoLease, SameLease
  <2>9. ASSUME NEW u \in Task
        PROVE  /\ k.task[u].status = IF Reopens(s, t, u) THEN "todo" ELSE s.task[u].status
               /\ k.task[u].paused = IF u = t THEN FALSE ELSE s.task[u].paused
               /\ k.queue[u] = IF u = t THEN "pending"
                               ELSE IF Reopens(s, t, u) THEN Fin(s.queue[u])
                               ELSE s.queue[u]
    BY <1>12, <2>5, <2>7
  <2>10. prompted /\ Managed(s, t)
    BY <1>14 DEF rework
  <2> QED
    BY <2>1, <2>3, <2>5, <2>6, <2>7, <2>8, <2>9, <2>10 DEF Enqueues
<1> QED
  BY <1>13, <1>14

\* The row of a task whose turn in Codex was adopted.
AdoptedRow(r, conflict, merge, stale) ==
  [r EXCEPT !.conflict = conflict, !.merge = merge, !.stale = stale,
            !.status = "in_progress", !.run = "running", !.turn = "active"]

\* The tables s with a turn of t adopted are n; its lease and reservations are
\* those of k.
Adopts(s, k, n, t, rework) ==
  /\ n.queue = s.queue /\ n.lease = k.lease /\ n.forced = k.forced
  /\ SameReservations(k, n)
  /\ n.task[t] = AdoptedRow(s.task[t], n.task[t].conflict, n.task[t].merge,
                            n.task[t].stale)
  /\ \A u \in Task \ {t} :
       n.task[u] = Flagged(s.task[u], n.task[u].merge, n.task[u].stale)
  /\ \A u \in Task :
       /\ n.task[u].merge = IF rework /\ u \in Owners(t) THEN "none" ELSE s.task[u].merge
       /\ n.task[u].stale <=> s.task[u].stale \/ (rework /\ ToMark(s, t, u))

\* _adopt_turn takes the lease if there is none, and on a rework withdraws the
\* result and marks its consumers.
LEMMA AdoptedAt ==
  ASSUME NEW s, Sound(s), NEW t \in Task
  PROVE  Adopts(s, Occupied(s, t), Adopted(s, t), t, Managed(s, t) /\ s.task[t].result)
<1> DEFINE k == Occupied(s, t)
           rework == Managed(s, t) /\ s.task[t].result
           marked == MarkDownstreamStale(k, t)
           unmerged == [marked.task[t] EXCEPT !.merge = "none"]
           pm == Put(marked, t, unmerged)
           s2 == IF rework THEN pm ELSE k
           r == [s2.task[t] EXCEPT !.status = "in_progress", !.run = "running",
                                   !.turn = "active"]
           n == Put(s2, t, r)
<1>1. Adopted(s, t) = n
  BY DEF Adopted
<1>2. Sound(k) /\ Sound(marked) /\ Sound(pm) /\ Sound(s2)
  <2>1. Sound(k) /\ Sound(marked)
    BY OccupiedSound, MarkDownstreamStaleSound
  <2> HIDE DEF k, marked
  <2>2. unmerged \in Row
    BY <2>1, RowOf DEF Row, MergeState
  <2>3. Sound(pm)
    BY <2>1, <2>2, PutSound
  <2> HIDE DEF pm, unmerged
  <2> QED
    BY <2>1, <2>3
<1>3. /\ k.queue = s.queue
      /\ \A u \in Task \ {t} : k.task[u] = s.task[u]
      /\ k.task[t] = [s.task[t] EXCEPT !.conflict = k.task[t].conflict]
  <2>1. CASE s.lease[t] # "none"
    <3>1. k = s
      BY <2>1 DEF Occupied
    <3> HIDE DEF k
    <3> QED
      BY <3>1, RowOf DEF Row
  <2>2. CASE s.lease[t] = "none"
    <3>1. /\ Beside(s, k, t) /\ k.queue[t] = s.queue[t]
          /\ k.task[t] = [s.task[t] EXCEPT !.conflict = k.task[t].conflict]
      BY <2>2, OccupiedAt
    <3> HIDE DEF k
    <3>2. k.queue = s.queue
      BY <1>2, <3>1 DEF Beside, Sound, Tables
    <3> QED
      BY <3>1, <3>2 DEF Beside
  <2> QED
    BY <2>1, <2>2
<1>4. /\ marked.queue = k.queue /\ marked.lease = k.lease /\ marked.forced = k.forced
      /\ SameReservations(k, marked)
      /\ \A u \in Task :
           /\ marked.task[u] = Flagged(k.task[u], marked.task[u].merge, marked.task[u].stale)
           /\ marked.task[u].merge = IF IsChild(t) /\ u = RootOf[t] THEN "none"
                                                                    ELSE k.task[u].merge
           /\ marked.task[u].stale <=> k.task[u].stale \/ ToMark(k, t, u)
  BY <1>2, MarkedAt
<1> HIDE DEF k, marked
<1>5. /\ pm.queue = marked.queue /\ pm.lease = marked.lease /\ pm.forced = marked.forced
      /\ SameReservations(marked, pm)
      /\ \A u \in Task \ {t} : pm.task[u] = marked.task[u]
      /\ pm.task[t] = unmerged
  BY <1>2 DEF Put, Sound, Tables, SameReservations
<1> HIDE DEF pm
<1>6. \A u \in Task : /\ k.task[u] \in Row /\ marked.task[u] \in Row
                      /\ pm.task[u] \in Row /\ s.task[u] \in Row /\ s2.task[u] \in Row
  BY <1>2, RowOf
<1>7. \A u \in Task :
        /\ k.task[u].merge = s.task[u].merge /\ k.task[u].stale = s.task[u].stale
        /\ k.task[u].turn = s.task[u].turn /\ k.task[u].result = s.task[u].result
  <2>1. ASSUME NEW u \in Task
        PROVE  /\ k.task[u].merge = s.task[u].merge /\ k.task[u].stale = s.task[u].stale
               /\ k.task[u].turn = s.task[u].turn /\ k.task[u].result = s.task[u].result
    <3>1. s.task[u] \in Row
      BY RowOf
    <3> QED
      BY <1>3, <3>1 DEF Row
  <2> QED
    BY <2>1
<1>8. \A u \in Task : ToMark(k, t, u) <=> ToMark(s, t, u)
  BY <1>7 DEF ToMark
<1>9. /\ unmerged.merge = "none" /\ unmerged.stale = marked.task[t].stale
      /\ unmerged = Flagged(marked.task[t], "none", marked.task[t].stale)
  BY <1>6 DEF Row, Flagged
<1> HIDE DEF unmerged
<1>10. \A u \in Task : u \in Owners(t) <=> u = t \/ (IsChild(t) /\ u = RootOf[t])
  BY DEF Owners, IsChild
<1>11. /\ s2.queue = s.queue /\ s2.lease = k.lease /\ s2.forced = k.forced
       /\ SameReservations(k, s2)
  BY <1>3, <1>4, <1>5 DEF SameReservations
<1>12. ASSUME NEW u \in Task
       PROVE  /\ s2.task[u] = Flagged(k.task[u], s2.task[u].merge, s2.task[u].stale)
              /\ s2.task[u].merge = IF rework /\ u \in Owners(t) THEN "none"
                                                                ELSE s.task[u].merge
              /\ s2.task[u].stale <=> s.task[u].stale \/ (rework /\ ToMark(s, t, u))
  <2>1. CASE ~rework
    <3>1. s2 = k
      BY <2>1
    <3>2. k.task[u] = Flagged(k.task[u], k.task[u].merge, k.task[u].stale)
      BY <1>6 DEF Row, Flagged
    <3> HIDE DEF s2, rework
    <3> QED
      BY <1>7, <2>1, <3>1, <3>2
  <2>2. CASE rework
    <3>1. s2 = pm
      BY <2>2
    <3> HIDE DEF s2, rework
    <3>2. CASE u = t
      <4>1. s2.task[t] = Flagged(marked.task[t], "none", marked.task[t].stale)
        BY <1>5, <1>9, <3>1
      <4>2. marked.task[t] = Flagged(k.task[t], marked.task[t].merge, marked.task[t].stale)
        BY <1>4
      <4>3. s2.task[t].merge = "none" /\ s2.task[t].stale = marked.task[t].stale
        BY <1>5, <1>9, <3>1
      <4>4. s2.task[t] = Flagged(k.task[t], s2.task[t].merge, s2.task[t].stale)
        BY <1>6, <4>1, <4>2, <4>3 DEF Flagged, Row
      <4> QED
        BY <1>4, <1>7, <1>8, <1>10, <2>2, <3>2, <4>3, <4>4
    <3>3. CASE u # t
      <4>1. s2.task[u] = marked.task[u]
        BY <1>5, <3>1, <3>3
      <4> QED
        BY <1>4, <1>7, <1>8, <1>10, <2>2, <3>3, <4>1
    <3> QED
      BY <3>2, <3>3
  <2> QED
    BY <2>1, <2>2
<1>13. Sound(s2) /\ s2.task[t] \in Row
  BY <1>2, <1>6
<1> HIDE DEF s2, rework
<1>14. /\ n.queue = s2.queue /\ n.lease = s2.lease /\ n.forced = s2.forced
       /\ SameReservations(s2, n)
       /\ \A u \in Task \ {t} : n.task[u] = s2.task[u]
       /\ n.task[t] = r
  BY <1>13 DEF Put, Sound, Tables, SameReservations
<1> HIDE DEF n
<1>15. /\ r.merge = s2.task[t].merge /\ r.stale = s2.task[t].stale
       /\ r = AdoptedRow(s.task[t], r.conflict, r.merge, r.stale)
  <2>1. s2.task[t] = Flagged([s.task[t] EXCEPT !.conflict = k.task[t].conflict],
                             s2.task[t].merge, s2.task[t].stale)
    BY <1>3, <1>12
  <2>2. s.task[t] \in Row
    BY RowOf
  <2> QED
    BY <1>13, <2>1, <2>2 DEF Flagged, AdoptedRow, Row
<1> HIDE DEF r
<1>16. ASSUME NEW u \in Task \ {t}
       PROVE  n.task[u] = Flagged(s.task[u], n.task[u].merge, n.task[u].stale)
  BY <1>3, <1>12, <1>14
<1>17. ASSUME NEW u \in Task
       PROVE  /\ n.task[u].merge = s2.task[u].merge /\ n.task[u].stale = s2.task[u].stale
  <2>1. CASE u = t
    BY <1>14, <1>15, <2>1
  <2>2. CASE u # t
    BY <1>14, <2>2
  <2> QED
    BY <2>1, <2>2
<1>18. /\ n.queue = s.queue /\ n.lease = k.lease /\ n.forced = k.forced
       /\ SameReservations(k, n)
  BY <1>11, <1>14 DEF SameReservations
<1>19. n.task[t] = AdoptedRow(s.task[t], n.task[t].conflict, n.task[t].merge, n.task[t].stale)
  BY <1>14, <1>15
<1> QED
  BY <1>1, <1>12, <1>16, <1>17, <1>18, <1>19 DEF rework, k, Adopts

-----------------------------------------------------------------------------
(* Groups and pauses.                                                      *)

\* The row of a group that is started or remembered as wanted.
BegunRow(r, status, wanted) == [r EXCEPT !.status = status, !.wanted = wanted]

\* start_group reserves and moves the group to in_progress, or marks it.
LEMMA GroupStartedAt ==
  ASSUME NEW s, Sound(s), NEW g \in Task
  PROVE  LET n == GroupStarted(s, g) IN
         /\ n.queue = s.queue /\ n.lease = s.lease /\ n.forced = s.forced
         /\ \A u \in Task \ {g} : n.task[u] = s.task[u]
         /\ n.task[g] = BegunRow(s.task[g], n.task[g].status, n.task[g].wanted)
         /\ \/ n.task[g].status = s.task[g].status /\ SameReservations(s, n)
            \/ /\ s.task[g].status = "todo" /\ s.task[g].phase = "submitted"
               /\ n.task[g].status = "in_progress" /\ Reserves(s, n, g)
<1> DEFINE n == GroupStarted(s, g)
           k == Reserve(s, g)
           started == [s.task[g] EXCEPT !.status = "in_progress", !.wanted = FALSE]
           wanted == [s.task[g] EXCEPT !.wanted = TRUE]
<1>1. \/ n = s
      \/ n = Put(s, g, wanted)
      \/ /\ s.task[g].status = "todo" /\ s.task[g].phase = "submitted"
         /\ Eligible(s, g, TRUE) /\ n = Put(k, g, started)
  BY DEF GroupStarted
<1>2. s.task[g] \in Row
  BY RowOf
<1>3. s.task[g] = BegunRow(s.task[g], s.task[g].status, s.task[g].wanted)
  BY <1>2 DEF Row, BegunRow
<1>4. CASE n = s
  BY <1>3, <1>4 DEF SameReservations
<1>5. CASE n = Put(s, g, wanted)
  <2>1. /\ n.queue = s.queue /\ n.lease = s.lease /\ n.forced = s.forced
        /\ \A u \in Task \ {g} : n.task[u] = s.task[u]
        /\ n.task[g] = wanted /\ SameReservations(s, n)
    <3> HIDE DEF wanted
    <3> QED
      BY <1>5 DEF Put, Sound, Tables, SameReservations
  <2>2. /\ wanted.status = s.task[g].status
        /\ wanted = BegunRow(s.task[g], wanted.status, wanted.wanted)
    BY <1>2 DEF Row, BegunRow
  <2> HIDE DEF n, wanted
  <2> QED
    BY <2>1, <2>2 DEF n
<1>6. CASE /\ s.task[g].status = "todo" /\ s.task[g].phase = "submitted"
           /\ Eligible(s, g, TRUE) /\ n = Put(k, g, started)
  <2>1. Sound(k)
    BY <1>6, EligibleAdmits, ReserveSound
  <2>2. /\ k.task = s.task /\ k.queue = s.queue /\ k.lease = s.lease
        /\ k.forced = s.forced /\ Reserves(s, k, g)
    BY ReserveAt
  <2> HIDE DEF k
  <2>3. /\ n.queue = k.queue /\ n.lease = k.lease /\ n.forced = k.forced
        /\ \A u \in Task \ {g} : n.task[u] = k.task[u]
        /\ n.task[g] = started /\ SameReservations(k, n)
    <3> HIDE DEF started
    <3> QED
      BY <1>6, <2>1 DEF Put, Sound, Tables, SameReservations
  <2>4. /\ started.status = "in_progress"
        /\ started = BegunRow(s.task[g], started.status, started.wanted)
    BY <1>2 DEF Row, BegunRow
  <2> HIDE DEF n, started
  <2>5. Reserves(s, n, g)
    BY <2>2, <2>3 DEF Reserves, SameReservations
  <2> QED
    BY <1>6, <2>2, <2>3, <2>4, <2>5 DEF n
<1> QED
  BY <1>1, <1>4, <1>5, <1>6

\* The subtasks of g are integrated and none has to be validated again.
Integrated(s, g) ==
  \A c \in Children(g) : s.task[c].merge = "merged" /\ ~s.task[c].stale

\* settle_group puts the group under review, or leaves the tables.
LEMMA GroupSettledAt ==
  ASSUME NEW s, Sound(s), NEW g \in Task
  PROVE  LET n == GroupSettled(s, g) IN
         \/ n = s
         \/ /\ s.task[g].merge = "none" /\ Children(g) # {} /\ Integrated(s, g)
            /\ Only(s, n, g) /\ n.queue[g] = Fin(s.queue[g]) /\ NoLease(n, g)
            /\ Managed(s, g) => SameReserved(s, n, g)
            /\ \E merge \in {"pending_review", "queued"} :
                 n.task[g] = [Standing(s.task[g], "in_review", "none") EXCEPT
                                !.result = TRUE, !.merge = merge]
<1> DEFINE k == Moved(s, g, "in_review", "none")
           merge == IF g \in Reviewed THEN "pending_review" ELSE "queued"
           r == [k.task[g] EXCEPT !.result = TRUE, !.merge = merge]
           n == Put(k, g, r)
<1>1. \/ GroupSettled(s, g) = s
      \/ /\ GroupSettled(s, g) = n /\ s.task[g].merge = "none" /\ Children(g) # {}
         /\ Integrated(s, g)
  BY DEF GroupSettled, Integrated
<1>2. /\ "in_review" \in Status /\ "none" \in RunState /\ "in_review" # "in_progress"
      /\ "in_review" \notin {"done", "canceled"} /\ merge \in {"pending_review", "queued"}
  BY DEF Status, RunState
<1> HIDE DEF merge
<1>3. Sound(k)
  BY <1>2, MovedSound
<1>4. /\ Only(s, k, g) /\ k.task[g] = Standing(s.task[g], "in_review", "none")
      /\ k.queue[g] = Fin(s.queue[g]) /\ NoLease(k, g)
      /\ Managed(s, g) => SameReserved(s, k, g)
  BY <1>2, MovedAt
<1> HIDE DEF k
<1>5. /\ Only(k, n, g) /\ n.task[g] = r /\ n.queue[g] = k.queue[g]
      /\ SameLease(k, n, g) /\ SameReserved(k, n, g)
  BY <1>3, PutAt
<1> HIDE DEF n
<1>6. Only(s, n, g)
  BY <1>4, <1>5, OnlyTransitive
<1>7. n.queue[g] = Fin(s.queue[g]) /\ NoLease(n, g)
  BY <1>4, <1>5 DEF NoLease, SameLease
<1>8. Managed(s, g) => SameReserved(s, n, g)
  BY <1>4, <1>5 DEF SameReserved
<1>9. n.task[g] = [Standing(s.task[g], "in_review", "none") EXCEPT
                     !.result = TRUE, !.merge = merge]
  BY <1>4, <1>5
<1>10. \E m \in {"pending_review", "queued"} :
         n.task[g] = [Standing(s.task[g], "in_review", "none") EXCEPT
                        !.result = TRUE, !.merge = m]
  BY <1>2, <1>9
<1> QED
  BY <1>1, <1>6, <1>7, <1>8, <1>10

\* The row of a member that a confirmed pause has stopped.
HaltedRow(r, turn, merge, run) ==
  [r EXCEPT !.paused = TRUE, !.conflict = FALSE, !.turn = turn, !.merge = merge,
            !.run = run]

\* A pause turns the row r of a member into q.
Halts(r, q) ==
  /\ q = HaltedRow(r, q.turn, q.merge, q.run)
  /\ q.turn = IF r.turn = "active" THEN "idle" ELSE r.turn
  /\ q.merge = IF r.merge = "merging" THEN "blocked" ELSE r.merge
  /\ q.run = IF r.run \in {"starting", "running", "waiting_quota"} THEN "failed" ELSE r.run

\* The row of a group whose members were all stopped.
StoppedRow(r) == [r EXCEPT !.phase = "paused", !.paused = TRUE, !.conflict = FALSE]

\* A confirmed pause stops the members, and gives back what they and their
\* group held.
LEMMA PauseConfirmedAt ==
  ASSUME NEW s, Sound(s), NEW t \in Task
  PROVE  LET n == PauseConfirmed(s, t) IN
         \A u \in Task :
           /\ u \in Members(t) =>
                /\ Halts(s.task[u], n.task[u]) /\ n.queue[u] = Fin(s.queue[u])
           /\ u \notin Members(t) =>
                /\ n.queue[u] = s.queue[u]
                /\ n.task[u] = IF u = t THEN StoppedRow(s.task[t]) ELSE s.task[u]
           /\ IF u \in Members(t) \cup {t}
                THEN NoLease(n, u) /\ n.scope[u] = {} /\ n.resource[u] = {}
                ELSE SameLease(s, n, u) /\ SameReserved(s, n, u)
<1> DEFINE stopped == Members(t)
           released == stopped \cup {t}
           turn(u) == IF s.task[u].turn = "active" THEN "idle" ELSE s.task[u].turn
           merge(u) == IF s.task[u].merge = "merging" THEN "blocked" ELSE s.task[u].merge
           run(u) == IF s.task[u].run \in {"starting", "running", "waiting_quota"}
                       THEN "failed" ELSE s.task[u].run
           halt(u) == HaltedRow(s.task[u], turn(u), merge(u), run(u))
           self == [s.task[t] EXCEPT !.phase = "paused", !.paused = TRUE,
                                     !.conflict = FALSE]
           f == [u \in Task |-> IF u \in stopped THEN halt(u)
                                ELSE IF u = t THEN self
                                ELSE s.task[u]]
           q == [u \in Task |-> IF u \in stopped /\ s.queue[u] # "none"
                                  THEN "done" ELSE s.queue[u]]
           lease == [u \in Task |-> IF u \in released THEN "none" ELSE s.lease[u]]
           forced == [u \in Task |-> IF u \in released THEN FALSE ELSE s.forced[u]]
           scope == [u \in Task |-> IF u \in released THEN {} ELSE s.scope[u]]
           resource == [u \in Task |-> IF u \in released THEN {} ELSE s.resource[u]]
           n == [s EXCEPT !.task = f, !.queue = q, !.lease = lease, !.forced = forced,
                          !.scope = scope, !.resource = resource]
<1>1. PauseConfirmed(s, t) = n
  <2>1. f = [u \in Task |->
              IF u \in stopped
                THEN [s.task[u] EXCEPT
                        !.paused = TRUE, !.conflict = FALSE,
                        !.turn = IF @ = "active" THEN "idle" ELSE @,
                        !.merge = IF @ = "merging" THEN "blocked" ELSE @,
                        !.run = IF @ \in {"starting", "running", "waiting_quota"}
                                  THEN "failed" ELSE @]
              ELSE IF u = t THEN [s.task[u] EXCEPT !.phase = "paused",
                                    !.paused = TRUE, !.conflict = FALSE]
              ELSE s.task[u]]
    BY DEF HaltedRow
  <2> HIDE DEF f
  <2> QED
    BY <2>1 DEF PauseConfirmed
<1>2. ASSUME NEW u \in Task PROVE Halts(s.task[u], halt(u))
  <2> DEFINE a == turn(u)
             b == merge(u)
             d == run(u)
             h == HaltedRow(s.task[u], a, b, d)
  <2>1. /\ a = IF s.task[u].turn = "active" THEN "idle" ELSE s.task[u].turn
        /\ b = IF s.task[u].merge = "merging" THEN "blocked" ELSE s.task[u].merge
        /\ d = IF s.task[u].run \in {"starting", "running", "waiting_quota"} THEN "failed"
                                                                           ELSE s.task[u].run
        /\ halt(u) = h
    OBVIOUS
  <2> HIDE DEF turn, merge, run, a, b, d, halt
  <2>2. h.turn = a /\ h.merge = b /\ h.run = d
    BY RowOf DEF Row, HaltedRow
  <2> QED
    BY <2>1, <2>2 DEF Halts
<1>3. /\ \A u \in Task : f[u] = IF u \in stopped THEN halt(u)
                                ELSE IF u = t THEN self ELSE s.task[u]
      /\ \A u \in Task : q[u] = IF u \in stopped THEN Fin(s.queue[u]) ELSE s.queue[u]
      /\ \A u \in Task : lease[u] = IF u \in released THEN "none" ELSE s.lease[u]
      /\ \A u \in Task : forced[u] = IF u \in released THEN FALSE ELSE s.forced[u]
      /\ \A u \in Task : scope[u] = IF u \in released THEN {} ELSE s.scope[u]
      /\ \A u \in Task : resource[u] = IF u \in released THEN {} ELSE s.resource[u]
  <2> HIDE DEF halt, self, released, stopped
  <2> QED
    BY DEF Fin
<1> HIDE DEF f, q, lease, forced, scope, resource, halt, self
<1>4. /\ n.task = f /\ n.queue = q /\ n.lease = lease /\ n.forced = forced
      /\ n.scope = scope /\ n.resource = resource
  BY DEF Sound, Tables
<1> HIDE DEF n
<1>5. ASSUME NEW u \in Task, u \in Members(t)
      PROVE  Halts(s.task[u], n.task[u]) /\ n.queue[u] = Fin(s.queue[u])
  BY <1>2, <1>3, <1>4, <1>5
<1>6. ASSUME NEW u \in Task, u \notin Members(t)
      PROVE  /\ n.queue[u] = s.queue[u]
             /\ n.task[u] = IF u = t THEN self ELSE s.task[u]
  BY <1>3, <1>4, <1>6
<1>7. ASSUME NEW u \in Task
      PROVE  IF u \in Members(t) \cup {t}
               THEN NoLease(n, u) /\ n.scope[u] = {} /\ n.resource[u] = {}
               ELSE SameLease(s, n, u) /\ SameReserved(s, n, u)
  BY <1>3, <1>4 DEF NoLease, SameLease, SameReserved
<1> QED
  BY <1>1, <1>5, <1>6, <1>7 DEF self, StoppedRow

\* The row of a member that was interrupted.
Interrupts(r, q) ==
  /\ q = [r EXCEPT !.turn = q.turn]
  /\ q.turn = IF r.turn = "active" THEN "idle" ELSE r.turn

\* An interrupt ends the turn alone.
LEMMA InterruptedAt ==
  ASSUME NEW s, Sound(s), NEW t \in Task
  PROVE  LET n == Interrupted(s, t) IN
         /\ Only(s, n, t) /\ Interrupts(s.task[t], n.task[t])
         /\ n.queue[t] = s.queue[t] /\ SameLease(s, n, t) /\ SameReserved(s, n, t)
<1> DEFINE n == Interrupted(s, t)
           turn == IF s.task[t].turn = "active" THEN "idle" ELSE s.task[t].turn
           r == [s.task[t] EXCEPT !.turn = turn]
<1>1. n = Put(s, t, r)
  BY DEF Interrupted
<1>2. r.turn = turn
  BY RowOf DEF Row
<1>3. Interrupts(s.task[t], r)
  BY <1>2 DEF Interrupts
<1> HIDE DEF n, r
<1> QED
  BY <1>1, <1>3, PutAt DEF n

\* A pause that could not be confirmed has interrupted some members.
LEMMA PauseHaltedAt ==
  ASSUME NEW s, Sound(s), NEW reached, NEW interrupted
  PROVE  LET n == PauseHalted(s, reached, interrupted) IN
         /\ n.lease = s.lease /\ n.forced = s.forced /\ SameReservations(s, n)
         /\ \A u \in Task :
              /\ n.queue[u] = IF u \in reached THEN Fin(s.queue[u]) ELSE s.queue[u]
              /\ IF u \in interrupted THEN Interrupts(s.task[u], n.task[u])
                                      ELSE n.task[u] = s.task[u]
<1> DEFINE q == [u \in Task |-> IF u \in reached /\ s.queue[u] # "none"
                                  THEN "done" ELSE s.queue[u]]
           f == [u \in Task |-> IF u \in interrupted THEN Interrupted(s, u).task[u]
                                ELSE s.task[u]]
           n == PauseHalted(s, reached, interrupted)
<1>1. n = [s EXCEPT !.queue = q, !.task = f]
  BY DEF PauseHalted
<1>2. \A u \in Task : q[u] = IF u \in reached THEN Fin(s.queue[u]) ELSE s.queue[u]
  BY DEF Fin
<1>3. \A u \in Task : IF u \in interrupted THEN Interrupts(s.task[u], f[u])
                                           ELSE f[u] = s.task[u]
  BY InterruptedAt
<1> HIDE DEF q, f, n
<1>4. /\ n.queue = q /\ n.task = f /\ n.lease = s.lease /\ n.forced = s.forced
      /\ n.scope = s.scope /\ n.resource = s.resource
  BY <1>1 DEF Sound, Tables
<1> QED
  BY <1>2, <1>3, <1>4 DEF SameReservations, n

\* The tables s with some tasks canceled.
Shut(s, closed) ==
  [s EXCEPT
    !.task = [u \in Task |-> IF u \in closed THEN Standing(s.task[u], "canceled", "none")
                                             ELSE s.task[u]],
    !.queue = [u \in Task |->
      IF u \in closed /\ s.queue[u] # "none" THEN "done" ELSE s.queue[u]]]

\* A confirmed cancel closes the task, or the group and what is not done of it.
LEMMA CancelManagedAt ==
  ASSUME NEW t \in Task, CancelManaged(t)
  PROVE  /\ Managed(db, t)
         /\ db' = Shut(PauseConfirmed(db, t),
                       {t} \cup {c \in Members(t) : db.task[c].status # "done"})
BY DEF CancelManaged, Shut, Standing, row

\* Closing tasks writes their rows and their queue entries.
LEMMA ShutAt ==
  ASSUME NEW s, Sound(s), NEW closed
  PROVE  LET n == Shut(s, closed) IN
         /\ Sound(n) /\ n.lease = s.lease /\ n.forced = s.forced /\ SameReservations(s, n)
         /\ \A u \in Task :
              /\ n.queue[u] = IF u \in closed THEN Fin(s.queue[u]) ELSE s.queue[u]
              /\ n.task[u] = IF u \in closed THEN Standing(s.task[u], "canceled", "none")
                                             ELSE s.task[u]
<1> DEFINE q == [u \in Task |-> IF u \in closed /\ s.queue[u] # "none"
                                  THEN "done" ELSE s.queue[u]]
           f == [u \in Task |-> IF u \in closed
                                  THEN Standing(s.task[u], "canceled", "none")
                                  ELSE s.task[u]]
           n == Shut(s, closed)
<1>1. n = [s EXCEPT !.task = f, !.queue = q]
  BY DEF Shut
<1>2. \A u \in Task : q[u] = IF u \in closed THEN Fin(s.queue[u]) ELSE s.queue[u]
  BY DEF Fin
<1>3. \A u \in Task : f[u] = IF u \in closed
                               THEN Standing(s.task[u], "canceled", "none")
                               ELSE s.task[u]
  OBVIOUS
<1>4. f \in [Task -> Row]
  <2>1. "canceled" \in Status /\ "none" \in RunState
    BY DEF Status, RunState
  <2> QED
    BY <2>1, RowOf, StandingRow
<1>5. q \in [Task -> {"none", "pending", "claimed", "done"}]
  BY DEF Sound, Tables
<1> HIDE DEF q, f, n
<1>6. Sound(n)
  BY <1>1, <1>4, <1>5, RewriteSound
<1>7. /\ n.queue = q /\ n.task = f /\ n.lease = s.lease /\ n.forced = s.forced
      /\ n.scope = s.scope /\ n.resource = s.resource
  BY <1>1 DEF Sound, Tables
<1> QED
  BY <1>2, <1>3, <1>6, <1>7 DEF SameReservations, n

\* A continuation that Codex refused: its row is written back.
Refused(s, t, r) == GivenBack(FinishQueue(Release(Put(s, t, r), t), t), t, r.status)

\* Writing back a row gives back the lease, and for what is over, or not
\* managed, the reservations.
LEMMA RefusedAt ==
  ASSUME NEW s, Sound(s), NEW t \in Task, NEW r \in Row, r.mode = s.task[t].mode
  PROVE  LET n == Refused(s, t, r) IN
         /\ Sound(n) /\ Only(s, n, t) /\ n.task[t] = r
         /\ n.queue[t] = Fin(s.queue[t]) /\ NoLease(n, t)
         /\ Managed(s, t) /\ r.status \notin {"done", "canceled"} => SameReserved(s, n, t)
<1> DEFINE p == Put(s, t, r)
           k == Release(p, t)
           f == FinishQueue(k, t)
           n == GivenBack(f, t, r.status)
<1>1. /\ Sound(p) /\ Only(s, p, t) /\ p.task[t] = r /\ p.queue[t] = s.queue[t]
      /\ SameReserved(s, p, t)
  <2>1. Sound(p)
    BY PutSound
  <2> QED
    BY <2>1, PutAt
<1> HIDE DEF p
<1>2. /\ Sound(k) /\ Only(p, k, t) /\ k.task[t] = p.task[t] /\ k.queue[t] = p.queue[t]
      /\ NoLease(k, t) /\ SameReserved(p, k, t)
  BY <1>1, ReleaseSound, ReleaseAt
<1> HIDE DEF k
<1>3. /\ Sound(f) /\ Only(k, f, t) /\ f.task[t] = k.task[t]
      /\ f.queue[t] = Fin(k.queue[t])
      /\ SameLease(k, f, t) /\ SameReserved(k, f, t)
  BY <1>2, FinishQueueSound, FinishQueueAt
<1> HIDE DEF f
<1>4. /\ Sound(n) /\ Only(f, n, t) /\ n.task[t] = f.task[t]
      /\ \/ /\ n.queue[t] = f.queue[t] /\ SameLease(f, n, t) /\ SameReserved(f, n, t)
         \/ n.queue[t] = Fin(f.queue[t]) /\ NoLease(n, t)
      /\ r.status \notin {"done", "canceled"} /\ Managed(f, t) => SameReserved(f, n, t)
  BY <1>3, GivenBackSound, GivenBackAt
<1>5. Refused(s, t, r) = n
  BY DEF Refused, f, k, p
<1> HIDE DEF n
<1>6. Managed(f, t) <=> Managed(s, t)
  BY <1>1, <1>2, <1>3 DEF Managed
<1>7. Only(s, n, t)
  BY <1>1, <1>2, <1>3, <1>4, OnlyTransitive
<1>8. n.queue[t] = Fin(s.queue[t])
  BY <1>1, <1>2, <1>3, <1>4 DEF Fin
<1>9. NoLease(n, t)
  BY <1>2, <1>3, <1>4 DEF NoLease, SameLease
<1>10. Managed(s, t) /\ r.status \notin {"done", "canceled"} => SameReserved(s, n, t)
  BY <1>1, <1>2, <1>3, <1>4, <1>6 DEF SameReserved
<1> QED
  BY <1>1, <1>2, <1>3, <1>4, <1>5, <1>7, <1>8, <1>9, <1>10

\* The row of a group that is submitted, and of its subtasks.
SubmittedRow(r) == [r EXCEPT !.phase = "submitted", !.paused = FALSE, !.merge = "none"]
ContinuedRow(r, again) == [r EXCEPT !.paused = FALSE, !.again = again]
ToContinue(r) ==
  r.again \/ (r.turn # "none" /\ r.status = "in_progress" /\ r.run = "failed")

\* The tables after group_submit, before the group is started.
Submitted(s, g) ==
  [s EXCEPT !.task = [u \in Task |->
     IF u = g THEN SubmittedRow(s.task[u])
     ELSE IF u \in Children(g)
       THEN ContinuedRow(s.task[u], ToContinue(s.task[u]))
     ELSE s.task[u]]]

\* group_submit moves the group, and starts it at once or later.
LEMMA GroupSubmitAt ==
  ASSUME NEW g \in Task, GroupSubmit(g)
  PROVE  LET n == Submitted(Moved(db, g, "todo", "none"), g) IN
         g \in Group /\ (db' = n \/ db' = GroupStarted(n, g))
BY DEF GroupSubmit, Submitted, SubmittedRow, ContinuedRow, ToContinue

\* Submitting writes flags of the rows of the group and its subtasks.
LEMMA SubmittedAt ==
  ASSUME NEW s, Sound(s), NEW g \in Group
  PROVE  LET n == Submitted(s, g) IN
         /\ Sound(n) /\ n.queue = s.queue /\ n.lease = s.lease /\ n.forced = s.forced
         /\ SameReservations(s, n)
         /\ n.task[g] = SubmittedRow(s.task[g])
         /\ \A u \in Task \ {g} :
              \/ n.task[u] = s.task[u]
              \/ u \in Children(g) /\ n.task[u] = ContinuedRow(s.task[u], n.task[u].again)
<1> DEFINE again(u) == ToContinue(s.task[u])
           f == [u \in Task |-> IF u = g THEN SubmittedRow(s.task[u])
                  ELSE IF u \in Children(g) THEN ContinuedRow(s.task[u], again(u))
                  ELSE s.task[u]]
           n == Submitted(s, g)
<1>1. n = [s EXCEPT !.task = f]
  BY DEF Submitted
<1>2. \A u \in Task : again(u) \in BOOLEAN
  BY RowOf DEF Row, ToContinue
<1>3. \A u \in Task : f[u] = IF u = g THEN SubmittedRow(s.task[u])
                             ELSE IF u \in Children(g) THEN ContinuedRow(s.task[u], again(u))
                             ELSE s.task[u]
  OBVIOUS
<1> HIDE DEF again
<1>4. ASSUME NEW u \in Task
      PROVE  /\ SubmittedRow(s.task[u]) \in Row
             /\ ContinuedRow(s.task[u], again(u)) \in Row
             /\ ContinuedRow(s.task[u], again(u)).again = again(u)
  <2>1. s.task[u] \in Row
    BY RowOf
  <2>2. SubmittedRow(s.task[u]) \in Row
    BY <2>1 DEF SubmittedRow, Row, Phase, MergeState
  <2>3. ContinuedRow(s.task[u], again(u)) \in Row
    BY <1>2, <2>1 DEF ContinuedRow, Row
  <2>4. ContinuedRow(s.task[u], again(u)).again = again(u)
    BY <1>2, <2>1 DEF ContinuedRow, Row
  <2> QED
    BY <2>2, <2>3, <2>4
<1>5. f \in [Task -> Row]
  BY <1>4, RowOf
<1> HIDE DEF f, n
<1>6. Sound(n)
  BY <1>1, <1>5, RowsSound
<1>7. /\ n.task = f /\ n.queue = s.queue /\ n.lease = s.lease /\ n.forced = s.forced
      /\ n.scope = s.scope /\ n.resource = s.resource
  BY <1>1 DEF Sound, Tables
<1>8. g \in Task
  BY TaskAssumption
<1>9. n.task[g] = SubmittedRow(s.task[g])
  BY <1>3, <1>7, <1>8
<1>10. ASSUME NEW u \in Task \ {g}
       PROVE  \/ n.task[u] = s.task[u]
              \/ u \in Children(g) /\ n.task[u] = ContinuedRow(s.task[u], n.task[u].again)
  <2>1. CASE u \in Children(g)
    <3>1. n.task[u] = ContinuedRow(s.task[u], again(u))
      BY <1>3, <1>7, <2>1
    <3>2. n.task[u].again = again(u)
      BY <1>4, <3>1
    <3> QED
      BY <2>1, <3>1, <3>2
  <2>2. CASE u \notin Children(g)
    BY <1>3, <1>7, <2>2
  <2> QED
    BY <2>1, <2>2
<1> QED
  BY <1>6, <1>7, <1>9, <1>10 DEF SameReservations, n

\* A row that was integrated by the repository's worker.
IntegratedRow(r) == [Standing(r, "done", "none") EXCEPT !.merge = "merged", !.worker = FALSE]

\* The tables with t integrated.
Integrates(s, t) ==
  LET moved == Moved(s, t, "done", "none")
  IN  Put(moved, t, [moved.task[t] EXCEPT !.merge = "merged", !.worker = FALSE])

\* Integrating a task closes it and gives everything back.
LEMMA IntegratesAt ==
  ASSUME NEW s, Sound(s), NEW t \in Task
  PROVE  LET n == Integrates(s, t) IN
         /\ Sound(n) /\ Only(s, n, t) /\ n.task[t] = IntegratedRow(s.task[t])
         /\ n.queue[t] = Fin(s.queue[t]) /\ NoLease(n, t)
<1> DEFINE m == Moved(s, t, "done", "none")
           a == m.task[t]
           k == [a EXCEPT !.merge = "merged", !.worker = FALSE]
           n == Put(m, t, k)
<1>1. "done" \in Status /\ "none" \in RunState
  BY DEF Status, RunState
<1>2. Sound(m)
  BY <1>1, MovedSound
<1>3. /\ Only(s, m, t) /\ a = Standing(s.task[t], "done", "none")
      /\ m.queue[t] = Fin(s.queue[t]) /\ NoLease(m, t)
  BY <1>1, MovedAt
<1>4. a \in Row
  BY <1>2, RowOf
<1>5. Integrates(s, t) = n
  BY DEF Integrates
<1>6. k = IntegratedRow(s.task[t])
  BY <1>3 DEF IntegratedRow
<1> HIDE DEF m, a
<1>7. k \in Row
  BY <1>4 DEF Row, MergeState
<1> HIDE DEF k
<1>8. Sound(n)
  BY <1>2, <1>7, PutSound
<1>9. Only(m, n, t) /\ n.task[t] = k /\ n.queue[t] = m.queue[t] /\ SameLease(m, n, t)
  BY <1>2, PutAt
<1> HIDE DEF n
<1> QED
  BY <1>3, <1>5, <1>6, <1>8, <1>9, OnlyTransitive DEF NoLease, SameLease

-----------------------------------------------------------------------------

\* No user confirms a blocked merge again, no native turn goes unseen.
NoMergeRetry == \A t \in Task : "merge_retry" \notin CanDo[t]
NoMissed == \A t \in Task : "missed" \notin CanDo[t]

\* Groups are never queued, leased or given a turn.
IdleRow(t, r, q, l) ==
  t \in Group => r.turn = "none" /\ r.run \in {"none", "failed"} /\ l = "none" /\ q = "none"

\* What a lease goes with, given the task's row, queue state and lease.
LeasedRow(t, r, q, l) ==
  /\ r.turn = "active" \/ r.run = "starting" => l # "none" /\ r.status = "in_progress"
  /\ r.turn = "active" => r.run \in {"running", "failed"}
  /\ r.turn = "active" /\ q = "pending" => r.run = "running"
  /\ l # "none" => r.merge \in {"none", "blocked"}

\* Only results of managed tasks are merged, and what is done is not under way.
ResultRow(t, r) ==
  /\ r.merge # "none" \/ r.worker =>
       r.result /\ (t \in Group \/ IsChild(t) \/ r.mode = "parallel")
  /\ r.result /\ t \notin Group => r.turn # "none"
  /\ r.status = "done" => r.merge \in {"none", "merged"} /\ ~r.worker

\* An integrated result belongs to a closed task that does not wait to run.
MergedRow(r, q) ==
  r.merge = "merged" => r.status \in {"done", "canceled"} /\ ~r.worker /\ q # "pending"

Fits(t, r, q, l) ==
  /\ IdleRow(t, r, q, l)
  /\ ResultRow(t, r)
  /\ NoMergeRetry => LeasedRow(t, r, q, l)
  /\ NoMergeRetry /\ NoMissed => MergedRow(r, q)

FitsIn(s, t) == Fits(t, s.task[t], s.queue[t], s.lease[t])

Coherent(s) == Sound(s) /\ \A t \in Task : FitsIn(s, t)

\* A transaction about one task keeps the tables coherent if that task fits.
LEMMA CoherentAt ==
  ASSUME NEW s, Coherent(s), NEW t \in Task, NEW n, Sound(n), Only(s, n, t), FitsIn(n, t)
  PROVE  Coherent(n)
BY DEF Coherent, Only, FitsIn

\* A row may be written that fits the task's queue state and lease.
LEMMA PutCoherent ==
  ASSUME NEW s, Coherent(s), NEW t \in Task, NEW r \in Row,
         Fits(t, r, s.queue[t], s.lease[t])
  PROVE  Coherent(Put(s, t, r))
<1> DEFINE n == Put(s, t, r)
<1>1. Sound(n)
  BY PutSound DEF Coherent
<1>2. Only(s, n, t) /\ n.task[t] = r /\ n.queue[t] = s.queue[t] /\ SameLease(s, n, t)
  BY PutAt DEF Coherent
<1> HIDE DEF n
<1>3. FitsIn(n, t)
  BY <1>2 DEF FitsIn, SameLease
<1>4. Coherent(n)
  BY <1>1, <1>2, <1>3, CoherentAt
<1> QED
  BY <1>4 DEF n

\* The initial tables are coherent.
LEMMA InitCoherent ==
  ASSUME Init
  PROVE  Coherent(db)
<1>1. Sound(db)
  BY InitSound
<1>2. ASSUME NEW t \in Task PROVE FitsIn(db, t)
  <2>1. /\ db.task[t].turn = "none" /\ db.task[t].run = "none" /\ db.task[t].merge = "none"
        /\ db.task[t].status = "todo" /\ ~db.task[t].worker /\ ~db.task[t].result
        /\ db.queue[t] = "none" /\ db.lease[t] = "none"
    BY DEF Init, Created
  <2> QED
    BY <2>1 DEF FitsIn, Fits, IdleRow, ResultRow, LeasedRow, MergedRow
<1> QED
  BY <1>1, <1>2 DEF Coherent

\* A task that is queued fits, unless its turn is to be observed again.
LEMMA EnqueuedCoherent ==
  ASSUME NEW s, Coherent(s), NEW t \in Task, NEW prompted \in BOOLEAN, EnqueueOK(s, t),
         s.task[t].turn = "active" => s.task[t].run # "failed",
         NoMergeRetry /\ NoMissed /\ ~prompted => s.task[t].merge # "merged"
  PROVE  Coherent(Enqueued(s, t, prompted))
<1> DEFINE n == Enqueued(s, t, prompted)
           rework == prompted /\ Managed(s, t)
<1>1. Sound(s) /\ t \notin Group
  BY DEF Coherent, EnqueueOK
<1>2. Sound(n)
  BY <1>1, EnqueuedSound
<1>3. Enqueues(s, n, t, rework)
  BY <1>1, EnqueuedAt
<1> HIDE DEF n
<1>4. ASSUME NEW u \in Task PROVE FitsIn(n, u)
  <2> DEFINE r == s.task[u]
             k == n.task[u]
  <2>1. FitsIn(s, u) /\ r \in Row
    BY RowOf DEF Coherent
  <2>2. ResetTo(r, k)
    BY <1>3 DEF Enqueues
  <2>3. /\ k.turn = r.turn /\ k.run = r.run /\ k.worker = r.worker
        /\ k.result = r.result /\ k.mode = r.mode
    <3> HIDE DEF r, k
    <3> QED
      BY <2>1, <2>2 DEF ResetTo, Reset, Row
  <2>4. CASE u = t
    <3>1. ~Reopens(s, t, t)
      BY ChildrenApart DEF Reopens
    <3>2. /\ k.status = r.status /\ n.queue[t] = "pending" /\ n.lease[t] = s.lease[t]
          /\ k.merge = IF rework THEN "none" ELSE r.merge
      BY <1>3, <2>4, <3>1 DEF SameLease, Owners, Enqueues
    <3>3. ~Managed(s, t) => r.merge = "none"
      BY <1>1, <2>1, <2>4 DEF FitsIn, Fits, ResultRow, Managed
    <3>r. ResultRow(t, r)
      BY <2>1, <2>4 DEF FitsIn, Fits
    <3> HIDE DEF r, k
    <3>4. IdleRow(t, k, n.queue[t], n.lease[t])
      BY <1>1 DEF IdleRow
    <3>5. NoMergeRetry => LeasedRow(t, k, n.queue[t], n.lease[t])
      <4>1. r.turn = "active" => r.run # "failed"
        BY <2>4 DEF r
      <4>2. NoMergeRetry => LeasedRow(t, r, s.queue[t], s.lease[t])
        BY <2>1, <2>4 DEF FitsIn, Fits, r
      <4> QED
        BY <2>3, <3>2, <4>1, <4>2 DEF LeasedRow
    <3>6. NoMergeRetry /\ NoMissed => MergedRow(k, n.queue[t])
      <4>1. NoMergeRetry /\ NoMissed => MergedRow(r, s.queue[t])
        BY <2>1, <2>4 DEF FitsIn, Fits, r
      <4>2. NoMergeRetry /\ NoMissed /\ ~rework => r.merge # "merged"
        BY <2>4, <3>3 DEF r
      <4> QED
        BY <2>3, <3>2, <4>1, <4>2 DEF MergedRow
    <3>7. ResultRow(t, k)
      BY <2>3, <3>2, <3>r DEF ResultRow
    <3> QED
      BY <2>4, <3>4, <3>5, <3>6, <3>7 DEF FitsIn, Fits, k
  <2>5. CASE u # t /\ Reopens(s, t, u)
    <3>1. u \in Group
      BY <2>5, ChildrenApart DEF Reopens
    <3>2. /\ k.status = "todo" /\ k.merge = "none" /\ n.lease[u] = "none"
          /\ n.queue[u] = Fin(s.queue[u])
      BY <1>3, <2>5 DEF NoLease, Enqueues
    <3>3. Fits(u, r, s.queue[u], s.lease[u])
      BY <2>1 DEF FitsIn
    <3> HIDE DEF r, k
    <3>4. Fits(u, k, n.queue[u], n.lease[u])
      BY <2>3, <3>1, <3>2, <3>3 DEF Fits, IdleRow, ResultRow, LeasedRow, MergedRow, Fin
    <3> QED
      BY <3>4 DEF FitsIn, k
  <2>6. CASE u # t /\ ~Reopens(s, t, u)
    <3>1. /\ k.status = r.status /\ k.merge \in {"none", r.merge}
          /\ n.lease[u] = s.lease[u] /\ n.queue[u] = s.queue[u]
      BY <1>3, <2>6 DEF SameLease, Enqueues
    <3>2. Fits(u, r, s.queue[u], s.lease[u])
      BY <2>1 DEF FitsIn
    <3> HIDE DEF r, k
    <3>3. Fits(u, k, n.queue[u], n.lease[u])
      BY <2>3, <3>1, <3>2 DEF Fits, IdleRow, ResultRow, LeasedRow, MergedRow
    <3> QED
      BY <3>3 DEF FitsIn, k
  <2> QED
    BY <2>4, <2>5, <2>6
<1> QED
  BY <1>2, <1>4 DEF Coherent, n

\* The mode in which a task is let in is one of the two.
LEMMA ModeOf ==
  ASSUME NEW s, Sound(s), NEW t \in Task
  PROVE  s.task[RootOf[t]].mode \in Mode /\ s.task[RootOf[t]].mode # "none"
<1>1. s.task[RootOf[t]] \in Row
  BY OwnersAreTasks, RowOf
<1> QED
  BY <1>1 DEF Row, Mode

\* A task whose turn runs is not claimed: it holds the lease, and executes.
LEMMA ClaimedCoherent ==
  ASSUME NEW s, Coherent(s), NEW t \in Task, Claimable(s, t),
         NoMergeRetry => s.queue[t] = "pending" \/ s.task[t].turn # "active"
  PROVE  Coherent(Claimed(s, t)) /\ (NoMergeRetry => s.task[t].turn # "active")
<1> DEFINE n == Claimed(s, t)
           r == s.task[t]
           k == n.task[t]
<1>1. Sound(s) /\ FitsIn(s, t) /\ r \in Row
  BY RowOf DEF Coherent
<1>2. Sound(n) /\ t \notin Group
  BY <1>1, ClaimedSound DEF Claimable
<1>3. /\ Beside(s, n, t) /\ k = ClaimedRow(r)
      /\ n.lease[t] = s.task[RootOf[t]].mode
      /\ n.queue[t] = IF s.queue[t] = "none" THEN "none" ELSE "claimed"
  BY <1>1, ClaimedAt
<1>4. NoMergeRetry => r.turn # "active"
  <2>1. LeasesAdmit(s, t)
    BY EligibleAdmits DEF Claimable
  <2>2. s.lease[t] # "none" => r.run \notin {"starting", "running"}
    BY <2>1 DEF LeasesAdmit, SameRepo, Executing
  <2>3. NoMergeRetry => LeasedRow(t, r, s.queue[t], s.lease[t])
    BY <1>1 DEF FitsIn, Fits
  <2> QED
    BY <2>2, <2>3 DEF LeasedRow
<1>5. n.lease[t] # "none" /\ n.queue[t] # "pending"
  BY <1>1, <1>3, ModeOf
<1>6. /\ k.turn = r.turn /\ k.run = "starting" /\ k.status = "in_progress"
      /\ k.merge = "none" /\ k.worker = r.worker /\ k.result = r.result /\ k.mode = r.mode
  <2> HIDE DEF r, k
  <2> QED
    BY <1>1, <1>3 DEF ClaimedRow, Row
<1>7. Fits(t, r, s.queue[t], s.lease[t])
  BY <1>1 DEF FitsIn
<1> HIDE DEF n, r, k
<1>8. Fits(t, k, n.queue[t], n.lease[t])
  BY <1>2, <1>4, <1>5, <1>6, <1>7 DEF Fits, IdleRow, ResultRow, LeasedRow, MergedRow
<1>9. FitsIn(n, t)
  BY <1>8 DEF FitsIn, k
<1>10. \A u \in Task \ {t} : FitsIn(n, u)
  BY <1>3 DEF Beside, FitsIn, Coherent
<1> QED
  BY <1>2, <1>4, <1>9, <1>10 DEF Coherent, n, r

\* A task may be queued again.
LEMMA QueueCoherent ==
  ASSUME NEW s, Coherent(s), NEW t \in Task, NEW prompted \in BOOLEAN, CanQueue(s, t),
         NoMergeRetry /\ NoMissed /\ ~prompted => s.task[t].merge # "merged"
  PROVE  Coherent(Queue(s, t, prompted))
<1> DEFINE again == s.task[t].turn = "active"
                      /\ s.task[t].run \in {"failed", "waiting_quota"}
<1>1. Sound(s) /\ s.task[t] \in Row /\ FitsIn(s, t)
  BY RowOf DEF Coherent
<1>2. CASE again
  <2> DEFINE r == [s.task[t] EXCEPT !.status = "in_progress", !.run = "running"]
  <2>1. r \in Row
    BY <1>1 DEF Row, Status, RunState
  <2>2. /\ r.turn = s.task[t].turn /\ r.run = "running" /\ r.status = "in_progress"
        /\ r.merge = s.task[t].merge /\ r.worker = s.task[t].worker
        /\ r.result = s.task[t].result /\ r.mode = s.task[t].mode
    BY <1>1 DEF Row
  <2>3. Fits(t, s.task[t], s.queue[t], s.lease[t])
    BY <1>1 DEF FitsIn
  <2> HIDE DEF r
  <2>4. Fits(t, r, s.queue[t], s.lease[t])
    BY <1>2, <2>2, <2>3 DEF Fits, IdleRow, ResultRow, LeasedRow, MergedRow
  <2>5. Coherent(Put(s, t, r))
    BY <2>1, <2>4, PutCoherent
  <2> QED
    BY <1>2, <2>5 DEF Queue, Reattached, r
<1>3. CASE ~again
  <2> DEFINE n == Enqueued(s, t, prompted)
  <2>1. EnqueueOK(s, t)
    BY <1>3 DEF CanQueue
  <2>2. Coherent(n)
    BY <1>3, <2>1, EnqueuedCoherent
  <2>3. Enqueues(s, n, t, prompted /\ Managed(s, t))
    BY <1>1, <2>1, EnqueuedAt DEF EnqueueOK
  <2>4. Queue(s, t, prompted) = TryClaim(n, t)
    BY <1>3 DEF Queue
  <2> HIDE DEF n
  <2>5. n.queue[t] = "pending"
    BY <2>3 DEF Enqueues
  <2> QED
    BY <2>2, <2>4, <2>5, ClaimedCoherent DEF TryClaim
<1> QED
  BY <1>2, <1>3

\* The end of a task's execution, with its lease given back: what is left of
\* its row must not be active or starting.
LEMMA FailedCoherent ==
  ASSUME NEW s, Coherent(s), NEW t \in Task, NoMergeRetry => s.task[t].turn # "active"
  PROVE  Coherent(Failed(s, t))
<1> DEFINE n == Failed(s, t)
           r == s.task[t]
           k == n.task[t]
<1>1. Sound(s) /\ r \in Row /\ Fits(t, r, s.queue[t], s.lease[t])
  BY RowOf DEF Coherent, FitsIn
<1>2. Sound(n)
  BY <1>1, FailedSound
<1>3. /\ Only(s, n, t) /\ k = [r EXCEPT !.run = "failed"]
      /\ n.queue[t] = Fin(s.queue[t]) /\ NoLease(n, t)
  BY <1>1, FailedAt
<1> HIDE DEF n, r, k
<1>4. /\ k.turn = r.turn /\ k.run = "failed" /\ k.status = r.status
      /\ k.merge = r.merge /\ k.worker = r.worker /\ k.result = r.result /\ k.mode = r.mode
  BY <1>1, <1>3 DEF Row
<1>5. NoMergeRetry => r.turn # "active"
  BY DEF r
<1>6. Fits(t, k, n.queue[t], n.lease[t])
  BY <1>1, <1>3, <1>4, <1>5 DEF Fits, IdleRow, ResultRow, LeasedRow, MergedRow, Fin, NoLease
<1>7. FitsIn(n, t)
  BY <1>6 DEF FitsIn, k
<1> QED
  BY <1>2, <1>3, <1>7, CoherentAt DEF n

\* A turn that has ended.
LEMMA TurnEndsCoherent ==
  ASSUME NEW s, Coherent(s), NEW t \in Task, NEW how \in {"idle", "completed"}, t \notin Group
  PROVE  LET n == TurnEnds(s, t, how) IN
         Coherent(n) /\ n.task[t].turn = how /\ n.task[t].status = s.task[t].status
         /\ n.task[t].run = s.task[t].run
<1> DEFINE r == s.task[t]
           k == [r EXCEPT !.turn = how, !.conflict = FALSE]
<1>1. Sound(s) /\ r \in Row /\ Fits(t, r, s.queue[t], s.lease[t])
  BY RowOf DEF Coherent, FitsIn
<1>2. TurnEnds(s, t, how) = Put(s, t, k)
  BY DEF TurnEnds
<1> HIDE DEF r
<1>3. k \in Row
  BY <1>1 DEF Row, Turn
<1>4. /\ k.turn = how /\ k.run = r.run /\ k.status = r.status
      /\ k.merge = r.merge /\ k.worker = r.worker /\ k.result = r.result /\ k.mode = r.mode
  BY <1>1 DEF Row
<1> HIDE DEF k
<1>5. Fits(t, k, s.queue[t], s.lease[t])
  BY <1>1, <1>4 DEF Fits, IdleRow, ResultRow, LeasedRow, MergedRow
<1>6. Coherent(Put(s, t, k))
  BY <1>3, <1>5, PutCoherent
<1>7. Put(s, t, k).task[t] = k
  BY <1>1, PutAt
<1> QED
  BY <1>2, <1>4, <1>6, <1>7 DEF r

\* A completed turn settles into a coherent row, unless it was merged already.
LEMMA SettledCoherent ==
  ASSUME NEW s, Coherent(s), NEW t \in Task, NEW outcome, t \notin Group,
         s.task[t].turn = "completed",
         s.task[t].status # "done", NoMergeRetry /\ NoMissed => s.task[t].merge # "merged"
  PROVE  Coherent(Settled(s, t, outcome))
<1> DEFINE n == Settled(s, t, outcome)
           r == s.task[t]
           k == n.task[t]
<1>1. Sound(s) /\ r \in Row /\ Fits(t, r, s.queue[t], s.lease[t])
  BY RowOf DEF Coherent, FitsIn
<1>2. Sound(n)
  BY <1>1, SettledSound
<1>3. /\ Only(s, n, t) /\ n.queue[t] = Fin(s.queue[t]) /\ NoLease(n, t)
      /\ ~Managed(s, t) => Closing(r, k)
      /\ Managed(s, t) => Delivery(r, k)
  BY <1>1, SettledAt
<1>4. Managed(s, t) <=> IsChild(t) \/ r.mode = "parallel"
  BY DEF Managed
<1>5. /\ r.turn = "completed" /\ r.status # "done"
      /\ NoMergeRetry /\ NoMissed => r.merge # "merged"
  BY DEF r
<1> HIDE DEF n, r, k
<1>6. ASSUME ~Managed(s, t) PROVE Fits(t, k, n.queue[t], n.lease[t])
  <2>1. PICK status \in {"in_review", "done"} : k = Standing(r, status, "none")
    BY <1>3, <1>6 DEF Closing
  <2>2. /\ k.turn = r.turn /\ k.run = "none" /\ k.status = status
        /\ k.merge = r.merge /\ k.worker = r.worker /\ k.result = r.result
        /\ k.mode = r.mode
    BY <1>1, <2>1 DEF Standing, Row
  <2>3. r.merge = "none" /\ ~r.worker
    BY <1>1, <1>4, <1>6 DEF Fits, ResultRow
  <2> QED
    BY <1>1, <1>3, <1>5, <2>2, <2>3
    DEF Fits, IdleRow, ResultRow, LeasedRow, MergedRow, Fin, NoLease
<1>7. ASSUME Managed(s, t) PROVE Fits(t, k, n.queue[t], n.lease[t])
  <2>1. /\ k.turn = r.turn /\ k.worker = r.worker /\ k.mode = r.mode
        /\ k.run \in {"none", "failed"}
        /\ \/ /\ k.merge = r.merge /\ k.result = r.result /\ k.status = r.status
           \/ /\ k.merge \in {"blocked", "pending_review", "queued"}
              /\ k.result
        /\ k.status \in {r.status, "in_review", "in_progress"}
    <3>1. CASE k = [r EXCEPT !.run = "failed"]
      BY <1>1, <3>1 DEF Row
    <3>2. CASE k = [[r EXCEPT !.result = TRUE, !.merge = "blocked"] EXCEPT !.run = "failed"]
      BY <1>1, <3>2 DEF Row
    <3>3. CASE \E status \in {"in_review", "in_progress"},
                  merge \in {"pending_review", "queued"} :
                 k = [Standing(r, status, "none") EXCEPT
                        !.result = TRUE, !.stale = FALSE, !.merge = merge]
      <4>1. PICK status \in {"in_review", "in_progress"},
                 merge \in {"pending_review", "queued"} :
                 k = [Standing(r, status, "none") EXCEPT
                        !.result = TRUE, !.stale = FALSE, !.merge = merge]
        BY <3>3
      <4>2. /\ k.turn = r.turn /\ k.worker = r.worker /\ k.mode = r.mode
            /\ k.run = "none" /\ k.merge = merge /\ k.result = TRUE /\ k.status = status
        BY <1>1, <4>1 DEF Standing, Row
      <4> QED
        BY <4>2
    <3> QED
      BY <1>3, <1>7, <3>1, <3>2, <3>3 DEF Delivery
  <2> QED
    BY <1>1, <1>3, <1>4, <1>5, <1>7, <2>1
    DEF Fits, IdleRow, ResultRow, LeasedRow, MergedRow, Fin, NoLease
<1>8. FitsIn(n, t)
  <2>1. Fits(t, k, n.queue[t], n.lease[t])
    BY <1>6, <1>7
  <2> QED
    BY <2>1 DEF FitsIn, k
<1> QED
  BY <1>2, <1>3, <1>8, CoherentAt DEF n

\* A turn found running again is observed again.
LEMMA ReattachedCoherent ==
  ASSUME NEW s, Coherent(s), NEW t \in Task, s.task[t].turn = "active"
  PROVE  Coherent(Reattached(s, t))
<1> DEFINE r == s.task[t]
           k == [r EXCEPT !.status = "in_progress", !.run = "running"]
<1>1. Sound(s) /\ r \in Row /\ Fits(t, r, s.queue[t], s.lease[t]) /\ r.turn = "active"
  BY RowOf DEF Coherent, FitsIn
<1>2. Reattached(s, t) = Put(s, t, k)
  BY DEF Reattached
<1> HIDE DEF r
<1>3. k \in Row
  BY <1>1 DEF Row, Status, RunState
<1>4. /\ k.turn = r.turn /\ k.run = "running" /\ k.status = "in_progress"
      /\ k.merge = r.merge /\ k.worker = r.worker /\ k.result = r.result
      /\ k.mode = r.mode
  BY <1>1 DEF Row
<1> HIDE DEF k
<1>5. IdleRow(t, k, s.queue[t], s.lease[t])
  BY <1>1, <1>4 DEF Fits, IdleRow
<1>6. NoMergeRetry => LeasedRow(t, k, s.queue[t], s.lease[t])
  BY <1>1, <1>4 DEF Fits, LeasedRow
<1>7. NoMergeRetry /\ NoMissed => MergedRow(k, s.queue[t])
  BY <1>1, <1>4 DEF Fits, LeasedRow, MergedRow
<1>8. ResultRow(t, k)
  BY <1>1, <1>4 DEF Fits, ResultRow
<1> QED
  BY <1>2, <1>3, <1>5, <1>6, <1>7, <1>8, PutCoherent DEF Fits

\* A row may be written that differs in nothing that coherence is about.
LEMMA PutAlikeCoherent ==
  ASSUME NEW s, Coherent(s), NEW t \in Task, NEW k \in Row, NEW r, r = s.task[t],
         k.turn = r.turn, k.run = r.run, k.status = r.status, k.merge = r.merge,
         k.worker = r.worker, k.result = r.result, k.mode = r.mode
  PROVE  Coherent(Put(s, t, k))
<1>1. Fits(t, r, s.queue[t], s.lease[t])
  BY DEF Coherent, FitsIn
<1>2. Fits(t, k, s.queue[t], s.lease[t])
  BY <1>1 DEF Fits, IdleRow, ResultRow, LeasedRow, MergedRow
<1> QED
  BY <1>2, PutCoherent

\* Tables with the same rows, queue and leases are as coherent.
LEMMA AlikeCoherent ==
  ASSUME NEW s, Coherent(s), NEW n, Sound(n),
         n.task = s.task, n.queue = s.queue, n.lease = s.lease
  PROVE  Coherent(n)
BY DEF Coherent, FitsIn

\* A native turn that is adopted leaves coherent tables.
LEMMA AdoptedCoherent ==
  ASSUME NEW s, Coherent(s), NEW t \in Task, s.task[t].turn \in {"idle", "completed"}
  PROVE  Coherent(Adopted(s, t))
<1> DEFINE n == Adopted(s, t)
           k == Occupied(s, t)
           rework == Managed(s, t) /\ s.task[t].result
<1>1. Sound(s) /\ \A u \in Task : Fits(u, s.task[u], s.queue[u], s.lease[u])
  BY DEF Coherent, FitsIn
<1>2. Sound(n)
  BY <1>1, AdoptedSound
<1>3. Adopts(s, k, n, t, rework)
  BY <1>1, AdoptedAt
<1>4. t \notin Group
  BY <1>1 DEF Fits, IdleRow
<1>5. k.lease[t] # "none" /\ \A u \in Task \ {t} : k.lease[u] = s.lease[u]
  <2>1. CASE s.lease[t] # "none"
    BY <2>1 DEF Occupied
  <2>2. CASE s.lease[t] = "none"
    <3>1. Beside(s, k, t) /\ k.lease[t] = s.task[RootOf[t]].mode
      BY <1>1, <2>2, OccupiedAt
    <3> QED
      BY <1>1, <3>1, ModeOf DEF Beside
  <2> QED
    BY <2>1, <2>2
<1>6. Managed(s, t) <=> IsChild(t) \/ s.task[t].mode = "parallel"
  BY <1>4 DEF Managed
<1> HIDE DEF n, k
<1>7. Fits(t, n.task[t], n.queue[t], n.lease[t])
  <2> DEFINE r == s.task[t]
             a == n.task[t]
  <2>1. /\ a = AdoptedRow(r, a.conflict, a.merge, a.stale)
        /\ a.merge = (IF rework THEN "none" ELSE r.merge)
        /\ n.queue[t] = s.queue[t] /\ n.lease[t] # "none"
    BY <1>3, <1>5 DEF Adopts, Owners
  <2>2. r \in Row /\ Fits(t, r, s.queue[t], s.lease[t])
    BY <1>1, RowOf
  <2>3. rework <=> (IsChild(t) \/ r.mode = "parallel") /\ r.result
    BY <1>6
  <2>4. r.turn \in {"idle", "completed"}
    OBVIOUS
  <2> HIDE DEF r, a, rework
  <2>5. /\ a.turn = "active" /\ a.run = "running" /\ a.status = "in_progress"
        /\ a.worker = r.worker /\ a.result = r.result /\ a.mode = r.mode
    BY <2>1, <2>2 DEF AdoptedRow, Row
  <2>6. a.merge = "none"
    BY <1>4, <2>1, <2>2, <2>3 DEF Fits, ResultRow
  <2>7. Fits(t, a, n.queue[t], n.lease[t])
    BY <1>4, <2>1, <2>2, <2>4, <2>5, <2>6 DEF Fits, IdleRow, ResultRow, LeasedRow, MergedRow
  <2> QED
    BY <2>7 DEF a
<1>8. ASSUME NEW u \in Task \ {t} PROVE Fits(u, n.task[u], n.queue[u], n.lease[u])
  <2> DEFINE r == s.task[u]
             a == n.task[u]
  <2>1. /\ a = Flagged(r, a.merge, a.stale) /\ a.merge \in {"none", r.merge}
        /\ n.queue[u] = s.queue[u] /\ n.lease[u] = s.lease[u]
    BY <1>3, <1>5 DEF Adopts
  <2>2. r \in Row /\ Fits(u, r, s.queue[u], s.lease[u])
    BY <1>1, RowOf
  <2> HIDE DEF r, a
  <2>3. /\ a.turn = r.turn /\ a.run = r.run /\ a.status = r.status
        /\ a.worker = r.worker /\ a.result = r.result /\ a.mode = r.mode
    BY <2>1, <2>2 DEF Flagged, Row
  <2>4. Fits(u, a, n.queue[u], n.lease[u])
    BY <2>1, <2>2, <2>3 DEF Fits, IdleRow, ResultRow, LeasedRow, MergedRow
  <2> QED
    BY <2>4 DEF a
<1> QED
  BY <1>2, <1>7, <1>8 DEF Coherent, FitsIn, n

\* Groups start, settle and are stopped coherently.
LEMMA GroupStartedCoherent ==
  ASSUME NEW s, Coherent(s), NEW g \in Group
  PROVE  Coherent(GroupStarted(s, g))
<1> DEFINE n == GroupStarted(s, g)
           r == s.task[g]
           k == n.task[g]
<1>1. Sound(s) /\ g \in Task /\ r \in Row /\ Fits(g, r, s.queue[g], s.lease[g])
  BY TaskAssumption, RowOf DEF Coherent, FitsIn
<1>2. Sound(n)
  BY <1>1, GroupStartedSound
<1>3. /\ n.queue = s.queue /\ n.lease = s.lease
      /\ \A u \in Task \ {g} : n.task[u] = s.task[u]
      /\ k = BegunRow(r, k.status, k.wanted)
      /\ \/ k.status = r.status
         \/ r.status = "todo" /\ k.status = "in_progress"
  <2>1. /\ n.queue = s.queue /\ n.lease = s.lease
        /\ \A u \in Task \ {g} : n.task[u] = s.task[u]
    BY <1>1, GroupStartedAt
  <2>2. n.task[g] = BegunRow(s.task[g], n.task[g].status, n.task[g].wanted)
    BY <1>1, GroupStartedAt
  <2>3. \/ n.task[g].status = s.task[g].status
        \/ s.task[g].status = "todo" /\ n.task[g].status = "in_progress"
    BY <1>1, GroupStartedAt
  <2> QED
    BY <2>1, <2>2, <2>3
<1> HIDE DEF n, r, k
<1>4. /\ k.turn = r.turn /\ k.run = r.run /\ k.merge = r.merge
      /\ k.worker = r.worker /\ k.result = r.result /\ k.mode = r.mode
  BY <1>1, <1>3 DEF Row, BegunRow
<1>5. Fits(g, k, s.queue[g], s.lease[g])
  BY <1>1, <1>3, <1>4 DEF Fits, IdleRow, ResultRow, LeasedRow, MergedRow
<1>6. FitsIn(n, g)
  BY <1>3, <1>5 DEF FitsIn, k
<1>7. \A u \in Task \ {g} : FitsIn(n, u)
  BY <1>3 DEF Coherent, FitsIn
<1> QED
  BY <1>2, <1>6, <1>7 DEF Coherent, n

LEMMA GroupSettledCoherent ==
  ASSUME NEW s, Coherent(s), NEW g \in Group
  PROVE  Coherent(GroupSettled(s, g))
<1> DEFINE n == GroupSettled(s, g)
           r == s.task[g]
           k == n.task[g]
<1>1. Sound(s) /\ g \in Task /\ r \in Row /\ Fits(g, r, s.queue[g], s.lease[g])
  BY TaskAssumption, RowOf DEF Coherent, FitsIn
<1>2. Sound(n)
  BY <1>1, GroupSettledSound
<1>3. \/ n = s
      \/ /\ Only(s, n, g) /\ n.queue[g] = Fin(s.queue[g]) /\ NoLease(n, g)
         /\ \E merge \in {"pending_review", "queued"} :
              k = [Standing(r, "in_review", "none") EXCEPT
                     !.result = TRUE, !.merge = merge]
  BY <1>1, GroupSettledAt
<1> HIDE DEF n, r, k
<1>4. CASE n = s
  BY <1>4 DEF n
<1>5. CASE n # s
  <2>1. PICK merge \in {"pending_review", "queued"} :
               k = [Standing(r, "in_review", "none") EXCEPT
                      !.result = TRUE, !.merge = merge]
    BY <1>3, <1>5
  <2>2. /\ k.turn = r.turn /\ k.run = "none" /\ k.status = "in_review"
        /\ k.merge = merge /\ k.worker = r.worker /\ k.result = TRUE
    BY <1>1, <2>1 DEF Standing, Row
  <2>3. Fits(g, k, n.queue[g], n.lease[g])
    BY <1>1, <1>3, <1>5, <2>2
    DEF Fits, IdleRow, ResultRow, LeasedRow, MergedRow, Fin, NoLease
  <2>4. FitsIn(n, g)
    BY <2>3 DEF FitsIn, k
  <2> QED
    BY <1>1, <1>2, <1>3, <1>5, <2>4, CoherentAt DEF n
<1> QED
  BY <1>4, <1>5

\* Members are tasks, and never groups.
LEMMA MembersAreTasks ==
  ASSUME NEW t \in Task, NEW u \in Members(t)
  PROVE  u \in Task /\ u \notin Group
BY TaskAssumption DEF Members, Children, IsChild

\* A pause stops its members coherently, whether it is confirmed...
LEMMA PauseConfirmedCoherent ==
  ASSUME NEW s, Coherent(s), NEW t \in Task
  PROVE  Coherent(PauseConfirmed(s, t))
<1> DEFINE n == PauseConfirmed(s, t)
<1>1. Sound(s) /\ Sound(n)
  BY PauseConfirmedSound DEF Coherent
<1>2. \A u \in Task :
        /\ u \in Members(t) =>
             /\ Halts(s.task[u], n.task[u]) /\ n.queue[u] = Fin(s.queue[u])
             /\ NoLease(n, u)
        /\ u \notin Members(t) =>
             /\ n.queue[u] = s.queue[u] /\ n.lease[u] \in {"none", s.lease[u]}
             /\ n.task[u] = IF u = t THEN StoppedRow(s.task[t]) ELSE s.task[u]
        /\ u = t => NoLease(n, u)
  BY <1>1, PauseConfirmedAt DEF NoLease, SameLease
<1> HIDE DEF n
<1>3. ASSUME NEW u \in Task PROVE FitsIn(n, u)
  <2> DEFINE r == s.task[u]
             k == n.task[u]
  <2>1. r \in Row /\ Fits(u, r, s.queue[u], s.lease[u])
    BY <1>1, RowOf DEF Coherent, FitsIn
  <2>2. CASE u \in Members(t)
    <3>1. Halts(r, k) /\ n.queue[u] = Fin(s.queue[u]) /\ n.lease[u] = "none"
      BY <1>2, <2>2 DEF NoLease
    <3>2. u \notin Group
      BY <2>2, MembersAreTasks
    <3> HIDE DEF r, k
    <3>3. k = HaltedRow(r, k.turn, k.merge, k.run)
      BY <3>1 DEF Halts
    <3>4. /\ k.status = r.status /\ k.worker = r.worker /\ k.result = r.result
          /\ k.mode = r.mode
      BY <2>1, <3>3 DEF HaltedRow, Row
    <3>5. /\ k.turn = IF r.turn = "active" THEN "idle" ELSE r.turn
          /\ k.merge = IF r.merge = "merging" THEN "blocked" ELSE r.merge
          /\ k.run = IF r.run \in {"starting", "running", "waiting_quota"}
                       THEN "failed" ELSE r.run
      BY <3>1 DEF Halts
    <3>6. Fits(u, k, n.queue[u], n.lease[u])
      BY <2>1, <3>1, <3>2, <3>4, <3>5 DEF Fits, IdleRow, ResultRow, LeasedRow, MergedRow, Fin
    <3> QED
      BY <3>6 DEF FitsIn, k
  <2>3. CASE u \notin Members(t) /\ u = t
    <3>1. k = StoppedRow(r) /\ n.queue[u] = s.queue[u] /\ n.lease[u] = "none"
      BY <1>2, <2>3 DEF NoLease
    <3>2. u \in Group
      BY <2>3 DEF Members
    <3> HIDE DEF r, k
    <3>3. /\ k.status = r.status /\ k.worker = r.worker /\ k.result = r.result
          /\ k.mode = r.mode /\ k.turn = r.turn /\ k.merge = r.merge /\ k.run = r.run
      BY <2>1, <3>1 DEF StoppedRow, Row
    <3>4. Fits(u, k, n.queue[u], n.lease[u])
      BY <2>1, <3>1, <3>2, <3>3 DEF Fits, IdleRow, ResultRow, LeasedRow, MergedRow
    <3> QED
      BY <3>4 DEF FitsIn, k
  <2>4. CASE u \notin Members(t) /\ u # t
    <3>1. k = r /\ n.queue[u] = s.queue[u]
      BY <1>2, <2>4
    <3>2. n.lease[u] = s.lease[u]
      BY <1>1, <2>4, PauseConfirmedAt DEF SameLease, n
    <3> QED
      BY <2>1, <3>1, <3>2 DEF FitsIn
  <2> QED
    BY <2>2, <2>3, <2>4
<1> QED
  BY <1>1, <1>3 DEF Coherent, n

\* ... or left without an answer.
LEMMA PauseHaltedCoherent ==
  ASSUME NEW s, Coherent(s), NEW t \in Task, NEW reached \in SUBSET Members(t),
         NEW interrupted \in SUBSET Members(t)
  PROVE  Coherent(PauseHalted(s, reached, interrupted))
<1> DEFINE n == PauseHalted(s, reached, interrupted)
<1>1. Sound(s) /\ Sound(n)
  BY PauseHaltedSound DEF Coherent
<1>2. /\ n.lease = s.lease
      /\ \A u \in Task :
           /\ n.queue[u] = IF u \in reached THEN Fin(s.queue[u]) ELSE s.queue[u]
           /\ IF u \in interrupted THEN Interrupts(s.task[u], n.task[u])
                                   ELSE n.task[u] = s.task[u]
  BY <1>1, PauseHaltedAt
<1> HIDE DEF n
<1>3. ASSUME NEW u \in Task PROVE FitsIn(n, u)
  <2> DEFINE r == s.task[u]
             k == n.task[u]
  <2>1. r \in Row /\ Fits(u, r, s.queue[u], s.lease[u])
    BY <1>1, RowOf DEF Coherent, FitsIn
  <2>2. /\ n.queue[u] \in {s.queue[u], Fin(s.queue[u])} /\ n.lease[u] = s.lease[u]
        /\ u \in Group => n.queue[u] = s.queue[u] /\ k = r
        /\ Interrupts(r, k) \/ k = r
    BY <1>2, MembersAreTasks
  <2> HIDE DEF r, k
  <2>3. /\ k.run = r.run /\ k.status = r.status /\ k.worker = r.worker
        /\ k.result = r.result /\ k.mode = r.mode /\ k.merge = r.merge
        /\ \/ k.turn = r.turn
           \/ r.turn = "active" /\ k.turn = "idle"
    BY <2>1, <2>2 DEF Interrupts, Row
  <2>4. n.queue[u] = "pending" => s.queue[u] = "pending"
    BY <2>2 DEF Fin
  <2>5. Fits(u, k, n.queue[u], n.lease[u])
    <3>1. IdleRow(u, k, n.queue[u], n.lease[u])
      BY <2>1, <2>2 DEF Fits, IdleRow
    <3>2. NoMergeRetry => LeasedRow(u, k, n.queue[u], n.lease[u])
      BY <2>1, <2>2, <2>3, <2>4 DEF Fits, LeasedRow
    <3>3. NoMergeRetry /\ NoMissed => MergedRow(k, n.queue[u])
      BY <2>1, <2>3, <2>4 DEF Fits, MergedRow
    <3>4. ResultRow(u, k)
      BY <2>1, <2>3 DEF Fits, ResultRow
    <3> QED
      BY <3>1, <3>2, <3>3, <3>4 DEF Fits
  <2> QED
    BY <2>5 DEF FitsIn, k
<1> QED
  BY <1>1, <1>3 DEF Coherent, n

\* Tasks that do not run can be closed.
LEMMA ShutCoherent ==
  ASSUME NEW s, Coherent(s), NEW closed,
         \A u \in Task \cap closed : s.lease[u] = "none" /\ s.task[u].turn # "active"
  PROVE  Coherent(Shut(s, closed))
<1> DEFINE n == Shut(s, closed)
<1>1. Sound(s)
  BY DEF Coherent
<1>2. /\ Sound(n) /\ n.lease = s.lease
      /\ \A u \in Task :
           /\ n.queue[u] = IF u \in closed THEN Fin(s.queue[u]) ELSE s.queue[u]
           /\ n.task[u] = IF u \in closed THEN Standing(s.task[u], "canceled", "none")
                                          ELSE s.task[u]
  BY <1>1, ShutAt
<1> HIDE DEF n
<1>3. ASSUME NEW u \in Task PROVE FitsIn(n, u)
  <2> DEFINE r == s.task[u]
             k == n.task[u]
  <2>1. r \in Row /\ Fits(u, r, s.queue[u], s.lease[u])
    BY <1>1, RowOf DEF Coherent, FitsIn
  <2>2. CASE u \notin closed
    BY <1>2, <2>1, <2>2 DEF FitsIn
  <2>3. CASE u \in closed
    <3>1. /\ k = Standing(r, "canceled", "none") /\ n.queue[u] = Fin(s.queue[u])
          /\ n.lease[u] = "none" /\ s.lease[u] = "none" /\ r.turn # "active"
      BY <1>2, <2>3
    <3> HIDE DEF r, k
    <3>2. /\ k.run = "none" /\ k.status = "canceled" /\ k.worker = r.worker
          /\ k.result = r.result /\ k.mode = r.mode /\ k.merge = r.merge
          /\ k.turn = r.turn
      BY <2>1, <3>1 DEF Standing, Row
    <3>3. Fits(u, k, n.queue[u], n.lease[u])
      BY <2>1, <3>1, <3>2 DEF Fits, IdleRow, ResultRow, LeasedRow, MergedRow, Fin
    <3> QED
      BY <3>3 DEF FitsIn, k
  <2> QED
    BY <2>2, <2>3
<1> QED
  BY <1>2, <1>3 DEF Coherent, n

\* Everything that queues or claims a task leaves coherent tables.
LEMMA QueueingCoherent ==
  ASSUME Coherent(db), NEW t \in Task,
         \/ RunTask(t) \/ SubmitFeedback(t) \/ Retry(t) \/ QuotaResume(t)
         \/ Resume(t) \/ DispatchQueued(t) \/ DispatchTodo(t) \/ DispatchResumed(t)
  PROVE  Coherent(db')
<1> DEFINE r == db.task[t]
<1>1. r \in Row /\ Fits(t, r, db.queue[t], db.lease[t])
  BY RowOf DEF Coherent, FitsIn
<1>2. CASE SubmitFeedback(t) \/ Retry(t) \/ QuotaResume(t)
  <2>1. CanQueue(db, t) /\ db' = Queue(db, t, TRUE)
    BY <1>2 DEF SubmitFeedback, Retry, QuotaResume
  <2> QED
    BY <2>1, QueueCoherent
<1>3. CASE RunTask(t)
  <2>1. CanQueue(db, t) /\ db' = Queue(db, t, FALSE) /\ r.status = "todo"
    BY <1>3 DEF RunTask, row
  <2>2. NoMergeRetry /\ NoMissed => r.merge # "merged"
    BY <1>1, <2>1 DEF Fits, MergedRow
  <2> QED
    BY <2>1, <2>2, QueueCoherent
<1>4. CASE Resume(t)
  <2> DEFINE k == [r EXCEPT !.paused = FALSE, !.conflict = FALSE]
             s == Put(db, t, k)
  <2>1. \/ db' = s
        \/ CanQueue(s, t) /\ db' = Queue(s, t, r.turn # "none")
    BY <1>4 DEF Resume, row
  <2>2. /\ k \in Row /\ k.turn = r.turn /\ k.run = r.run /\ k.status = r.status
        /\ k.merge = r.merge /\ k.worker = r.worker /\ k.result = r.result
        /\ k.mode = r.mode
    <3> HIDE DEF r
    <3> QED
      BY <1>1 DEF Row
  <2> HIDE DEF k
  <2>3. Coherent(s)
    BY <2>2, PutAlikeCoherent
  <2>4. s.task[t] = k
    BY PutAt DEF Coherent
  <2> HIDE DEF s
  <2>5. ASSUME CanQueue(s, t), NoMergeRetry, NoMissed, r.turn = "none"
        PROVE  s.task[t].merge # "merged"
    <3>1. t \notin Group
      BY <2>2, <2>4, <2>5 DEF CanQueue, EnqueueOK
    <3> QED
      BY <1>1, <2>2, <2>4, <2>5, <3>1 DEF Fits, ResultRow
  <2>6. ASSUME CanQueue(s, t) PROVE Coherent(Queue(s, t, r.turn # "none"))
    BY <2>3, <2>5, <2>6, QueueCoherent
  <2> QED
    BY <2>1, <2>3, <2>6
<1>5. CASE DispatchQueued(t)
  BY <1>5, ClaimedCoherent DEF DispatchQueued
<1>6. CASE DispatchTodo(t)
  <2>1. r.status = "todo" /\ Claimable(db, t) /\ db' = Claimed(db, t)
    BY <1>6 DEF DispatchTodo, row
  <2>2. NoMergeRetry => r.turn # "active"
    BY <1>1, <2>1 DEF Fits, LeasedRow
  <2> QED
    BY <2>1, <2>2, ClaimedCoherent
<1>7. CASE DispatchResumed(t)
  <2> DEFINE k == [r EXCEPT !.again = FALSE]
             s == Put(db, t, k)
  <2>1. db' = IF CanQueue(s, t) THEN Queue(s, t, TRUE) ELSE s
    BY <1>7 DEF DispatchResumed, row
  <2>2. /\ k \in Row /\ k.turn = r.turn /\ k.run = r.run /\ k.status = r.status
        /\ k.merge = r.merge /\ k.worker = r.worker /\ k.result = r.result
        /\ k.mode = r.mode
    <3> HIDE DEF r
    <3> QED
      BY <1>1 DEF Row
  <2> HIDE DEF k
  <2>3. Coherent(s)
    BY <2>2, PutAlikeCoherent
  <2> HIDE DEF s
  <2> QED
    BY <2>1, <2>3, QueueCoherent
<1> QED
  BY <1>2, <1>3, <1>4, <1>5, <1>6, <1>7

\* A follow-up waits, starts or is refused.
LEMMA FollowUpCoherent ==
  ASSUME Coherent(db), NEW t \in Task,
         FollowUpQueued(t) \/ FollowUpStarted(t) \/ FollowUpRefused(t)
  PROVE  Coherent(db')
<1> DEFINE r == db.task[t]
           e == Enqueued(db, t, TRUE)
           c == Claimed(e, t)
           v == Reserve(e, t)
           w == [r EXCEPT !.paused = FALSE]
           x == c.task[t]
           y == [x EXCEPT !.run = "running", !.turn = "active"]
<1>1. Sound(db) /\ r \in Row /\ Fits(t, r, db.queue[t], db.lease[t])
  BY RowOf DEF Coherent, FitsIn
<1>2. /\ EnqueueOK(db, t) /\ r.turn \in {"idle", "completed"}
      /\ r.run # "starting"
      /\ \/ db' = TryClaim(e, t)
         \/ Claimable(e, t) /\ db' = Put(c, t, y)
         \/ Claimable(e, t) /\ db' = Refused(v, t, w)
  <2>1. CanFollowUp(t)
    BY DEF FollowUpQueued, FollowUpStarted, FollowUpRefused
  <2>2. FollowUpRefused(t) => w.status = r.status
    <3> HIDE DEF r
    <3> QED
      BY <1>1 DEF Row
  <2>3. CASE FollowUpQueued(t)
    BY <2>1, <2>3 DEF FollowUpQueued, CanFollowUp, row
  <2>4. CASE FollowUpStarted(t)
    BY <2>1, <2>4 DEF FollowUpStarted, CanFollowUp, row
  <2>5. CASE FollowUpRefused(t)
    <3>1. Claimable(e, t) /\ db' = Refused(v, t, w)
      BY <2>2, <2>5 DEF FollowUpRefused, Refused, row
    <3> QED
      BY <2>1, <3>1 DEF CanFollowUp, row
  <2> QED
    BY <2>3, <2>4, <2>5
<1>3. Coherent(e)
  BY <1>2, EnqueuedCoherent
<1>4. e.queue[t] = "pending" /\ ResetTo(r, e.task[t]) /\ t \notin Group
  <2>1. Enqueues(db, e, t, TRUE /\ Managed(db, t))
    BY <1>1, EnqueuedAt
  <2> HIDE DEF e
  <2> QED
    BY <1>2, <2>1 DEF Enqueues, EnqueueOK
<1> HIDE DEF e
<1>5. CASE db' = TryClaim(e, t)
  BY <1>3, <1>4, <1>5, ClaimedCoherent DEF TryClaim
<1>6. CASE Claimable(e, t) /\ db' = Put(c, t, y)
  <2>1. Coherent(c)
    BY <1>3, <1>4, <1>6, ClaimedCoherent
  <2>2. c.lease[t] # "none" /\ c.task[t] = ClaimedRow(e.task[t])
    BY <1>3, ClaimedAt, ModeOf DEF Coherent
  <2>3. e.task[t] \in Row /\ x \in Row /\ Fits(t, x, c.queue[t], c.lease[t])
    BY <1>3, <2>1, RowOf DEF Coherent, FitsIn
  <2>4. x.status = "in_progress" /\ x.merge = "none"
    BY <2>2, <2>3 DEF ClaimedRow, Row
  <2> HIDE DEF x, c
  <2>5. y \in Row
    BY <2>3 DEF Row, RunState, Turn
  <2>6. /\ y.turn = "active" /\ y.run = "running" /\ y.status = x.status
        /\ y.merge = x.merge /\ y.worker = x.worker /\ y.result = x.result
        /\ y.mode = x.mode
    BY <2>3 DEF Row
  <2> HIDE DEF y
  <2>7. Fits(t, y, c.queue[t], c.lease[t])
    BY <1>4, <2>2, <2>3, <2>4, <2>6 DEF Fits, IdleRow, ResultRow, LeasedRow, MergedRow
  <2> QED
    BY <1>6, <2>1, <2>5, <2>7, PutCoherent
<1>7. CASE Claimable(e, t) /\ db' = Refused(v, t, w)
  <2>1. Sound(v)
    BY <1>3, <1>7, EligibleAdmits, ReserveSound DEF Claimable, Coherent
  <2>2. v.task = e.task /\ v.queue = e.queue /\ v.lease = e.lease
    BY <1>3, ReserveAt DEF Coherent
  <2>3. Coherent(v)
    BY <1>3, <2>1, <2>2, AlikeCoherent
  <2> HIDE DEF v
  <2>4. /\ w \in Row /\ w.turn = r.turn /\ w.run = r.run /\ w.status = r.status
        /\ w.merge = r.merge /\ w.worker = r.worker /\ w.result = r.result
        /\ w.mode = r.mode
    <3> HIDE DEF r
    <3> QED
      BY <1>1 DEF Row
  <2>5. e.task[t].mode = r.mode
    <3>1. ResetTo(r, e.task[t])
      BY <1>4
    <3> HIDE DEF r
    <3> QED
      BY <1>1, <3>1 DEF ResetTo, Reset, Row
  <2> HIDE DEF w
  <2>6. /\ Sound(db') /\ Only(v, db', t) /\ db'.task[t] = w
        /\ db'.queue[t] = Fin(v.queue[t]) /\ NoLease(db', t)
    BY <1>7, <2>1, <2>2, <2>4, <2>5, RefusedAt
  <2> HIDE DEF r
  <2>7. Fits(t, w, db'.queue[t], db'.lease[t])
    BY <1>1, <1>2, <1>4, <2>4, <2>6
    DEF Fits, IdleRow, ResultRow, LeasedRow, MergedRow, Fin, NoLease
  <2> QED
    BY <2>3, <2>6, <2>7, CoherentAt DEF FitsIn
<1> QED
  BY <1>2, <1>5, <1>6, <1>7

\* Users finish, stop and edit tasks coherently.
LEMMA EndingCoherent ==
  ASSUME Coherent(db), NEW t \in Task,
         \/ Finish(t) \/ InterruptRequeue(t) \/ Pause(t) \/ PauseUnconfirmed(t)
         \/ CancelManaged(t)
  PROVE  Coherent(db')
<1> DEFINE r == db.task[t]
           i == Interrupted(db, t)
<1>1. Sound(db) /\ r \in Row /\ Fits(t, r, db.queue[t], db.lease[t])
  BY RowOf DEF Coherent, FitsIn
<1>2. /\ Sound(i) /\ Only(db, i, t) /\ Interrupts(r, i.task[t])
      /\ i.queue[t] = db.queue[t] /\ SameLease(db, i, t)
  BY <1>1, InterruptedAt, InterruptedSound
<1>3. Only(db, db, t)
  BY DEF Only
<1> HIDE DEF i
<1>4. ASSUME t \notin Group, ~Managed(db, t),
             NEW s, s = i \/ (s = db /\ r.status # "in_progress"),
             NEW status \in {"todo", "done", "canceled", "in_review"}
      PROVE  Coherent(Moved(s, t, status, "none"))
  <2> DEFINE n == Moved(s, t, status, "none")
             a == s.task[t]
             k == n.task[t]
  <2>1. Sound(s) /\ Only(db, s, t) /\ s.queue[t] = db.queue[t]
    BY <1>1, <1>2, <1>3, <1>4
  <2>2. status \in Status /\ "none" \in RunState /\ status # "in_progress"
    BY DEF Status, RunState
  <2>3. /\ Sound(n) /\ Only(s, n, t) /\ k = Standing(a, status, "none")
        /\ n.queue[t] = Fin(s.queue[t]) /\ NoLease(n, t)
    <3>1. Sound(n)
      BY <2>1, <2>2, MovedSound
    <3> QED
      BY <2>1, <2>2, <3>1, MovedAt
  <2>4. a = r \/ Interrupts(r, a)
    BY <1>2, <1>4
  <2>5. a = r => r.status # "in_progress" \/ r.turn # "active"
    <3>1. CASE s = db /\ r.status # "in_progress"
      BY <3>1
    <3>2. CASE s = i
      BY <1>1, <1>2, <3>2 DEF Interrupts, Row
    <3> QED
      BY <1>4, <3>1, <3>2
  <2>6. Managed(db, t) <=> IsChild(t) \/ r.mode = "parallel"
    BY <1>4 DEF Managed
  <2> HIDE DEF n, a, k, r
  <2>7. /\ a.run = r.run /\ a.worker = r.worker /\ a.result = r.result
        /\ a.mode = r.mode /\ a.merge = r.merge
        /\ \/ a.turn = r.turn /\ (r.status # "in_progress" \/ r.turn # "active")
           \/ r.turn = "active" /\ a.turn = "idle"
    <3>1. CASE a = r
      BY <2>5, <3>1
    <3>2. CASE Interrupts(r, a) /\ a # r
      <4>1. /\ a = [r EXCEPT !.turn = a.turn]
            /\ a.turn = IF r.turn = "active" THEN "idle" ELSE r.turn
        BY <3>2 DEF Interrupts
      <4>2. r = [r EXCEPT !.turn = r.turn]
        BY <1>1 DEF Row
      <4>3. r.turn = "active"
        BY <3>2, <4>1, <4>2
      <4> QED
        BY <1>1, <4>1, <4>3 DEF Row
    <3> QED
      BY <2>4, <3>1, <3>2
  <2>8. a \in Row
    BY <2>1, RowOf DEF a
  <2>9. /\ k.status = status /\ k.run = "none" /\ k.worker = a.worker
        /\ k.result = a.result /\ k.mode = a.mode /\ k.merge = a.merge
        /\ k.turn = a.turn
    BY <2>3, <2>8 DEF Standing, Row
  <2>10. r.merge = "none" /\ ~r.worker
    BY <1>1, <1>4, <2>6 DEF Fits, ResultRow
  <2>11. Fits(t, k, n.queue[t], n.lease[t])
    BY <1>1, <1>4, <2>3, <2>7, <2>9, <2>10
    DEF Fits, IdleRow, ResultRow, LeasedRow, MergedRow, Fin, NoLease
  <2>12. Only(db, n, t)
    BY <2>1, <2>3, OnlyTransitive
  <2> QED
    BY <2>3, <2>11, <2>12, CoherentAt DEF FitsIn, n, k
<1>5. CASE Finish(t)
  <2>1. PICK target \in {"done", "canceled", "in_review"} :
          db' = Moved(IF r.status = "in_progress" THEN i ELSE db, t, target, "none")
    BY <1>5 DEF Finish, row, i
  <2>2. t \notin Group /\ ~Managed(db, t)
    BY <1>5 DEF Finish
  <2>3. CASE r.status = "in_progress"
    BY <1>4, <2>1, <2>2, <2>3
  <2>4. CASE r.status # "in_progress"
    BY <1>4, <2>1, <2>2, <2>4
  <2> QED
    BY <2>3, <2>4
<1>6. CASE InterruptRequeue(t)
  <2> DEFINE s == Moved(i, t, "todo", "none")
             k == [s.task[t] EXCEPT !.draft = TRUE]
  <2>1. db' = Put(s, t, k) /\ ~Managed(db, t) /\ t \notin Group
    BY <1>6 DEF InterruptRequeue, Managed, i
  <2>2. Coherent(s)
    BY <1>4, <2>1
  <2>3. s.task[t] \in Row
    BY <2>2, RowOf DEF Coherent
  <2> DEFINE a == s.task[t]
  <2> HIDE DEF s, a
  <2>4. /\ k \in Row /\ k.turn = a.turn /\ k.run = a.run /\ k.status = a.status
        /\ k.merge = a.merge /\ k.worker = a.worker /\ k.result = a.result
        /\ k.mode = a.mode
    BY <2>3 DEF Row, a
  <2> QED
    BY <2>1, <2>2, <2>4, PutAlikeCoherent DEF a
<1>7. CASE Pause(t)
  BY <1>7, PauseConfirmedCoherent DEF Pause
<1>8. CASE PauseUnconfirmed(t)
  <2> DEFINE s == PauseMarked(db, t)
             phase == IF t \in Group THEN "pausing" ELSE r.phase
             k == [r EXCEPT !.paused = TRUE, !.phase = phase]
  <2>1. s = Put(db, t, k)
    BY DEF PauseMarked
  <2>2. phase \in Phase
    BY <1>1 DEF Phase, Row
  <2>3. /\ k \in Row /\ k.turn = r.turn /\ k.run = r.run /\ k.status = r.status
        /\ k.merge = r.merge /\ k.worker = r.worker /\ k.result = r.result
        /\ k.mode = r.mode
    <3> HIDE DEF r, phase
    <3> QED
      BY <1>1, <2>2 DEF Row
  <2> HIDE DEF k
  <2>4. Coherent(s)
    BY <2>1, <2>3, PutAlikeCoherent
  <2> HIDE DEF s
  <2>5. \E reached, interrupted \in SUBSET Members(t) :
          db' = PauseHalted(s, reached, interrupted)
    <3>1. \/ \E c \in Members(t), others \in SUBSET Members(t) :
               db' = PauseHalted(s, others \cup {c}, others)
          \/ db' = PauseHalted(s, Members(t), Members(t))
      BY <1>8 DEF PauseUnconfirmed, s
    <3> QED
      BY <3>1
  <2> QED
    BY <2>4, <2>5, PauseHaltedCoherent
<1>9. CASE CancelManaged(t)
  <2> DEFINE s == PauseConfirmed(db, t)
             closed == {t} \cup {c \in Members(t) : db.task[c].status # "done"}
  <2>1. db' = Shut(s, closed)
    BY <1>9, CancelManagedAt
  <2>2. Coherent(s)
    BY PauseConfirmedCoherent
  <2>3. ASSUME NEW u \in Task \cap closed
        PROVE  s.lease[u] = "none" /\ s.task[u].turn # "active"
    <3>1. s.lease[u] = "none"
      BY <1>1, <2>3, PauseConfirmedAt DEF NoLease
    <3>2. CASE u \in Members(t)
      <4>1. Halts(db.task[u], s.task[u])
        BY <1>1, <3>2, PauseConfirmedAt
      <4> HIDE DEF s
      <4> QED
        BY <3>1, <4>1 DEF Halts, s
    <3>3. CASE u \notin Members(t)
      <4>1. u \in Group
        BY <2>3, <3>3 DEF Members
      <4> QED
        BY <2>2, <3>1, <4>1 DEF Coherent, FitsIn, Fits, IdleRow
    <3> QED
      BY <3>2, <3>3
  <2> HIDE DEF s, closed
  <2> QED
    BY <2>1, <2>2, <2>3, ShutCoherent
<1> QED
  BY <1>5, <1>6, <1>7, <1>8, <1>9

\* Users edit tasks and groups coherently.
LEMMA EditingCoherent ==
  ASSUME Coherent(db), NEW t \in Task,
         SetDraft(t) \/ EditMode(t) \/ EditScopes(t) \/ Approve(t)
  PROVE  Coherent(db')
<1> DEFINE r == db.task[t]
<1>1. r \in Row /\ Fits(t, r, db.queue[t], db.lease[t])
  BY RowOf DEF Coherent, FitsIn
<1>2. CASE SetDraft(t)
  <2> DEFINE k == [r EXCEPT !.draft = ~@]
  <2>1. db' = Put(db, t, k)
    BY <1>2 DEF SetDraft, row
  <2> HIDE DEF r
  <2>2. /\ k \in Row /\ k.turn = r.turn /\ k.run = r.run /\ k.status = r.status
        /\ k.merge = r.merge /\ k.worker = r.worker /\ k.result = r.result
        /\ k.mode = r.mode
    BY <1>1 DEF Row
  <2> QED
    BY <2>1, <2>2, PutAlikeCoherent DEF r
<1>3. CASE EditMode(t)
  <2> DEFINE mode == IF r.mode = "parallel" THEN "exclusive" ELSE "parallel"
             k == [r EXCEPT !.mode = mode, !.local = FALSE]
  <2>1. db' = Put(db, t, k) /\ ~IsChild(t) /\ r.turn = "none"
    BY <1>3 DEF EditMode, row
  <2>2. mode \in Mode
    BY DEF Mode
  <2> HIDE DEF r, mode
  <2>3. /\ k \in Row /\ k.turn = r.turn /\ k.run = r.run /\ k.status = r.status
        /\ k.merge = r.merge /\ k.worker = r.worker /\ k.result = r.result
    BY <1>1, <2>2 DEF Row
  <2> HIDE DEF k
  <2>4. Fits(t, k, db.queue[t], db.lease[t])
    BY <1>1, <2>1, <2>3 DEF Fits, IdleRow, ResultRow, LeasedRow, MergedRow
  <2> QED
    BY <2>1, <2>3, <2>4, PutCoherent
<1>4. CASE EditScopes(t)
  <2>1. PICK p \in Path : db' = Put(db, t, [r EXCEPT !.scopes = {p}])
    BY <1>4 DEF EditScopes, row
  <2> DEFINE k == [r EXCEPT !.scopes = {p}]
  <2> HIDE DEF r
  <2>2. /\ k \in Row /\ k.turn = r.turn /\ k.run = r.run /\ k.status = r.status
        /\ k.merge = r.merge /\ k.worker = r.worker /\ k.result = r.result
        /\ k.mode = r.mode
    BY <1>1 DEF Row
  <2> QED
    BY <2>1, <2>2, PutAlikeCoherent DEF r
<1>5. CASE Approve(t)
  <2> DEFINE k == [r EXCEPT !.merge = "queued"]
  <2>1. /\ db' = Put(db, t, k) /\ r.merge \in {"pending_review", "blocked"}
        /\ NoMergeRetry => r.merge = "pending_review"
    BY <1>5 DEF Approve, row, May, NoMergeRetry
  <2> HIDE DEF r
  <2>2. /\ k \in Row /\ k.turn = r.turn /\ k.run = r.run /\ k.status = r.status
        /\ k.merge = "queued" /\ k.worker = r.worker /\ k.result = r.result
        /\ k.mode = r.mode
    BY <1>1 DEF Row, MergeState
  <2> HIDE DEF k
  <2>3. IdleRow(t, k, db.queue[t], db.lease[t])
    BY <1>1, <2>2 DEF Fits, IdleRow
  <2>4. NoMergeRetry => LeasedRow(t, k, db.queue[t], db.lease[t])
    BY <1>1, <2>1, <2>2 DEF Fits, LeasedRow
  <2>5. NoMergeRetry /\ NoMissed => MergedRow(k, db.queue[t])
    BY <1>1, <2>1, <2>2 DEF Fits, MergedRow
  <2>6. ResultRow(t, k)
    BY <1>1, <2>1, <2>2 DEF Fits, ResultRow
  <2>7. Fits(t, k, db.queue[t], db.lease[t])
    BY <2>3, <2>4, <2>5, <2>6 DEF Fits
  <2> QED
    BY <2>1, <2>2, <2>7, PutCoherent
<1> QED
  BY <1>2, <1>3, <1>4, <1>5

\* Groups are submitted, started, prepared and settled coherently.
LEMMA GroupCoherent ==
  ASSUME Coherent(db), NEW t \in Task,
         \/ GroupSubmit(t) \/ RunGroup(t) \/ DispatchGroup(t) \/ DispatchSettle(t)
         \/ GroupPrepared(t) \/ GroupPrepareFails(t)
  PROVE  Coherent(db')
<1> DEFINE r == db.task[t]
<1>1. Sound(db) /\ r \in Row /\ Fits(t, r, db.queue[t], db.lease[t])
  BY RowOf DEF Coherent, FitsIn
<1>2. CASE GroupSubmit(t)
  <2> DEFINE s == Moved(db, t, "todo", "none")
             n == Submitted(s, t)
  <2>1. t \in Group /\ (db' = n \/ db' = GroupStarted(n, t))
    BY <1>2, GroupSubmitAt
  <2>2. /\ Sound(s) /\ Only(db, s, t) /\ s.task[t] = Standing(r, "todo", "none")
        /\ NoLease(s, t) /\ s.queue[t] = Fin(db.queue[t])
    <3>1. "todo" \in Status /\ "none" \in RunState
      BY DEF Status, RunState
    <3>2. Sound(s)
      BY <1>1, <3>1, MovedSound
    <3> QED
      BY <1>1, <3>1, <3>2, MovedAt
  <2> HIDE DEF s
  <2>3. /\ Sound(n) /\ n.queue = s.queue /\ n.lease = s.lease
        /\ n.task[t] = SubmittedRow(s.task[t])
        /\ \A u \in Task \ {t} :
             \/ n.task[u] = s.task[u]
             \/ n.task[u] = ContinuedRow(s.task[u], n.task[u].again)
    BY <2>1, <2>2, SubmittedAt
  <2> HIDE DEF n
  <2>4. FitsIn(n, t)
    <3> DEFINE a == s.task[t]
               k == n.task[t]
    <3>1. a \in Row /\ k = SubmittedRow(a) /\ a = Standing(r, "todo", "none")
      BY <2>2, <2>3, RowOf
    <3>2. n.lease[t] = "none" /\ n.queue[t] = Fin(db.queue[t])
      BY <2>2, <2>3 DEF NoLease
    <3> HIDE DEF a, k, r
    <3>3. /\ a.status = "todo" /\ a.run = "none" /\ a.worker = r.worker
          /\ a.result = r.result /\ a.turn = r.turn
      BY <1>1, <3>1 DEF Standing, Row
    <3>4. /\ k.status = a.status /\ k.run = a.run /\ k.worker = a.worker
          /\ k.result = a.result /\ k.turn = a.turn /\ k.merge = "none"
      BY <3>1 DEF SubmittedRow, Row
    <3>5. Fits(t, k, n.queue[t], n.lease[t])
      BY <1>1, <2>1, <3>2, <3>3, <3>4 DEF Fits, IdleRow, ResultRow, LeasedRow, MergedRow, Fin
    <3> QED
      BY <3>5 DEF FitsIn, k
  <2>5. ASSUME NEW u \in Task \ {t} PROVE FitsIn(n, u)
    <3> DEFINE a == db.task[u]
               k == n.task[u]
    <3>1. /\ a \in Row /\ Fits(u, a, db.queue[u], db.lease[u])
          /\ k = a \/ k = ContinuedRow(a, k.again)
          /\ n.lease[u] = db.lease[u] /\ n.queue[u] = db.queue[u]
      BY <1>1, <2>2, <2>3, RowOf DEF Only, Coherent, FitsIn
    <3> HIDE DEF a, k
    <3>2. /\ k.status = a.status /\ k.run = a.run /\ k.worker = a.worker
          /\ k.result = a.result /\ k.turn = a.turn /\ k.merge = a.merge
          /\ k.mode = a.mode
      BY <3>1 DEF ContinuedRow, Row
    <3>3. Fits(u, k, n.queue[u], n.lease[u])
      BY <3>1, <3>2 DEF Fits, IdleRow, ResultRow, LeasedRow, MergedRow
    <3> QED
      BY <3>3 DEF FitsIn, k
  <2>6. Coherent(n)
    BY <2>3, <2>4, <2>5 DEF Coherent
  <2> QED
    BY <2>1, <2>6, GroupStartedCoherent
<1>3. CASE RunGroup(t) \/ DispatchGroup(t)
  BY <1>3, GroupStartedCoherent DEF RunGroup, DispatchGroup
<1>4. CASE DispatchSettle(t)
  BY <1>4, GroupSettledCoherent DEF DispatchSettle
<1>5. CASE GroupPrepared(t)
  <2> DEFINE k == [r EXCEPT !.prepared = TRUE]
  <2>1. db' = Put(db, t, k)
    BY <1>5 DEF GroupPrepared, row
  <2> HIDE DEF r
  <2>2. /\ k \in Row /\ k.turn = r.turn /\ k.run = r.run /\ k.status = r.status
        /\ k.merge = r.merge /\ k.worker = r.worker /\ k.result = r.result
        /\ k.mode = r.mode
    BY <1>1 DEF Row
  <2> QED
    BY <2>1, <2>2, PutAlikeCoherent DEF r
<1>6. CASE GroupPrepareFails(t)
  <2> DEFINE s == ReleaseAll(db, t)
             k == [r EXCEPT !.phase = "paused", !.paused = TRUE, !.run = "failed"]
  <2>1. db' = Put(s, t, k) /\ t \in Group
    BY <1>6 DEF GroupPrepareFails, row
  <2>2. Sound(s) /\ Only(db, s, t) /\ s.queue[t] = db.queue[t] /\ NoLease(s, t)
    BY <1>1, ReleaseAllSound, ReleaseAllAt
  <2> HIDE DEF s, r
  <2>3. /\ k \in Row /\ k.turn = r.turn /\ k.run = "failed" /\ k.status = r.status
        /\ k.merge = r.merge /\ k.worker = r.worker /\ k.result = r.result
    BY <1>1 DEF Row, Phase, RunState
  <2> HIDE DEF k
  <2>4. /\ Sound(db') /\ Only(s, db', t) /\ db'.task[t] = k
        /\ db'.queue[t] = s.queue[t] /\ SameLease(s, db', t)
    <3>1. Sound(db')
      BY <2>1, <2>2, <2>3, PutSound
    <3> QED
      BY <2>1, <2>2, <3>1, PutAt
  <2>5. Fits(t, k, db'.queue[t], db'.lease[t])
    BY <1>1, <2>1, <2>2, <2>3, <2>4
    DEF Fits, IdleRow, ResultRow, LeasedRow, MergedRow, NoLease, SameLease
  <2>6. Only(db, db', t)
    BY <2>2, <2>4, OnlyTransitive
  <2> QED
    BY <2>4, <2>5, <2>6, CoherentAt DEF FitsIn
<1> QED
  BY <1>2, <1>3, <1>4, <1>5, <1>6

\* Turns start and end coherently.
LEMMA TurnCoherent ==
  ASSUME Coherent(db), NEW t \in Task,
         \/ Started(t) \/ StartFails(t) \/ Completes(t) \/ Fails(t) \/ QuotaWait(t)
         \/ EndsUnobserved(t) \/ ConnectionLost(t)
  PROVE  Coherent(db')
<1> DEFINE r == db.task[t]
<1>1. Sound(db) /\ r \in Row /\ Fits(t, r, db.queue[t], db.lease[t])
  BY RowOf DEF Coherent, FitsIn
<1>2. CASE Started(t)
  <2> DEFINE k == [r EXCEPT !.run = "running", !.turn = "active"]
  <2>1. db' = Put(db, t, k) /\ r.run = "starting"
    BY <1>2 DEF Started, row
  <2> HIDE DEF r
  <2>2. k \in Row
    BY <1>1 DEF Row, RunState, Turn
  <2>3. /\ k.turn = "active" /\ k.run = "running" /\ k.status = r.status
        /\ k.merge = r.merge /\ k.worker = r.worker /\ k.result = r.result
        /\ k.mode = r.mode
    BY <1>1 DEF Row
  <2> HIDE DEF k
  <2>4. Fits(t, k, db.queue[t], db.lease[t])
    BY <1>1, <2>1, <2>3 DEF Fits, IdleRow, ResultRow, LeasedRow, MergedRow
  <2> QED
    BY <2>1, <2>2, <2>4, PutCoherent
<1>3. CASE StartFails(t)
  <2>1. PICK thread \in BOOLEAN :
          db' = Failed(Put(db, t, [r EXCEPT !.turn =
                         IF thread /\ @ = "none" THEN "idle" ELSE @]), t)
    BY <1>3 DEF StartFails, row
  <2> DEFINE turn == IF thread /\ r.turn = "none" THEN "idle" ELSE r.turn
             k == [r EXCEPT !.turn = turn]
             s == Put(db, t, k)
  <2>2. db' = Failed(s, t) /\ r.run = "starting"
    BY <1>3, <2>1 DEF StartFails, row
  <2>3. turn \in Turn /\ (turn = r.turn \/ turn = "idle") /\ (turn = "none" => r.turn = "none")
    <3> HIDE DEF r
    <3> QED
      BY <1>1 DEF Turn, Row
  <2> HIDE DEF r, turn
  <2>4. /\ k \in Row /\ k.turn = turn /\ k.run = r.run /\ k.status = r.status
        /\ k.merge = r.merge /\ k.worker = r.worker /\ k.result = r.result
        /\ k.mode = r.mode
    BY <1>1, <2>3 DEF Row
  <2> HIDE DEF k
  <2>5. Fits(t, k, db.queue[t], db.lease[t])
    BY <1>1, <2>2, <2>3, <2>4 DEF Fits, IdleRow, ResultRow, LeasedRow, MergedRow
  <2>6. Coherent(s) /\ s.task[t] = k
    BY <1>1, <2>4, <2>5, PutCoherent, PutAt
  <2>7. NoMergeRetry => k.turn # "active"
    BY <1>1, <2>2, <2>3, <2>4 DEF Fits, LeasedRow
  <2> HIDE DEF s
  <2> QED
    BY <2>2, <2>6, <2>7, FailedCoherent
<1>4. ASSUME r.turn = "active" PROVE t \notin Group
  BY <1>1, <1>4 DEF Fits, IdleRow
<1>5. ASSUME r.turn = "active", NEW how \in {"idle", "completed"}
      PROVE  LET n == TurnEnds(db, t, how) IN
             Coherent(n) /\ n.task[t].turn = how /\ n.task[t].status = r.status
             /\ n.task[t].merge = r.merge
  <2> DEFINE n == TurnEnds(db, t, how)
             k == [r EXCEPT !.turn = how, !.conflict = FALSE]
  <2>1. Coherent(n) /\ n.task[t].turn = how /\ n.task[t].status = r.status
    BY <1>4, <1>5, TurnEndsCoherent
  <2>2. n.task[t] = k
    BY <1>1, PutAt DEF TurnEnds
  <2>3. k.merge = r.merge
    <3> HIDE DEF r
    <3> QED
      BY <1>1 DEF Row
  <2> QED
    BY <2>1, <2>2, <2>3
<1>6. CASE Completes(t)
  <2> DEFINE s == TurnEnds(db, t, "completed")
  <2>1. PICK outcome : db' = Settled(s, t, outcome)
    BY <1>6 DEF Completes
  <2>2. r.turn = "active" /\ r.status = "in_progress"
    BY <1>6 DEF Completes, Observed, row
  <2>3. /\ Coherent(s) /\ s.task[t].turn = "completed" /\ s.task[t].status = r.status
        /\ s.task[t].merge = r.merge
    BY <1>5, <2>2
  <2>4. NoMergeRetry /\ NoMissed => r.merge # "merged"
    BY <1>1, <2>2 DEF Fits, MergedRow
  <2> HIDE DEF s
  <2> QED
    BY <1>4, <2>1, <2>2, <2>3, <2>4, SettledCoherent
<1>7. CASE Fails(t)
  <2> DEFINE s == TurnEnds(db, t, "idle")
  <2>1. db' = Failed(s, t) /\ r.turn = "active"
    BY <1>7 DEF Fails, row
  <2>2. Coherent(s) /\ s.task[t].turn = "idle"
    BY <1>5, <2>1
  <2> HIDE DEF s
  <2> QED
    BY <2>1, <2>2, FailedCoherent
<1>8. CASE QuotaWait(t)
  <2> DEFINE e == TurnEnds(db, t, "idle")
             s == Failed(e, t)
             a == s.task[t]
             k == [a EXCEPT !.run = "waiting_quota"]
  <2>1. db' = Put(s, t, k) /\ r.turn = "active"
    BY <1>8 DEF QuotaWait, row
  <2>2. Coherent(e) /\ e.task[t].turn = "idle"
    BY <1>5, <2>1
  <2> HIDE DEF e
  <2>3. Coherent(s)
    BY <2>2, FailedCoherent
  <2>4. a = [e.task[t] EXCEPT !.run = "failed"] /\ s.lease[t] = "none"
    BY <2>2, FailedAt DEF Coherent, NoLease
  <2>5. a \in Row /\ Fits(t, a, s.queue[t], s.lease[t]) /\ e.task[t] \in Row
    BY <2>2, <2>3, RowOf DEF Coherent, FitsIn
  <2>6. a.turn = "idle"
    BY <2>2, <2>4, <2>5 DEF Row
  <2>7. t \notin Group
    BY <1>4, <2>1
  <2> HIDE DEF s, a
  <2>8. /\ k \in Row /\ k.turn = a.turn /\ k.run = "waiting_quota"
        /\ k.status = a.status /\ k.merge = a.merge /\ k.worker = a.worker
        /\ k.result = a.result /\ k.mode = a.mode
    BY <2>5 DEF Row, RunState
  <2> HIDE DEF k
  <2>9. Fits(t, k, s.queue[t], s.lease[t])
    BY <2>4, <2>5, <2>6, <2>7, <2>8 DEF Fits, IdleRow, ResultRow, LeasedRow, MergedRow
  <2> QED
    BY <2>1, <2>3, <2>8, <2>9, PutCoherent
<1>9. CASE EndsUnobserved(t)
  <2>1. PICK how \in {"idle", "completed"} : db' = Put(db, t, [r EXCEPT !.turn = how])
    BY <1>9 DEF EndsUnobserved, row
  <2> DEFINE k == [r EXCEPT !.turn = how]
  <2>2. r.turn = "active" /\ t \notin Group
    BY <1>4, <1>9 DEF EndsUnobserved, row
  <2> HIDE DEF r
  <2>3. /\ k \in Row /\ k.turn = how /\ k.run = r.run
        /\ k.status = r.status /\ k.merge = r.merge /\ k.worker = r.worker
        /\ k.result = r.result /\ k.mode = r.mode
    BY <1>1 DEF Row, Turn
  <2>4. db' = Put(db, t, k)
    BY <2>1 DEF r
  <2> HIDE DEF k
  <2>5. Fits(t, k, db.queue[t], db.lease[t])
    BY <1>1, <2>2, <2>3 DEF Fits, IdleRow, ResultRow, LeasedRow, MergedRow
  <2> QED
    BY <2>3, <2>4, <2>5, PutCoherent
<1>10. CASE ConnectionLost(t)
  <2> DEFINE k == [r EXCEPT !.run = "failed", !.conflict = TRUE]
             p == Put(db, t, k)
  <2>1. db' = FinishQueue(p, t) /\ r.turn = "active" /\ t \notin Group
    BY <1>4, <1>10 DEF ConnectionLost, row
  <2> HIDE DEF r
  <2>2. /\ k \in Row /\ k.turn = r.turn /\ k.run = "failed"
        /\ k.status = r.status /\ k.merge = r.merge /\ k.worker = r.worker
        /\ k.result = r.result /\ k.mode = r.mode
    BY <1>1 DEF Row, RunState
  <2> HIDE DEF k
  <2>3. /\ Sound(p) /\ Only(db, p, t) /\ p.task[t] = k /\ p.queue[t] = db.queue[t]
        /\ SameLease(db, p, t)
    <3>1. Sound(p)
      BY <1>1, <2>2, PutSound
    <3> QED
      BY <1>1, <3>1, PutAt
  <2> HIDE DEF p
  <2>4. /\ Sound(db') /\ Only(p, db', t) /\ db'.task[t] = p.task[t]
        /\ db'.queue[t] = Fin(p.queue[t]) /\ SameLease(p, db', t)
    <3>1. Sound(db')
      BY <2>1, <2>3, FinishQueueSound
    <3> QED
      BY <2>1, <2>3, <3>1, FinishQueueAt
  <2>5. Fits(t, k, db'.queue[t], db'.lease[t])
    BY <1>1, <2>1, <2>2, <2>3, <2>4
    DEF Fits, IdleRow, ResultRow, LeasedRow, MergedRow, Fin, SameLease
  <2>6. Only(db, db', t)
    BY <2>3, <2>4, OnlyTransitive
  <2> QED
    BY <2>3, <2>4, <2>5, <2>6, CoherentAt DEF FitsIn
<1> QED
  BY <1>2, <1>3, <1>6, <1>7, <1>8, <1>9, <1>10

\* What is found on a thread is taken over coherently.
LEMMA ObservedCoherent ==
  ASSUME Coherent(db), NEW t \in Task,
         \/ Reconnect(t) \/ Reevaluate(t) \/ ReevaluateFails(t) \/ AdoptNative(t)
         \/ NativeEnded(t)
  PROVE  Coherent(db')
<1> DEFINE r == db.task[t]
<1>1. Sound(db) /\ r \in Row /\ Fits(t, r, db.queue[t], db.lease[t])
  BY RowOf DEF Coherent, FitsIn
<1>2. CASE Reconnect(t)
  BY <1>2, ReattachedCoherent DEF Reconnect, row
<1>3. CASE AdoptNative(t)
  BY <1>3, AdoptedCoherent DEF AdoptNative, row
<1>4. ASSUME r.turn # "none" PROVE t \notin Group
  BY <1>1, <1>4 DEF Fits, IdleRow
<1>5. CASE Reevaluate(t)
  <2> DEFINE s == TurnEnds(db, t, "completed")
             k == [r EXCEPT !.turn = "completed", !.conflict = FALSE]
  <2>1. PICK outcome : db' = Settled(s, t, outcome)
    BY <1>5 DEF Reevaluate
  <2>2. r.turn = "completed" /\ r.status = "in_progress"
    BY <1>5 DEF Reevaluate, Observed, row
  <2>3. t \notin Group
    BY <1>4, <2>2
  <2>4. Coherent(s) /\ s.task[t].turn = "completed" /\ s.task[t].status = r.status
    BY <2>3, TurnEndsCoherent
  <2>5. s.task[t] = k
    BY <1>1, PutAt DEF TurnEnds
  <2>6. k.merge = r.merge
    <3> HIDE DEF r
    <3> QED
      BY <1>1 DEF Row
  <2>7. NoMergeRetry /\ NoMissed => r.merge # "merged"
    BY <1>1, <2>2 DEF Fits, MergedRow
  <2> HIDE DEF s
  <2> QED
    BY <2>1, <2>2, <2>3, <2>4, <2>5, <2>6, <2>7, SettledCoherent
<1>6. CASE ReevaluateFails(t)
  <2> DEFINE s == TurnEnds(db, t, "idle")
  <2>1. db' = Failed(s, t) /\ r.turn = "idle"
    BY <1>6 DEF ReevaluateFails, row
  <2>2. Coherent(s) /\ s.task[t].turn = "idle"
    BY <1>4, <2>1, TurnEndsCoherent
  <2> HIDE DEF s
  <2> QED
    BY <2>1, <2>2, FailedCoherent
<1>7. CASE NativeEnded(t)
  <2> DEFINE k == [r EXCEPT !.status = "in_progress", !.run = "running"]
             s == Put(db, t, k)
             idle == TurnEnds(s, t, "idle")
             over == TurnEnds(s, t, "completed")
  <2>1. /\ ~NoMissed /\ r.turn \in {"idle", "completed"}
        /\ \/ \E how \in {"idle", "completed"} :
                db' = Put(s, t, [s.task[t] EXCEPT !.turn = how])
           \/ db' = Failed(idle, t)
           \/ \E outcome : db' = Settled(over, t, outcome)
    BY <1>7 DEF NativeEnded, May, NoMissed, row
  <2>2. t \notin Group
    BY <1>4, <2>1
  <2> HIDE DEF r
  <2>3. /\ k \in Row /\ k.turn = r.turn /\ k.run = "running"
        /\ k.status = "in_progress" /\ k.merge = r.merge /\ k.worker = r.worker
        /\ k.result = r.result /\ k.mode = r.mode
    BY <1>1 DEF Row, Status, RunState
  <2> HIDE DEF k
  <2>4. Fits(t, k, db.queue[t], db.lease[t])
    BY <1>1, <2>1, <2>2, <2>3 DEF Fits, IdleRow, ResultRow, LeasedRow
  <2>5. Coherent(s) /\ s.task[t] = k
    BY <1>1, <2>3, <2>4, PutCoherent, PutAt
  <2> HIDE DEF s
  <2>6. ASSUME NEW how \in {"idle", "completed"}
        PROVE  Coherent(Put(s, t, [s.task[t] EXCEPT !.turn = how]))
    <3> DEFINE a == s.task[t]
               b == [a EXCEPT !.turn = how]
    <3>1. a \in Row /\ Fits(t, a, s.queue[t], s.lease[t]) /\ a = k
      BY <2>5, RowOf DEF Coherent, FitsIn
    <3> HIDE DEF a
    <3>2. /\ b \in Row /\ b.turn = how /\ b.run = a.run
          /\ b.status = a.status /\ b.merge = a.merge /\ b.worker = a.worker
          /\ b.result = a.result /\ b.mode = a.mode
      BY <3>1 DEF Row, Turn
    <3> HIDE DEF b
    <3>3. Fits(t, b, s.queue[t], s.lease[t])
      BY <2>1, <2>2, <2>3, <3>1, <3>2 DEF Fits, IdleRow, ResultRow, LeasedRow
    <3>4. Coherent(Put(s, t, b))
      BY <2>5, <3>2, <3>3, PutCoherent
    <3> QED
      BY <3>4 DEF a, b
  <2>7. /\ Coherent(idle) /\ idle.task[t].turn = "idle"
        /\ Coherent(over) /\ over.task[t].turn = "completed"
        /\ over.task[t].status = "in_progress"
    BY <2>2, <2>3, <2>5, TurnEndsCoherent
  <2> HIDE DEF idle, over
  <2>8. Coherent(Failed(idle, t))
    BY <2>7, FailedCoherent
  <2>9. ASSUME NEW outcome PROVE Coherent(Settled(over, t, outcome))
    BY <2>1, <2>2, <2>7, SettledCoherent
  <2> QED
    BY <2>1, <2>6, <2>8, <2>9
<1> QED
  BY <1>2, <1>3, <1>5, <1>6, <1>7

\* The merge queue keeps the tables coherent.
LEMMA MergingCoherent ==
  ASSUME Coherent(db), NEW t \in Task,
         \/ MergePrepare(t) \/ MergePublish(t) \/ MergeSuperseded(t) \/ MergeFails(t)
  PROVE  Coherent(db')
<1> DEFINE r == db.task[t]
           with(merge, worker) == [r EXCEPT !.merge = merge, !.worker = worker]
<1>1. Sound(db) /\ r \in Row /\ Fits(t, r, db.queue[t], db.lease[t])
  BY RowOf DEF Coherent, FitsIn
<1>2. ASSUME NEW merge \in MergeState, NEW worker \in BOOLEAN
      PROVE  LET k == with(merge, worker) IN
             /\ k \in Row /\ k.turn = r.turn /\ k.run = r.run /\ k.status = r.status
             /\ k.merge = merge /\ k.worker = worker /\ k.result = r.result
             /\ k.mode = r.mode
  <2> HIDE DEF r
  <2> QED
    BY <1>1 DEF Row
<1> HIDE DEF with
<1>3. CASE MergePrepare(t)
  <2> DEFINE v == ReserveScopes(db, t)
             blocked == with("blocked", FALSE)
             merging == with("merging", TRUE)
  <2>1. /\ r.merge = "queued"
        /\ \/ db' = Put(db, t, blocked)
           \/ ScopesFree(db, t) /\ r.result
              /\ (db' = Put(v, t, blocked) \/ db' = Put(v, t, merging))
    BY <1>3 DEF MergePrepare, row, with
  <2>2. "blocked" \in MergeState /\ "merging" \in MergeState
    BY DEF MergeState
  <2>3. /\ blocked \in Row /\ blocked.turn = r.turn /\ blocked.run = r.run
        /\ blocked.status = r.status /\ blocked.merge = "blocked"
        /\ blocked.worker = FALSE /\ blocked.result = r.result /\ blocked.mode = r.mode
    BY <1>2, <2>2
  <2>4. /\ merging \in Row /\ merging.turn = r.turn /\ merging.run = r.run
        /\ merging.status = r.status /\ merging.merge = "merging"
        /\ merging.worker = TRUE /\ merging.result = r.result /\ merging.mode = r.mode
    BY <1>2, <2>2
  <2>5. ASSUME ScopesFree(db, t)
        PROVE  Coherent(v) /\ v.queue = db.queue /\ v.lease = db.lease
    <3>1. Sound(v)
      BY <1>1, <2>5, ReserveScopesSound
    <3>2. v.task = db.task /\ v.queue = db.queue /\ v.lease = db.lease
      BY <1>1, ReserveScopesAt
    <3> QED
      BY <3>1, <3>2, AlikeCoherent
  <2> HIDE DEF v, blocked, merging, r
  <2>6. Fits(t, blocked, db.queue[t], db.lease[t])
    BY <1>1, <2>1, <2>3 DEF Fits, IdleRow, ResultRow, LeasedRow, MergedRow
  <2>7. Fits(t, merging, db.queue[t], db.lease[t])
    BY <1>1, <2>1, <2>4 DEF Fits, IdleRow, ResultRow, LeasedRow, MergedRow
  <2>8. Coherent(Put(db, t, blocked))
    BY <2>3, <2>6, PutCoherent
  <2>9. ASSUME ScopesFree(db, t)
        PROVE  Coherent(Put(v, t, blocked)) /\ Coherent(Put(v, t, merging))
    BY <2>3, <2>4, <2>5, <2>6, <2>7, <2>9, PutCoherent
  <2> QED
    BY <2>1, <2>8, <2>9
<1>4. CASE MergePublish(t)
  <2> DEFINE s == Integrates(db, t)
             k == s.task[t]
  <2>1. /\ db' = IF IsChild(t) THEN GroupSettled(s, RootOf[t]) ELSE s
        /\ r.worker /\ r.merge = "merging" /\ db.queue[t] # "pending"
    BY <1>4 DEF MergePublish, MayPublish, Integrates, row
  <2>2. /\ Sound(s) /\ Only(db, s, t) /\ k = IntegratedRow(r)
        /\ s.queue[t] = Fin(db.queue[t]) /\ NoLease(s, t)
    BY <1>1, IntegratesAt
  <2> HIDE DEF s, k, r
  <2>3. /\ k.turn = r.turn /\ k.run = "none" /\ k.status = "done"
        /\ k.merge = "merged" /\ k.worker = FALSE /\ k.result = r.result
        /\ k.mode = r.mode
    BY <1>1, <2>2 DEF IntegratedRow, Standing, Row
  <2>4. Fits(t, k, s.queue[t], s.lease[t])
    BY <1>1, <2>1, <2>2, <2>3 DEF Fits, IdleRow, ResultRow, LeasedRow, MergedRow, Fin, NoLease
  <2>5. Coherent(s)
    BY <2>2, <2>4, CoherentAt DEF FitsIn, k
  <2>6. IsChild(t) => RootOf[t] \in Group
    BY TaskAssumption
  <2> QED
    BY <2>1, <2>5, <2>6, GroupSettledCoherent
<1>5. CASE MergeSuperseded(t) \/ MergeFails(t)
  <2>1. PICK merge \in {"queued", "blocked"} :
          /\ db' = Put(db, t, with(merge, FALSE)) /\ r.worker
          /\ merge = "queued" => r.merge = "merging"
    BY <1>5 DEF MergeSuperseded, MergeFails, MayPublish, row, with
  <2> DEFINE k == with(merge, FALSE)
  <2>2. merge \in MergeState
    BY DEF MergeState
  <2>3. /\ k \in Row /\ k.turn = r.turn /\ k.run = r.run /\ k.status = r.status
        /\ k.merge = merge /\ k.worker = FALSE /\ k.result = r.result
        /\ k.mode = r.mode
    BY <1>2, <2>2
  <2> HIDE DEF k, r
  <2>4. Fits(t, k, db.queue[t], db.lease[t])
    BY <1>1, <2>1, <2>3 DEF Fits, IdleRow, ResultRow, LeasedRow, MergedRow
  <2> QED
    BY <2>1, <2>3, <2>4, PutCoherent DEF k
<1> QED
  BY <1>3, <1>4, <1>5

\* Every step of the scheduler and of Codex keeps the tables coherent.
LEMMA NextCoherent ==
  ASSUME Coherent(db), [Next]_vars
  PROVE  Coherent(db')
<1>1. CASE UNCHANGED vars
  BY <1>1 DEF vars
<1>2. CASE Next
  <2>1. PICK t \in Task : UserAction(t) \/ LoopAction(t) \/ CodexAction(t)
    BY <1>2 DEF Next
  <2>2. CASE UserAction(t)
    BY <2>2, QueueingCoherent, FollowUpCoherent, EndingCoherent, EditingCoherent,
       GroupCoherent DEF UserAction
  <2>3. CASE LoopAction(t)
    BY <2>3, QueueingCoherent, GroupCoherent, ObservedCoherent DEF LoopAction
  <2>4. CASE CodexAction(t)
    BY <2>4, TurnCoherent, GroupCoherent, ObservedCoherent, MergingCoherent
    DEF CodexAction
  <2> QED
    BY <2>1, <2>2, <2>3, <2>4
<1> QED
  BY <1>1, <1>2

\* Rows, queue and leases of the board agree at every moment.
THEOREM AlwaysCoherent == Spec => []Coherent(db)
<1>1. Init => Coherent(db)
  BY InitCoherent
<1>2. Coherent(db) /\ [Next]_vars => Coherent(db)'
  BY NextCoherent
<1> QED
  BY <1>1, <1>2, PTL DEF Spec

\* A turn that Codex runs for a task is always covered by an execution lease,
\* so no dispatch overlooks it, provided nobody confirms a blocked merge while
\* the task runs again (parallel_runtime.py, approve_merge).
THEOREM RunningIsLeased ==
  ASSUME NoMergeRetry
  PROVE  Spec => []RunningHoldsLease
<1>1. Coherent(db) => RunningHoldsLease
  BY DEF Coherent, FitsIn, Fits, LeasedRow, RunningHoldsLease, row
<1> QED
  BY <1>1, AlwaysCoherent, PTL
=============================================================================
