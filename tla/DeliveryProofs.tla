----------------------------- MODULE DeliveryProofs -----------------------------
(***************************************************************************)
(* What the board has built stays built: a managed task is done by its       *)
(* merge alone, a result that waits for its merge keeps what it reserved, a  *)
(* rework reaches every consumer, a group under review is complete, and what *)
(* runs owns its shared resources.                                          *)
(*                                                                         *)
(* Leases come and go as the lock of RepoLock says, and within the budget: a *)
(* step either gives leases back, or takes them against the rules and        *)
(* records it, or lets exactly one task in that the holders admit.           *)
(*                                                                         *)
(* Besides, every step is described twice: by what it does to a task's        *)
(* delivery and reservations (Durable, Owning), and by what it does to the   *)
(* validity of results (Valid), unless it reworks a task (Reworks).          *)
(***************************************************************************)
EXTENDS DispatchProofs, FiniteSetTheorems

\* The mode in which dispatch has let u in; a forced lease was not let in.
Hold(s, u) == IF s.forced[u] THEN "none" ELSE s.lease[u]

\* No lease is granted between s and n.
Lets(s, n) == \A u \in Task : Hold(n, u) \in {"none", Hold(s, u)}

\* No lease comes or goes.
Quiet(s, n) == \A u \in Task : n.lease[u] = s.lease[u] /\ Hold(n, u) = Hold(s, u)

\* t alone is let in, beside holders that are compatible with it.
Enters(s, n, t) ==
  /\ n.lease[t] \in Mode /\ ~n.forced[t]
  /\ \A u \in Task \ {t} : n.lease[u] = s.lease[u] /\ Hold(n, u) = Hold(s, u)
  /\ \A o \in Task \ {t} :
       s.lease[o] # "none" /\ SameRepo(t, o) /\ RootOf[o] # RootOf[t] =>
         n.lease[t] = "parallel" /\ s.lease[o] = "parallel"
  /\ WithinBudget(s, t)

LockStep(s, n) == Lets(s, n) \/ \E t \in Task : Enters(s, n, t)

LEMMA QuietLets ==
  ASSUME NEW s, NEW n, Quiet(s, n)
  PROVE  Lets(s, n)
BY DEF Quiet, Lets

LEMMA LetsThrough ==
  ASSUME NEW s, NEW n, NEW k, Lets(s, n), Lets(n, k)
  PROVE  Lets(s, k)
BY DEF Lets

LEMMA QuietThrough ==
  ASSUME NEW s, NEW n, NEW k, Quiet(s, n), Quiet(n, k)
  PROVE  Quiet(s, k)
BY DEF Quiet

\* A transaction about one task that leaves its lease, or drops it.
LEMMA OnlyQuiet ==
  ASSUME NEW s, NEW n, NEW t \in Task, Only(s, n, t), SameLease(s, n, t)
  PROVE  Quiet(s, n)
BY DEF Only, SameLease, Quiet, Hold

LEMMA OnlyLets ==
  ASSUME NEW s, NEW n, NEW t \in Task, Only(s, n, t), NoLease(n, t)
  PROVE  Lets(s, n)
BY DEF Only, NoLease, Lets, Hold

\* Writing a row takes no lease.
LEMMA PutQuiet ==
  ASSUME NEW s, Sound(s), NEW t \in Task, NEW r
  PROVE  Quiet(s, Put(s, t, r))
BY PutAt, OnlyQuiet

\* Tables with the same leases.
LEMMA SameQuiet ==
  ASSUME NEW s, NEW n, n.lease = s.lease, n.forced = s.forced
  PROVE  Quiet(s, n)
BY DEF Quiet, Hold

\* update_task only gives back.
LEMMA MovedLets ==
  ASSUME NEW s, Sound(s), NEW t \in Task, NEW status \in Status, NEW run \in RunState
  PROVE  Lets(s, Moved(s, t, status, run))
<1> DEFINE n == Moved(s, t, status, run)
<1>1. Only(s, n, t) /\ (SameLease(s, n, t) \/ NoLease(n, t))
  BY MovedAt
<1> HIDE DEF n
<1>2. Lets(s, n)
  BY <1>1, OnlyQuiet, OnlyLets, QuietLets
<1> QED
  BY <1>2 DEF n

\* What is left of a turn holds no lease.
LEMMA FailedLets ==
  ASSUME NEW s, Sound(s), NEW t \in Task
  PROVE  Lets(s, Failed(s, t))
<1>1. Only(s, Failed(s, t), t) /\ NoLease(Failed(s, t), t)
  BY FailedAt
<1> QED
  BY <1>1, OnlyLets

LEMMA SettledLets ==
  ASSUME NEW s, Sound(s), NEW t \in Task, NEW outcome
  PROVE  Lets(s, Settled(s, t, outcome))
<1>1. Only(s, Settled(s, t, outcome), t) /\ NoLease(Settled(s, t, outcome), t)
  BY SettledAt
<1> QED
  BY <1>1, OnlyLets

LEMMA TurnEndsQuiet ==
  ASSUME NEW s, Sound(s), NEW t \in Task, NEW how
  PROVE  Quiet(s, TurnEnds(s, t, how))
BY PutQuiet DEF TurnEnds

\* Groups hold no lease, so reopening a review gives back none.
LEMMA EnqueuedQuiet ==
  ASSUME NEW s, Coherent(s), NEW t \in Task, NEW prompted \in BOOLEAN
  PROVE  Quiet(s, Enqueued(s, t, prompted))
<1> DEFINE n == Enqueued(s, t, prompted)
<1>1. Sound(s) /\ \A u \in Task \cap Group : s.lease[u] = "none"
  BY DEF Coherent, FitsIn, Fits, IdleRow
<1>2. Enqueues(s, n, t, prompted /\ Managed(s, t))
  BY <1>1, EnqueuedAt
<1> HIDE DEF n
<1>3. ASSUME NEW u \in Task PROVE n.lease[u] = s.lease[u] /\ Hold(n, u) = Hold(s, u)
  <2>1. CASE Reopens(s, t, u)
    <3>1. u \in Group
      BY <2>1, ChildrenApart DEF Reopens
    <3>2. NoLease(n, u)
      BY <1>2, <2>1 DEF Enqueues
    <3> QED
      BY <1>1, <3>1, <3>2 DEF NoLease, Hold
  <2>2. CASE ~Reopens(s, t, u)
    <3>1. SameLease(s, n, u)
      BY <1>2, <2>2 DEF Enqueues
    <3> QED
      BY <3>1 DEF SameLease, Hold
  <2> QED
    BY <2>1, <2>2
<1> QED
  BY <1>3 DEF Quiet, n

\* What eligibility admits is compatible with the holders, and in budget.
LEMMA AdmittedEnters ==
  ASSUME NEW s, Sound(s), NEW t \in Task, t \notin Group, NEW fairness,
         Eligible(s, t, fairness), NEW n,
         \A u \in Task \ {t} : n.lease[u] = s.lease[u] /\ n.forced[u] = s.forced[u],
         n.lease[t] = s.task[RootOf[t]].mode, ~n.forced[t]
  PROVE  Enters(s, n, t)
<1>1. LeasesAdmit(s, t) /\ WithinBudget(s, t)
  BY DEF Eligible
<1>2. n.lease[t] \in Mode
  BY ModeOf
<1>3. ASSUME NEW o \in Task \ {t}, s.lease[o] # "none", SameRepo(t, o),
             RootOf[o] # RootOf[t]
      PROVE  n.lease[t] = "parallel" /\ s.lease[o] = "parallel"
  <2>1. s.task[RootOf[t]].mode # "exclusive" /\ s.lease[o] # "exclusive"
    BY <1>1, <1>3 DEF LeasesAdmit, SameRepo
  <2>2. s.lease[o] \in Mode
    BY <1>3 DEF Sound, Tables
  <2> QED
    BY <1>2, <2>1, <2>2 DEF Mode
<1> QED
  BY <1>1, <1>2, <1>3 DEF Enters, Hold

LEMMA ClaimedEnters ==
  ASSUME NEW s, Sound(s), NEW t \in Task, Claimable(s, t)
  PROVE  Enters(s, Claimed(s, t), t)
<1> DEFINE n == Claimed(s, t)
<1>1. Beside(s, n, t) /\ n.lease[t] = s.task[RootOf[t]].mode /\ ~n.forced[t]
  BY ClaimedAt
<1> HIDE DEF n
<1>2. t \notin Group /\ Eligible(s, t, TRUE)
  BY DEF Claimable
<1>3. \A u \in Task \ {t} : n.lease[u] = s.lease[u] /\ n.forced[u] = s.forced[u]
  BY <1>1 DEF Beside
<1>4. Enters(s, n, t)
  BY <1>1, <1>2, <1>3, AdmittedEnters
<1> QED
  BY <1>4 DEF n

\* Nothing is let in or out around an entry.
LEMMA QuietEnters ==
  ASSUME NEW s, NEW e, NEW n, NEW k, NEW t \in Task,
         Quiet(s, e), Enters(e, n, t), Quiet(n, k), k.forced[t] = n.forced[t]
  PROVE  Enters(s, k, t)
<1>1. {o \in Task \ {t} : SameRepo(o, t) /\ s.lease[o] # "none"}
        = {o \in Task \ {t} : SameRepo(o, t) /\ e.lease[o] # "none"}
  BY DEF Quiet
<1>2. WithinBudget(s, t)
  BY <1>1 DEF Enters, WithinBudget
<1> QED
  BY <1>2 DEF Quiet, Enters

\* A task that is queued is let in at most by itself.
LEMMA QueueLock ==
  ASSUME NEW s, Coherent(s), NEW t \in Task, NEW prompted \in BOOLEAN,
         NEW k, Quiet(k, s)
  PROVE  LockStep(k, Queue(s, t, prompted))
<1> DEFINE e == Enqueued(s, t, prompted)
           c == Claimed(e, t)
           r == Reattached(s, t)
<1>1. Sound(s)
  BY DEF Coherent
<1>2. Queue(s, t, prompted) \in {r, e, c} /\ (Queue(s, t, prompted) = c => Claimable(e, t) \/ c = e \/ c = r)
  BY DEF Queue, TryClaim
<1>3. Lets(k, r)
  BY <1>1, PutQuiet, QuietThrough, QuietLets DEF Reattached
<1>4. Sound(e) /\ Quiet(k, e)
  BY <1>1, EnqueuedSound, EnqueuedQuiet, QuietThrough
<1> HIDE DEF e, r
<1>5. Lets(k, e)
  BY <1>4, QuietLets
<1>6. ASSUME Claimable(e, t) PROVE Enters(k, c, t)
  <2>1. Enters(e, c, t)
    BY <1>4, <1>6, ClaimedEnters
  <2>2. Quiet(c, c)
    BY DEF Quiet
  <2> HIDE DEF c
  <2> QED
    BY <1>4, <2>1, <2>2, QuietEnters
<1> QED
  BY <1>2, <1>3, <1>5, <1>6 DEF LockStep

\* A native turn is let in by the rules, or recorded as forced.
LEMMA AdoptedLock ==
  ASSUME NEW s, Sound(s), NEW t \in Task, t \notin Group
  PROVE  LockStep(s, Adopted(s, t))
<1> DEFINE k == Occupied(s, t)
           n == Adopted(s, t)
<1>1. n.lease = k.lease /\ n.forced = k.forced
  BY AdoptedAt DEF Adopts
<1>2. Quiet(k, n)
  BY <1>1, SameQuiet
<1> HIDE DEF n
<1>3. CASE s.lease[t] # "none"
  <2>1. k = s
    BY <1>3 DEF Occupied
  <2> QED
    BY <1>2, <2>1, QuietLets DEF LockStep, n
<1>4. CASE s.lease[t] = "none"
  <2>1. /\ Beside(s, k, t) /\ k.lease[t] = s.task[RootOf[t]].mode
        /\ k.forced[t] <=> ~Eligible(s, t, FALSE)
    <3>1. Beside(s, k, t) /\ k.lease[t] = s.task[RootOf[t]].mode
      BY <1>4, OccupiedAt
    <3>2. IF Eligible(s, t, FALSE) THEN ~k.forced[t] ELSE k.forced[t]
      BY <1>4, OccupiedAt
    <3> QED
      BY <3>1, <3>2
  <2> HIDE DEF k
  <2>2. \A u \in Task \ {t} : k.lease[u] = s.lease[u] /\ k.forced[u] = s.forced[u]
    BY <2>1 DEF Beside
  <2>3. CASE Eligible(s, t, FALSE)
    <3>1. Enters(s, k, t)
      BY <2>1, <2>2, <2>3, AdmittedEnters
    <3>2. Quiet(s, s)
      BY DEF Quiet
    <3>3. Enters(s, n, t)
      BY <1>1, <1>2, <3>1, <3>2, QuietEnters
    <3> QED
      BY <3>3 DEF LockStep, n
  <2>4. CASE ~Eligible(s, t, FALSE)
    <3>1. Lets(s, k)
      BY <2>1, <2>2, <2>4 DEF Lets, Hold
    <3> QED
      BY <1>2, <3>1, QuietLets, LetsThrough DEF LockStep, n
  <2> QED
    BY <2>3, <2>4
<1> QED
  BY <1>3, <1>4
-----------------------------------------------------------------------------
(* The steps.                                                              *)

LEMMA QueueingLock ==
  ASSUME Coherent(db), NEW t \in Task,
         \/ RunTask(t) \/ SubmitFeedback(t) \/ Retry(t) \/ QuotaResume(t)
         \/ Resume(t) \/ DispatchQueued(t) \/ DispatchTodo(t) \/ DispatchResumed(t)
  PROVE  LockStep(db, db')
<1>1. Sound(db) /\ Quiet(db, db)
  BY DEF Coherent, Quiet
<1>2. CASE \/ RunTask(t) \/ SubmitFeedback(t) \/ Retry(t) \/ QuotaResume(t)
  <2>1. \E prompted \in BOOLEAN : db' = Queue(db, t, prompted)
    BY <1>2 DEF RunTask, SubmitFeedback, Retry, QuotaResume
  <2> QED
    BY <1>1, <2>1, QueueLock
<1>3. CASE Resume(t) \/ DispatchResumed(t)
  <2>1. PICK k \in Row :
          /\ Coherent(Put(db, t, k))
          /\ \/ db' = Put(db, t, k)
             \/ \E prompted \in BOOLEAN : db' = Queue(Put(db, t, k), t, prompted)
    <3> DEFINE r == db.task[t]
    <3>1. r \in Row
      BY <1>1, RowOf
    <3>2. CASE Resume(t)
      <4> DEFINE k == [r EXCEPT !.paused = FALSE, !.conflict = FALSE]
      <4>1. \/ db' = Put(db, t, k)
            \/ db' = Queue(Put(db, t, k), t, r.turn # "none")
        BY <3>2 DEF Resume, row
      <4> HIDE DEF r
      <4>2. /\ k \in Row /\ k.turn = r.turn /\ k.run = r.run /\ k.status = r.status
            /\ k.merge = r.merge /\ k.worker = r.worker /\ k.result = r.result
            /\ k.mode = r.mode
        BY <3>1 DEF Row
      <4> HIDE DEF k
      <4>3. Coherent(Put(db, t, k))
        BY <4>2, PutAlikeCoherent DEF r
      <4> QED
        BY <4>1, <4>2, <4>3
    <3>3. CASE DispatchResumed(t)
      <4> DEFINE k == [r EXCEPT !.again = FALSE]
      <4>1. \/ db' = Put(db, t, k)
            \/ db' = Queue(Put(db, t, k), t, TRUE)
        BY <3>3 DEF DispatchResumed, row
      <4> HIDE DEF r
      <4>2. /\ k \in Row /\ k.turn = r.turn /\ k.run = r.run /\ k.status = r.status
            /\ k.merge = r.merge /\ k.worker = r.worker /\ k.result = r.result
            /\ k.mode = r.mode
        BY <3>1 DEF Row
      <4> HIDE DEF k
      <4>3. Coherent(Put(db, t, k))
        BY <4>2, PutAlikeCoherent DEF r
      <4> QED
        BY <4>1, <4>2, <4>3
    <3> QED
      BY <1>3, <3>2, <3>3
  <2>2. Quiet(db, Put(db, t, k))
    BY <1>1, PutQuiet
  <2> QED
    BY <2>1, <2>2, QuietLets, QueueLock DEF LockStep
<1>4. CASE DispatchQueued(t) \/ DispatchTodo(t)
  <2>1. Claimable(db, t) /\ db' = Claimed(db, t)
    BY <1>4 DEF DispatchQueued, DispatchTodo
  <2> QED
    BY <1>1, <2>1, ClaimedEnters DEF LockStep
<1> QED
  BY <1>2, <1>3, <1>4

LEMMA FollowUpLock ==
  ASSUME Coherent(db), NEW t \in Task,
         FollowUpQueued(t) \/ FollowUpStarted(t) \/ FollowUpRefused(t)
  PROVE  LockStep(db, db')
<1> DEFINE e == Enqueued(db, t, TRUE)
           c == Claimed(e, t)
           v == Reserve(e, t)
           w == [db.task[t] EXCEPT !.paused = FALSE]
<1>1. Sound(db) /\ Sound(e) /\ Quiet(db, e)
  BY EnqueuedSound, EnqueuedQuiet DEF Coherent
<1>2. \/ db' = e
      \/ Claimable(e, t) /\ db' = c
      \/ Claimable(e, t) /\ \E y : db' = Put(c, t, y)
      \/ /\ Claimable(e, t)
         /\ db' = GivenBack(FinishQueue(Release(Put(v, t, w), t), t), t,
                            db.task[t].status)
  BY DEF FollowUpQueued, FollowUpStarted, FollowUpRefused, TryClaim, row
<1>3. w \in Row
  <2> DEFINE r == db.task[t]
  <2>1. r \in Row
    BY <1>1, RowOf
  <2> HIDE DEF r
  <2>2. [r EXCEPT !.paused = FALSE] \in Row
    BY <2>1 DEF Row
  <2> QED
    BY <2>2 DEF r
<1> HIDE DEF e, w
<1>4. CASE db' = e
  BY <1>1, <1>4, QuietLets DEF LockStep
<1>5. ASSUME Claimable(e, t) PROVE Enters(e, c, t) /\ Sound(c)
  BY <1>1, <1>5, ClaimedEnters, ClaimedSound
<1>6. CASE Claimable(e, t) /\ (db' = c \/ \E y : db' = Put(c, t, y))
  <2>1. Quiet(c, db') /\ db'.forced[t] = c.forced[t]
    <3>1. CASE db' = c
      BY <3>1 DEF Quiet
    <3>2. CASE \E y : db' = Put(c, t, y)
      BY <1>5, <1>6, <3>2, PutQuiet, PutAt DEF SameLease
    <3> QED
      BY <1>6, <3>1, <3>2
  <2> HIDE DEF c
  <2>2. Enters(db, db', t)
    BY <1>1, <1>5, <1>6, <2>1, QuietEnters
  <2> QED
    BY <2>2 DEF LockStep
<1>7. CASE /\ Claimable(e, t)
           /\ db' = GivenBack(FinishQueue(Release(Put(v, t, w), t), t), t,
                              db.task[t].status)
  <2> DEFINE p == Put(v, t, w)
             k == Release(p, t)
             f == FinishQueue(k, t)
  <2>1. Sound(v) /\ Quiet(e, v)
    <3>1. Sound(v)
      BY <1>1, <1>7, EligibleAdmits, ReserveSound DEF Claimable
    <3>2. v.lease = e.lease /\ v.forced = e.forced
      BY <1>1, ReserveAt
    <3> QED
      BY <3>1, <3>2, SameQuiet
  <2> HIDE DEF v
  <2>2. Sound(p) /\ Quiet(v, p)
    BY <1>3, <2>1, PutSound, PutQuiet
  <2> HIDE DEF p
  <2>3. Sound(k) /\ Lets(p, k)
    BY <2>2, ReleaseSound, ReleaseAt, OnlyLets
  <2> HIDE DEF k
  <2>4. Sound(f) /\ Quiet(k, f)
    <3>1. Only(k, f, t) /\ SameLease(k, f, t)
      BY <2>3, FinishQueueAt
    <3> QED
      BY <2>3, <3>1, FinishQueueSound, OnlyQuiet
  <2> HIDE DEF f
  <2>5. Lets(f, db')
    <3>1. Only(f, db', t) /\ (SameLease(f, db', t) \/ NoLease(db', t))
      BY <1>7, <2>4, GivenBackAt DEF f, k, p
    <3> QED
      BY <3>1, OnlyQuiet, OnlyLets, QuietLets
  <2>6. Lets(db, p)
    BY <1>1, <2>1, <2>2, QuietThrough, QuietLets
  <2>7. Lets(db, f)
    BY <2>3, <2>4, <2>6, QuietLets, LetsThrough
  <2> QED
    BY <2>5, <2>7, LetsThrough DEF LockStep
<1> QED
  BY <1>2, <1>4, <1>6, <1>7

LEMMA EndingLock ==
  ASSUME Sound(db), NEW t \in Task,
         \/ Finish(t) \/ InterruptRequeue(t) \/ Pause(t) \/ PauseUnconfirmed(t)
         \/ CancelManaged(t)
  PROVE  Lets(db, db')
<1> DEFINE i == Interrupted(db, t)
           halted == PauseConfirmed(db, t)
<1>1. Sound(i) /\ Quiet(db, i)
  BY InterruptedSound, InterruptedAt, OnlyQuiet
<1>2. Sound(halted) /\ Lets(db, halted)
  <2>1. \A u \in Task : SameLease(db, halted, u) \/ NoLease(halted, u)
    BY PauseConfirmedAt
  <2>2. Sound(halted)
    BY PauseConfirmedSound
  <2> HIDE DEF halted
  <2> QED
    BY <2>1, <2>2 DEF SameLease, NoLease, Lets, Hold
<1>3. "todo" \in Status /\ "done" \in Status /\ "canceled" \in Status
      /\ "in_review" \in Status /\ "none" \in RunState
  BY DEF Status, RunState
<1>4. Quiet(db, db)
  BY DEF Quiet
<1>5. CASE Finish(t)
  <2>1. PICK target \in Status, s \in {i, db} : db' = Moved(s, t, target, "none")
    BY <1>3, <1>5 DEF Finish
  <2> HIDE DEF i
  <2> QED
    BY <1>1, <1>3, <1>4, <2>1, MovedLets, QuietLets, LetsThrough
<1>6. CASE InterruptRequeue(t)
  <2> DEFINE s == Moved(i, t, "todo", "none")
  <2>1. \E r : db' = Put(s, t, r)
    BY <1>6 DEF InterruptRequeue
  <2>2. Sound(s) /\ Lets(i, s)
    BY <1>1, <1>3, MovedSound, MovedLets
  <2> HIDE DEF i, s
  <2> QED
    BY <1>1, <2>1, <2>2, PutQuiet, QuietLets, LetsThrough
<1>7. CASE Pause(t)
  BY <1>2, <1>7 DEF Pause
<1>8. CASE PauseUnconfirmed(t)
  <2> DEFINE s == PauseMarked(db, t)
  <2>1. \E reached, interrupted : db' = PauseHalted(s, reached, interrupted)
    BY <1>8 DEF PauseUnconfirmed
  <2>2. Sound(s) /\ Quiet(db, s)
    BY PauseMarkedSound, PutQuiet DEF PauseMarked
  <2> HIDE DEF s
  <2>3. Quiet(s, db')
    BY <2>1, <2>2, PauseHaltedAt, SameQuiet
  <2> QED
    BY <2>2, <2>3, QuietThrough, QuietLets
<1>9. CASE CancelManaged(t)
  <2>1. \E closed : db' = Shut(halted, closed)
    BY <1>9, CancelManagedAt
  <2> HIDE DEF halted
  <2>2. Quiet(halted, db')
    BY <1>2, <2>1, ShutAt, SameQuiet
  <2> QED
    BY <1>2, <2>2, QuietLets, LetsThrough
<1> QED
  BY <1>5, <1>6, <1>7, <1>8, <1>9

LEMMA GroupLock ==
  ASSUME Sound(db), NEW t \in Task,
         \/ GroupSubmit(t) \/ RunGroup(t) \/ DispatchGroup(t) \/ DispatchSettle(t)
         \/ GroupPrepared(t) \/ GroupPrepareFails(t)
  PROVE  Lets(db, db')
<1>1. ASSUME NEW s, Sound(s) PROVE Quiet(s, GroupStarted(s, t))
  BY <1>1, GroupStartedAt, SameQuiet
<1>2. CASE GroupSubmit(t)
  <2> DEFINE s == Moved(db, t, "todo", "none")
             n == Submitted(s, t)
  <2>1. t \in Group /\ (db' = n \/ db' = GroupStarted(n, t))
    BY <1>2, GroupSubmitAt
  <2>2. Sound(s) /\ Lets(db, s)
    BY MovedSound, MovedLets DEF Status, RunState
  <2> HIDE DEF s
  <2>3. Sound(n) /\ n.lease = s.lease /\ n.forced = s.forced
    BY <2>1, <2>2, SubmittedAt
  <2>4. Quiet(s, n)
    BY <2>3, SameQuiet
  <2> HIDE DEF n
  <2>5. Lets(db, n)
    BY <2>2, <2>4, QuietLets, LetsThrough
  <2> QED
    BY <1>1, <2>1, <2>3, <2>5, QuietLets, LetsThrough
<1>3. CASE RunGroup(t) \/ DispatchGroup(t)
  BY <1>1, <1>3, QuietLets DEF RunGroup, DispatchGroup
<1>4. CASE DispatchSettle(t)
  <2> DEFINE n == GroupSettled(db, t)
  <2>1. n = db \/ (Only(db, n, t) /\ NoLease(n, t))
    BY GroupSettledAt
  <2>2. db' = n
    BY <1>4 DEF DispatchSettle
  <2> HIDE DEF n
  <2> QED
    BY <2>1, <2>2, OnlyLets DEF Lets
<1>5. CASE GroupPrepared(t)
  <2>1. \E r : db' = Put(db, t, r)
    BY <1>5 DEF GroupPrepared
  <2> QED
    BY <2>1, PutQuiet, QuietLets
<1>6. CASE GroupPrepareFails(t)
  <2> DEFINE s == ReleaseAll(db, t)
  <2>1. \E r : db' = Put(s, t, r)
    BY <1>6 DEF GroupPrepareFails
  <2>2. Sound(s) /\ Lets(db, s)
    BY ReleaseAllSound, ReleaseAllAt, OnlyLets
  <2> HIDE DEF s
  <2> QED
    BY <2>1, <2>2, PutQuiet, QuietLets, LetsThrough
<1> QED
  BY <1>2, <1>3, <1>4, <1>5, <1>6

LEMMA WritingLock ==
  ASSUME Sound(db), NEW t \in Task,
         \/ SetDraft(t) \/ EditMode(t) \/ EditScopes(t) \/ Approve(t)
         \/ Started(t) \/ EndsUnobserved(t) \/ Reconnect(t)
         \/ MergeSuperseded(t) \/ MergeFails(t)
  PROVE  Lets(db, db')
<1>1. CASE \/ SetDraft(t) \/ EditMode(t) \/ EditScopes(t) \/ Approve(t)
  <2>1. \E r : db' = Put(db, t, r)
    BY <1>1 DEF SetDraft, EditMode, EditScopes, Approve
  <2> QED
    BY <2>1, PutQuiet, QuietLets
<1>2. CASE \/ Started(t) \/ EndsUnobserved(t) \/ Reconnect(t)
           \/ MergeSuperseded(t) \/ MergeFails(t)
  <2>1. \E r : db' = Put(db, t, r)
    BY <1>2 DEF Started, EndsUnobserved, Reconnect, Reattached, MergeSuperseded,
                MergeFails
  <2> QED
    BY <2>1, PutQuiet, QuietLets
<1> QED
  BY <1>1, <1>2

LEMMA TurnLock ==
  ASSUME Sound(db), NEW t \in Task,
         \/ StartFails(t) \/ Completes(t) \/ Fails(t) \/ QuotaWait(t)
         \/ ConnectionLost(t) \/ Reevaluate(t) \/ ReevaluateFails(t) \/ NativeEnded(t)
  PROVE  Lets(db, db')
<1>1. ASSUME NEW s, Sound(s), NEW how \in Turn
      PROVE  Sound(TurnEnds(s, t, how)) /\ Lets(s, TurnEnds(s, t, how))
  BY <1>1, TurnEndsSound, TurnEndsQuiet, QuietLets
<1>2. "idle" \in Turn /\ "completed" \in Turn
  BY DEF Turn
<1>3. ASSUME NEW s, Sound(s), NEW how \in Turn
      PROVE  /\ Lets(s, Failed(TurnEnds(s, t, how), t))
             /\ \A outcome : Lets(s, Settled(TurnEnds(s, t, how), t, outcome))
  BY <1>1, <1>3, FailedLets, SettledLets, LetsThrough
<1>4. CASE StartFails(t)
  <2> DEFINE s == Put(db, t, [db.task[t] EXCEPT !.turn = "idle"])
  <2>1. PICK turn \in Turn : db' = Failed(Put(db, t, [db.task[t] EXCEPT !.turn = turn]), t)
    <3>1. db.task[t] \in Row
      BY RowOf
    <3>2. db.task[t].turn \in Turn
      BY <3>1 DEF Row
    <3> QED
      BY <1>2, <1>4, <3>2 DEF StartFails, row
  <2> DEFINE r == db.task[t]
             k == [r EXCEPT !.turn = turn]
             p == Put(db, t, k)
  <2>2. r \in Row
    BY RowOf
  <2> HIDE DEF r
  <2>3. k \in Row
    BY <2>2 DEF Row
  <2> HIDE DEF k
  <2>4. Sound(p) /\ Lets(db, p)
    BY <2>3, PutSound, PutQuiet, QuietLets
  <2>5. db' = Failed(p, t)
    BY <2>1 DEF k, r
  <2> HIDE DEF p
  <2> QED
    BY <2>4, <2>5, FailedLets, LetsThrough
<1>5. CASE Completes(t) \/ Reevaluate(t)
  <2>1. \E outcome : db' = Settled(TurnEnds(db, t, "completed"), t, outcome)
    BY <1>5 DEF Completes, Reevaluate
  <2> QED
    BY <1>2, <1>3, <2>1
<1>6. CASE Fails(t) \/ ReevaluateFails(t)
  <2>1. db' = Failed(TurnEnds(db, t, "idle"), t)
    BY <1>6 DEF Fails, ReevaluateFails
  <2> QED
    BY <1>2, <1>3, <2>1
<1>7. CASE QuotaWait(t)
  <2> DEFINE e == TurnEnds(db, t, "idle")
             s == Failed(e, t)
  <2>1. \E r : db' = Put(s, t, r)
    BY <1>7 DEF QuotaWait
  <2>2. Lets(db, s)
    BY <1>2, <1>3
  <2>3. Sound(e)
    BY <1>1, <1>2
  <2> HIDE DEF e
  <2>4. Sound(s)
    BY <2>3, FailedSound
  <2> HIDE DEF s
  <2> QED
    BY <2>1, <2>2, <2>4, PutQuiet, QuietLets, LetsThrough
<1>8. CASE ConnectionLost(t)
  <2> DEFINE r == db.task[t]
             k == [r EXCEPT !.run = "failed", !.conflict = TRUE]
             p == Put(db, t, k)
  <2>1. db' = FinishQueue(p, t)
    BY <1>8 DEF ConnectionLost, row
  <2>2. r \in Row
    BY RowOf
  <2> HIDE DEF r
  <2>3. k \in Row
    BY <2>2 DEF Row, RunState
  <2> HIDE DEF k
  <2>4. Sound(p) /\ Lets(db, p)
    BY <2>3, PutSound, PutQuiet, QuietLets
  <2> HIDE DEF p
  <2>5. Only(p, db', t) /\ SameLease(p, db', t)
    BY <2>1, <2>4, FinishQueueAt
  <2> QED
    BY <2>4, <2>5, OnlyQuiet, QuietLets, LetsThrough
<1>9. CASE NativeEnded(t)
  <2> DEFINE r == db.task[t]
             k == [r EXCEPT !.status = "in_progress", !.run = "running"]
             p == Put(db, t, k)
  <2>1. \/ \E x : db' = Put(p, t, x)
        \/ db' = Failed(TurnEnds(p, t, "idle"), t)
        \/ \E outcome : db' = Settled(TurnEnds(p, t, "completed"), t, outcome)
    BY <1>9 DEF NativeEnded, row
  <2>2. r \in Row
    BY RowOf
  <2> HIDE DEF r
  <2>3. k \in Row
    BY <2>2 DEF Row, RunState, Status
  <2> HIDE DEF k
  <2>4. Sound(p) /\ Lets(db, p)
    BY <2>3, PutSound, PutQuiet, QuietLets
  <2> HIDE DEF p
  <2>5. Lets(p, db')
    BY <1>2, <1>3, <2>1, <2>4, PutQuiet, QuietLets
  <2> QED
    BY <2>4, <2>5, LetsThrough
<1> QED
  BY <1>4, <1>5, <1>6, <1>7, <1>8, <1>9

LEMMA MergingLock ==
  ASSUME Sound(db), NEW t \in Task, MergePrepare(t) \/ MergePublish(t)
  PROVE  Lets(db, db')
<1>1. CASE MergePrepare(t)
  <2> DEFINE v == ReserveScopes(db, t)
  <2>1. \E r : db' = Put(db, t, r) \/ (ScopesFree(db, t) /\ db' = Put(v, t, r))
    BY <1>1 DEF MergePrepare
  <2>2. ScopesFree(db, t) => Sound(v)
    BY ReserveScopesSound
  <2>3. Quiet(db, v)
    BY ReserveScopesAt, SameQuiet
  <2> HIDE DEF v
  <2> QED
    BY <2>1, <2>2, <2>3, PutQuiet, QuietThrough, QuietLets
<1>2. CASE MergePublish(t)
  <2> DEFINE s == Integrates(db, t)
             g == RootOf[t]
             n == GroupSettled(s, g)
  <2>1. db' = IF IsChild(t) THEN n ELSE s
    BY <1>2 DEF MergePublish, Integrates
  <2>2. Sound(s) /\ Lets(db, s)
    BY IntegratesAt, OnlyLets
  <2>3. g \in Task
    BY OwnersAreTasks
  <2> HIDE DEF s, g
  <2>4. n = s \/ (Only(s, n, g) /\ NoLease(n, g))
    BY <2>2, <2>3, GroupSettledAt
  <2> HIDE DEF n
  <2>5. Lets(s, n)
    BY <2>3, <2>4, OnlyLets DEF Lets
  <2> QED
    BY <2>1, <2>2, <2>5, LetsThrough
<1> QED
  BY <1>1, <1>2

\* Every step of the board is a step of the lock, or keeps its holders.
LEMMA NextLock ==
  ASSUME Coherent(db), [Next]_vars
  PROVE  LockStep(db, db')
<1>1. Sound(db)
  BY DEF Coherent
<1>2. CASE UNCHANGED vars
  BY <1>2 DEF vars, LockStep, Lets
<1>3. CASE Next
  <2>1. PICK t \in Task : UserAction(t) \/ LoopAction(t) \/ CodexAction(t)
    BY <1>3 DEF Next
  <2>2. CASE UserAction(t)
    BY <1>1, <2>2, QueueingLock, FollowUpLock, EndingLock, GroupLock, WritingLock
    DEF UserAction, LockStep
  <2>3. CASE LoopAction(t)
    BY <1>1, <2>3, QueueingLock, GroupLock, WritingLock, TurnLock
    DEF LoopAction, LockStep
  <2>4. CASE CodexAction(t)
    <3>1. CASE AdoptNative(t)
      <4>1. t \notin Group
        BY <3>1 DEF AdoptNative, row, Coherent, FitsIn, Fits, IdleRow
      <4> QED
        BY <1>1, <3>1, <4>1, AdoptedLock DEF AdoptNative
    <3>2. CASE ~AdoptNative(t)
      BY <1>1, <2>4, <3>2, WritingLock, TurnLock, GroupLock, MergingLock
      DEF CodexAction, LockStep
    <3> QED
      BY <3>1, <3>2
  <2> QED
    BY <2>1, <2>2, <2>3, <2>4
<1> QED
  BY <1>2, <1>3

\* A lock step of the tables is one of the lock.
LEMMA LockMaps ==
  ASSUME db \in Tables, db' \in Tables, LockStep(db, db')
  PROVE  [Lock!Next]_[t \in Task |-> IF db.forced[t] THEN "none" ELSE db.lease[t]]
<1> DEFINE h == [t \in Task |-> IF db.forced[t] THEN "none" ELSE db.lease[t]]
           k == [t \in Task |-> IF db'.forced[t] THEN "none" ELSE db'.lease[t]]
<1>1. \A u \in Task : h[u] = Hold(db, u) /\ k[u] = Hold(db', u)
  BY DEF Hold
<1>2. k \in [Task -> {"none", "exclusive", "parallel"}]
  BY DEF Tables, Mode
<1>3. CASE Lets(db, db')
  <2>1. \A u \in Task : k[u] \in {"none", h[u]}
    BY <1>1, <1>3 DEF Lets
  <2>2. Lock!Leave
    BY <1>2, <2>1 DEF Lock!Leave, Lock!Free
  <2> QED
    BY <2>2 DEF Lock!Next
<1>4. CASE \E t \in Task : Enters(db, db', t)
  <2>1. PICK t \in Task : Enters(db, db', t)
    BY <1>4
  <2>2. PICK m \in {"exclusive", "parallel"} : db'.lease[t] = m /\ k[t] = m
    BY <2>1 DEF Enters, Mode
  <2>3. \A u \in Task \ {t} : k[u] = h[u]
    BY <1>1, <2>1 DEF Enters
  <2>4. ASSUME NEW o \in Task \ {t} PROVE Lock!Compatible(t, m, o)
    BY <2>1, <2>2 DEF Enters, Lock!Compatible, Lock!Free, SameRepo
  <2>5. k = [h EXCEPT ![t] = m]
    <3>1. \A u \in Task : k[u] = [h EXCEPT ![t] = m][u]
      BY <2>2, <2>3
    <3> QED
      BY <3>1
  <2>6. Lock!Enter(t, m)
    BY <2>4, <2>5 DEF Lock!Enter
  <2> QED
    BY <2>6 DEF Lock!Next
<1> QED
  BY <1>3, <1>4 DEF LockStep

\* The leases granted by dispatch implement a readers-writer lock per
\* repository, through follow-ups, native turns, pauses and failures.
THEOREM LockImplemented == Spec => LockSpec
<1>1. Init => Lock!Init
  BY DEF Init, Created, Lock!Init, Lock!Free
<1>2. Coherent(db) /\ Coherent(db)' /\ [Next]_vars =>
        [Lock!Next]_[t \in Task |-> IF db.forced[t] THEN "none" ELSE db.lease[t]]
  <2> SUFFICES ASSUME Coherent(db), Coherent(db)', [Next]_vars
      PROVE  [Lock!Next]_[t \in Task |-> IF db.forced[t] THEN "none" ELSE db.lease[t]]
    OBVIOUS
  <2>1. db \in Tables /\ db' \in Tables
    BY DEF Coherent, Sound
  <2> QED
    BY <2>1, NextLock, LockMaps
<1> QED
  BY <1>1, <1>2, AlwaysCoherent, PTL DEF Spec, LockSpec, Lock!Spec

\* What is let in by a lock step is within the budget afterwards.
LEMMA LockStepInBudget ==
  ASSUME db \in Tables, LockStep(db, db'), NEW t \in Task,
         db.lease[t] = "none", db'.lease[t] # "none", ~db'.forced[t],
         Budget[RepoOf[t]] > 0
  PROVE  Cardinality({o \in Task : SameRepo(o, t) /\ db'.lease[o] # "none"})
           <= Budget[RepoOf[t]]
<1> DEFINE before == {o \in Task \ {t} : SameRepo(o, t) /\ db.lease[o] # "none"}
           after == {o \in Task : SameRepo(o, t) /\ db'.lease[o] # "none"}
<1>1. Hold(db, t) = "none" /\ Hold(db', t) # "none"
  BY DEF Hold
<1>2. Enters(db, db', t)
  BY <1>1 DEF LockStep, Lets, Enters
<1>3. after = before \cup {t}
  BY <1>2 DEF Enters, SameRepo
<1>4. Cardinality(before) < Budget[RepoOf[t]]
  BY <1>2 DEF Enters, WithinBudget
<1>5. IsFiniteSet(before) /\ t \notin before
  BY BudgetAssumption, FS_Subset
<1> HIDE DEF before, after
<1>6. Cardinality(after) = Cardinality(before) + 1 /\ Cardinality(before) \in Nat
  BY <1>3, <1>5, FS_AddElement, FS_CardinalityType
<1>7. Cardinality(after) <= Budget[RepoOf[t]]
  BY <1>4, <1>6, BudgetAssumption
<1> QED
  BY <1>7 DEF after

\* However a task comes to run - dispatched, followed up or adopted within the
\* rules - its repository runs no more tasks than its projects allow.
THEOREM BudgetIsKept == Spec => BudgetKept
<1> DEFINE Kept ==
      \A t \in Task :
        /\ db.lease[t] = "none" /\ db'.lease[t] # "none" /\ ~db'.forced[t]
        /\ Budget[RepoOf[t]] > 0
        => Cardinality({o \in Task : SameRepo(o, t) /\ db'.lease[o] # "none"})
             <= Budget[RepoOf[t]]
<1>1. Coherent(db) /\ [Next]_vars => Kept
  BY NextLock, LockStepInBudget DEF Coherent, Sound
<1>2. Coherent(db) /\ [Next]_vars => [Kept]_vars
  BY <1>1
<1> QED
  BY <1>2, AlwaysCoherent, PTL DEF Spec, BudgetKept

-----------------------------------------------------------------------------

\* No user confirms a blocked merge again, no native turn goes unseen.
Regular == NoMergeRetry /\ NoMissed

\* The group has started and is not being stopped.
OpenIn(s, g) == s.task[g].phase = "submitted" /\ s.task[g].status = "in_progress"

\* u holds every resource it declared.
Covers(s, u) == NeedsOf(u) \subseteq s.resource[u]

\* A managed task is closed by its merge, an awaited result keeps its claims.
Durable(s, n, u) ==
  /\ Managed(n, u) /\ s.task[u].status # "done" /\ n.task[u].status = "done" =>
       s.task[u].merge = "merging" /\ n.task[u].merge = "merged"
  /\ Awaiting(s, u) /\ Awaiting(n, u) =>
       /\ s.scope[u] \subseteq n.scope[u] \/ n.scope[u] = ScopesOf(s, u)
       /\ s.resource[u] \subseteq n.resource[u]

\* No result loses its validity, no group enters review unless it is complete.
Valid(s, n, u) ==
  /\ u \notin Group /\ s.task[u].merge = "merged" => n.task[u].merge = "merged"
  /\ n.task[u].stale => s.task[u].stale
  /\ u \in Group /\ n.task[u].merge \notin {"none", "blocked"} =>
       s.task[u].merge \notin {"none", "blocked"} \/ Integrated(n, u)

AllValid(s, n) == \A u \in Task : Valid(s, n, u)

\* t is worked on again: its consumers are marked, its group leaves review.
Reworks(s, n, t) ==
  /\ \A u \in Task \ {t} :
       /\ u \notin Group /\ s.task[u].merge = "merged" => n.task[u].merge = "merged"
       /\ n.task[u].stale => s.task[u].stale \/ u \in Downstream(t)
       /\ ToMark(s, t, u) => n.task[u].stale
       /\ u \in Group /\ n.task[u].merge \notin {"none", "blocked"} =>
            s.task[u].merge \notin {"none", "blocked"}
  /\ IsChild(t) => n.task[RootOf[t]].merge = "none"

\* Whoever is let in, and whoever may let others in, owns its resources.
Owning(s, n, u) ==
  /\ Hold(n, u) # "none" =>
       \/ Hold(s, u) # "none" /\ s.resource[u] \subseteq n.resource[u]
       \/ \A o \in Owners(u) : Covers(n, o)
  /\ u \in Group =>
       /\ \/ s.resource[u] \subseteq n.resource[u]
          \/ /\ ~OpenIn(n, u)
             /\ ~n.task[u].prepared \/ \A c \in Children(u) : Hold(n, c) = "none"
       /\ OpenIn(n, u) => OpenIn(s, u) \/ Covers(n, u)
       /\ n.task[u].prepared => s.task[u].prepared \/ Covers(n, u)

\* What every step of the board is, seen from the tables.
Delivers(s, n) ==
  /\ \A u \in Task : Durable(s, n, u)
  /\ Regular => \A u \in Task : Owning(s, n, u)
  /\ Regular => AllValid(s, n) \/ \E t \in Task \ Group : Reworks(s, n, t)

\* The reviews of groups are complete, and executions own their resources.
Complete(s) ==
  \A g \in Task \cap Group : s.task[g].merge \notin {"none", "blocked"} => Integrated(s, g)

Owned(s) ==
  \A u \in Task :
    /\ Hold(s, u) # "none" =>
         Covers(s, u) /\ (IsChild(u) /\ s.task[RootOf[u]].prepared => Covers(s, RootOf[u]))
    /\ u \in Group /\ OpenIn(s, u) => Covers(s, u)

\* Consumers are tasks of the same level of the board.
LEMMA ConsumersApart ==
  ASSUME NEW t \in Task, NEW d \in Downstream(t)
  PROVE  d \in Task \ {t} /\ (IsChild(d) <=> IsChild(t)) /\ (IsChild(t) => RootOf[d] = RootOf[t])
<1> DEFINE S == {e \in Task : IF IsChild(t) THEN IsChild(e) /\ RootOf[e] = RootOf[t]
                                           ELSE ~IsChild(e)}
           Closed(T) == \A e \in Task : Blockers[e] \cap (T \cup {t}) # {} => e \in T
<1>1. Downstream(t) = {e \in Task : \A T \in SUBSET Task : Closed(T) => e \in T}
  BY DEF Downstream, Consumers
<1>2. ASSUME NEW e \in Task, NEW b \in Blockers[e], b \in S \cup {t} PROVE e \in S
  BY <1>2, DependencyAssumption, TaskAssumption
<1>3. Closed(S) /\ S \in SUBSET Task
  BY <1>2
<1>4. d \in S /\ d \in Task
  BY <1>1, <1>3
<1>5. d # t
  BY DependencyAssumption DEF Downstream
<1> QED
  BY <1>4, <1>5

\* Steps of the board keep reviews complete.
LEMMA DeliversComplete ==
  ASSUME NEW s, NEW n, Delivers(s, n), Complete(s), Regular
  PROVE  Complete(n)
<1> SUFFICES ASSUME NEW g \in Task \cap Group, n.task[g].merge \notin {"none", "blocked"}
    PROVE  Integrated(n, g)
  BY DEF Complete
<1>1. \A c \in Children(g) : c \in Task /\ c \notin Group /\ IsChild(c) /\ RootOf[c] = g
  BY ChildrenApart DEF Children
<1>2. CASE AllValid(s, n)
  <2>1. CASE s.task[g].merge \notin {"none", "blocked"}
    BY <1>1, <1>2, <2>1 DEF AllValid, Valid, Complete, Integrated
  <2>2. CASE s.task[g].merge \in {"none", "blocked"}
    BY <1>2, <2>2 DEF AllValid, Valid
  <2> QED
    BY <2>1, <2>2
<1>3. CASE \E t \in Task \ Group : Reworks(s, n, t)
  <2>1. PICK t \in Task \ Group : Reworks(s, n, t)
    BY <1>3
  <2>2. ~(IsChild(t) /\ RootOf[t] = g) /\ g # t
    BY <2>1 DEF Reworks
  <2>3. Integrated(s, g)
    BY <2>1, <2>2 DEF Reworks, Complete
  <2>4. ASSUME NEW c \in Children(g) PROVE n.task[c].merge = "merged" /\ ~n.task[c].stale
    <3>1. c # t /\ c \notin Downstream(t)
      BY <1>1, <2>2, ConsumersApart
    <3> QED
      BY <1>1, <2>1, <2>3, <3>1 DEF Reworks, Integrated
  <2> QED
    BY <2>4 DEF Integrated
<1> QED
  BY <1>2, <1>3 DEF Delivers

\* Steps of the board leave what runs its resources.
LEMMA DeliversOwned ==
  ASSUME NEW s, NEW n, Delivers(s, n), Owned(s), Regular
  PROVE  Owned(n)
<1> SUFFICES ASSUME NEW u \in Task
    PROVE  /\ Hold(n, u) # "none" =>
                /\ Covers(n, u)
                /\ IsChild(u) /\ n.task[RootOf[u]].prepared => Covers(n, RootOf[u])
           /\ u \in Group /\ OpenIn(n, u) => Covers(n, u)
  BY DEF Owned
<1>1. \A v \in Task : Owning(s, n, v)
  BY DEF Delivers
<1>2. ASSUME Hold(n, u) # "none" PROVE Covers(n, u)
  BY <1>1, <1>2 DEF Owning, Owned, Covers, Owners
<1>3. ASSUME Hold(n, u) # "none", IsChild(u), n.task[RootOf[u]].prepared
      PROVE  Covers(n, RootOf[u])
  <2> DEFINE g == RootOf[u]
  <2>1. g \in Task /\ g \in Group /\ u \in Children(g)
    BY <1>3, ChildrenApart DEF Children
  <2> HIDE DEF g
  <2>2. s.resource[g] \subseteq n.resource[g]
    BY <1>1, <1>3, <2>1 DEF Owning, g
  <2>3. CASE Hold(s, u) # "none" /\ s.task[g].prepared
    BY <1>3, <2>2, <2>3 DEF Owned, Covers, g
  <2>4. CASE ~(Hold(s, u) # "none" /\ s.task[g].prepared)
    BY <1>1, <1>3, <2>1, <2>4 DEF Owning, Owners, g
  <2> QED
    BY <2>3, <2>4 DEF g
<1>4. ASSUME u \in Group, OpenIn(n, u) PROVE Covers(n, u)
  BY <1>1, <1>4 DEF Owning, Owned, Covers
<1> QED
  BY <1>2, <1>3, <1>4
-----------------------------------------------------------------------------
(* Ordinary steps: nothing is delivered, dropped, let in or opened.         *)

\* The row r of u becomes k in an ordinary step.
Alike(u, r, k) ==
  /\ k.status = "done" => r.status = "done"
  /\ k.prepared => r.prepared
  /\ u \in Group /\ k.phase = "submitted" /\ k.status = "in_progress" =>
       r.phase = "submitted" /\ r.status = "in_progress"
  /\ Regular =>
       /\ u \notin Group /\ r.merge = "merged" => k.merge = "merged"
       /\ k.stale => r.stale
       /\ u \in Group /\ k.merge \notin {"none", "blocked"} =>
            r.merge \notin {"none", "blocked"}

\* Apart from leases and validity.
Loose(s, n, u) ==
  /\ n.task[u].status = "done" => s.task[u].status = "done"
  /\ n.task[u].prepared => s.task[u].prepared
  /\ u \in Group /\ OpenIn(n, u) => OpenIn(s, u)
  /\ n.scope[u] \in {s.scope[u], ScopesOf(s, u)}
  /\ s.resource[u] \subseteq n.resource[u]

\* Apart from validity, which reworks touch too.
Plain(s, n, u) == Loose(s, n, u) /\ Hold(n, u) \in {"none", Hold(s, u)}

\* A transaction that writes the row of t and may drop its lease.
Writes(s, n, t) ==
  /\ Only(s, n, t) /\ Alike(t, s.task[t], n.task[t])
  /\ SameReserved(s, n, t) /\ Hold(n, t) \in {"none", Hold(s, t)}

LEMMA PlainDurable ==
  ASSUME NEW s, NEW n, NEW u \in Task, Plain(s, n, u)
  PROVE  Durable(s, n, u) /\ Owning(s, n, u)
BY DEF Plain, Loose, Durable, Owning

LEMMA ValidThrough ==
  ASSUME NEW s, NEW k, NEW n, AllValid(s, k), AllValid(k, n)
  PROVE  AllValid(s, n)
<1> SUFFICES ASSUME NEW u \in Task PROVE Valid(s, n, u)
  BY DEF AllValid
<1>1. ASSUME u \in Group, Integrated(k, u) PROVE Integrated(n, u)
  <2>1. \A c \in Children(u) : c \in Task /\ c \notin Group
    BY ChildrenApart DEF Children
  <2> QED
    BY <1>1, <2>1 DEF Integrated, AllValid, Valid
<1>2. Valid(s, k, u) /\ Valid(k, n, u)
  BY DEF AllValid
<1> QED
  BY <1>1, <1>2 DEF Valid

LEMMA WritesThrough ==
  ASSUME NEW s, NEW k, NEW n, NEW t \in Task, Writes(s, k, t), Writes(k, n, t)
  PROVE  Writes(s, n, t)
<1>1. Only(s, n, t)
  BY OnlyTransitive DEF Writes
<1>2. Alike(t, s.task[t], n.task[t])
  BY DEF Writes, Alike
<1> QED
  BY <1>1, <1>2 DEF Writes, SameReserved

\* What a transaction about t leaves alone.
LEMMA OnlyPlain ==
  ASSUME NEW s, NEW n, NEW t \in Task, Only(s, n, t), NEW u \in Task \ {t}
  PROVE  Plain(s, n, u) /\ Valid(s, n, u)
BY DEF Only, Plain, Loose, Valid, OpenIn, Hold

\* A transaction about t is a step if it is one for t.
LEMMA OnlyDelivers ==
  ASSUME NEW s, NEW n, NEW t \in Task, Only(s, n, t), Durable(s, n, t),
         Regular => Owning(s, n, t) /\ Valid(s, n, t)
  PROVE  Delivers(s, n)
<1>1. \A u \in Task \ {t} : Durable(s, n, u) /\ Owning(s, n, u) /\ Valid(s, n, u)
  BY OnlyPlain, PlainDurable
<1> QED
  BY <1>1 DEF Delivers, AllValid

LEMMA WritesPlain ==
  ASSUME NEW s, NEW n, NEW t \in Task, Writes(s, n, t), NEW u \in Task
  PROVE  Plain(s, n, u) /\ (Regular => Valid(s, n, u))
<1>1. CASE u = t
  BY <1>1 DEF Writes, Alike, Plain, Loose, Valid, OpenIn, SameReserved
<1>2. CASE u # t
  BY <1>2, OnlyPlain DEF Writes
<1> QED
  BY <1>1, <1>2

LEMMA PlainDelivers ==
  ASSUME NEW s, NEW n, \A u \in Task : Plain(s, n, u), Regular => AllValid(s, n)
  PROVE  Delivers(s, n)
BY PlainDurable DEF Delivers

LEMMA WritesDelivers ==
  ASSUME NEW s, NEW n, NEW t \in Task, Writes(s, n, t)
  PROVE  Delivers(s, n)
BY WritesPlain, PlainDelivers DEF AllValid

\* Writing an ordinary row.
LEMMA PutWrites ==
  ASSUME NEW s, Sound(s), NEW t \in Task, NEW k, Alike(t, s.task[t], k)
  PROVE  Writes(s, Put(s, t, k), t)
<1> DEFINE n == Put(s, t, k)
<1>1. Only(s, n, t) /\ n.task[t] = k /\ SameLease(s, n, t) /\ SameReserved(s, n, t)
  BY PutAt
<1> HIDE DEF n
<1>2. Writes(s, n, t)
  BY <1>1 DEF Writes, SameLease, Hold
<1> QED
  BY <1>2 DEF n

\* The end of an execution that failed.
LEMMA FailedWrites ==
  ASSUME NEW s, Sound(s), NEW t \in Task
  PROVE  Writes(s, Failed(s, t), t)
<1> DEFINE n == Failed(s, t)
           r == s.task[t]
           k == n.task[t]
<1>1. /\ Only(s, n, t) /\ k = [r EXCEPT !.run = "failed"]
      /\ NoLease(n, t) /\ SameReserved(s, n, t)
  BY FailedAt
<1>2. r \in Row
  BY RowOf
<1> HIDE DEF n, r, k
<1>3. /\ k.status = r.status /\ k.prepared = r.prepared /\ k.phase = r.phase
      /\ k.merge = r.merge /\ k.stale = r.stale
  BY <1>1, <1>2 DEF Row
<1>4. Alike(t, r, k)
  BY <1>3 DEF Alike
<1> QED
  BY <1>1, <1>4 DEF Writes, NoLease, Hold, n, r, k

\* The end of a turn.
LEMMA TurnEndsWrites ==
  ASSUME NEW s, Sound(s), NEW t \in Task, NEW how
  PROVE  Writes(s, TurnEnds(s, t, how), t)
<1> DEFINE r == s.task[t]
           k == [r EXCEPT !.turn = how, !.conflict = FALSE]
<1>1. r \in Row
  BY RowOf
<1>2. TurnEnds(s, t, how) = Put(s, t, k)
  BY DEF TurnEnds
<1> HIDE DEF r
<1>3. /\ k.status = r.status /\ k.prepared = r.prepared /\ k.phase = r.phase
      /\ k.merge = r.merge /\ k.stale = r.stale
  BY <1>1 DEF Row
<1> HIDE DEF k
<1>4. Alike(t, r, k)
  BY <1>3 DEF Alike
<1> QED
  BY <1>2, <1>4, PutWrites DEF r

\* A task that is not merged by the board gives everything back.
LEMMA ClosedDelivers ==
  ASSUME NEW s, NEW n, NEW t \in Task, Only(s, n, t), t \notin Group, NoLease(n, t),
         ~Managed(n, t), n.task[t].merge = "none", s.task[t].merge = "none",
         n.task[t].stale => s.task[t].stale
  PROVE  Delivers(s, n)
<1>1. Durable(s, n, t)
  BY DEF Durable, Awaiting
<1>2. Owning(s, n, t) /\ Valid(s, n, t)
  BY DEF Owning, Valid, NoLease, Hold
<1> QED
  BY <1>1, <1>2, OnlyDelivers
-----------------------------------------------------------------------------
(* Writing rows, turns and their results.                                  *)

\* A row in which nothing that delivery reads differs is alike.
LEMMA SameAlike ==
  ASSUME NEW u, NEW r, NEW k, k.status \in {r.status, "todo", "in_review", "canceled"},
         k.prepared = r.prepared, k.phase = r.phase, k.merge = r.merge, k.stale = r.stale
  PROVE  Alike(u, r, k)
BY DEF Alike

\* Actions that write one row.
LEMMA WritingDelivers ==
  ASSUME Coherent(db), NEW t \in Task,
         \/ SetDraft(t) \/ EditMode(t) \/ EditScopes(t) \/ Approve(t)
         \/ Started(t) \/ EndsUnobserved(t) \/ Reconnect(t)
         \/ MergeSuperseded(t) \/ MergeFails(t)
  PROVE  Delivers(db, db')
<1> DEFINE r == db.task[t]
<1>1. Sound(db) /\ r \in Row /\ Fits(t, r, db.queue[t], db.lease[t])
  BY RowOf DEF Coherent, FitsIn
<1>2. SUFFICES \E k : db' = Put(db, t, k) /\ Alike(t, r, k)
  BY <1>1, PutWrites, WritesDelivers
<1>3. CASE SetDraft(t) \/ EditMode(t) \/ EditScopes(t) \/ Started(t) \/ EndsUnobserved(t)
  <2>1. PICK k :
          /\ db' = Put(db, t, k)
          /\ \/ k = [r EXCEPT !.draft = ~@]
             \/ \E m : k = [r EXCEPT !.mode = m, !.local = FALSE]
             \/ \E scopes : k = [r EXCEPT !.scopes = scopes]
             \/ k = [r EXCEPT !.run = "running", !.turn = "active"]
             \/ \E how : k = [r EXCEPT !.turn = how]
    BY <1>3 DEF SetDraft, EditMode, EditScopes, Started, EndsUnobserved, row
  <2> HIDE DEF r
  <2>2. /\ k.status = r.status /\ k.prepared = r.prepared /\ k.phase = r.phase
        /\ k.merge = r.merge /\ k.stale = r.stale
    BY <1>1, <2>1 DEF Row
  <2>3. Alike(t, r, k)
    BY <2>2, SameAlike
  <2> QED
    BY <2>1, <2>3
<1>4. CASE Reconnect(t)
  <2> DEFINE k == [r EXCEPT !.status = "in_progress", !.run = "running"]
  <2>1. db' = Put(db, t, k) /\ r.status = "in_progress"
    BY <1>4 DEF Reconnect, Reattached, row
  <2> HIDE DEF r
  <2>2. /\ k.status = r.status /\ k.prepared = r.prepared /\ k.phase = r.phase
        /\ k.merge = r.merge /\ k.stale = r.stale
    BY <1>1, <2>1 DEF Row
  <2> HIDE DEF k
  <2>3. Alike(t, r, k)
    BY <2>2, SameAlike
  <2> QED
    BY <2>1, <2>3 DEF k
<1>5. CASE Approve(t) \/ MergeSuperseded(t) \/ MergeFails(t)
  <2>1. PICK merge \in {"queued", "blocked"}, worker \in BOOLEAN :
          /\ db' = Put(db, t, [r EXCEPT !.merge = merge, !.worker = worker])
          /\ Regular => r.merge # "merged"
          /\ Regular /\ merge = "queued" => r.merge \in {"pending_review", "merging"}
    <3>1. CASE Approve(t)
      <4>1. db' = Put(db, t, [r EXCEPT !.merge = "queued"])
        BY <3>1 DEF Approve, row
      <4>2. [r EXCEPT !.merge = "queued"] = [r EXCEPT !.merge = "queued", !.worker = r.worker]
        <5> HIDE DEF r
        <5> QED
          BY <1>1 DEF Row
      <4>3. r.worker \in BOOLEAN
        BY <1>1 DEF Row
      <4>4. NoMergeRetry => r.merge = "pending_review"
        BY <3>1 DEF Approve, May, NoMergeRetry, row
      <4> QED
        BY <4>1, <4>2, <4>3, <4>4 DEF Regular
    <3>2. CASE MergeSuperseded(t)
      BY <3>2 DEF MergeSuperseded, MayPublish, row
    <3>3. CASE MergeFails(t)
      <4>1. Regular => r.merge # "merged"
        BY <1>1, <3>3 DEF MergeFails, row, Fits, MergedRow, Regular
      <4> QED
        BY <3>3, <4>1 DEF MergeFails, row
    <3> QED
      BY <1>5, <3>1, <3>2, <3>3
  <2> DEFINE k == [r EXCEPT !.merge = merge, !.worker = worker]
  <2> HIDE DEF r
  <2>2. /\ k.status = r.status /\ k.prepared = r.prepared /\ k.phase = r.phase
        /\ k.merge = merge /\ k.stale = r.stale
    BY <1>1 DEF Row
  <2>3. db' = Put(db, t, k)
    BY <2>1
  <2> HIDE DEF k
  <2>4. Alike(t, r, k)
    BY <2>1, <2>2 DEF Alike
  <2> QED
    BY <2>3, <2>4
<1> QED
  BY <1>3, <1>4, <1>5

\* Turns that fail, or cannot be observed any more.
LEMMA TurnDelivers ==
  ASSUME Coherent(db), NEW t \in Task,
         \/ StartFails(t) \/ Fails(t) \/ QuotaWait(t) \/ ConnectionLost(t)
         \/ ReevaluateFails(t)
  PROVE  Delivers(db, db')
<1> DEFINE r == db.task[t]
<1>1. Sound(db) /\ r \in Row
  BY RowOf DEF Coherent
<1>2. SUFFICES Writes(db, db', t)
  BY WritesDelivers
<1>3. CASE StartFails(t) \/ Fails(t) \/ ReevaluateFails(t)
  <2>1. PICK s : Sound(s) /\ Writes(db, s, t) /\ db' = Failed(s, t)
    <3>1. CASE StartFails(t)
      <4>1. PICK turn \in Turn : db' = Failed(Put(db, t, [r EXCEPT !.turn = turn]), t)
        <5>1. r.turn \in Turn /\ "idle" \in Turn
          BY <1>1 DEF Row, Turn
        <5> QED
          BY <3>1, <5>1 DEF StartFails, row
      <4> DEFINE k == [r EXCEPT !.turn = turn]
                 p == Put(db, t, k)
      <4> HIDE DEF r
      <4>2. /\ k \in Row /\ k.status = r.status /\ k.prepared = r.prepared
            /\ k.phase = r.phase /\ k.merge = r.merge /\ k.stale = r.stale
        BY <1>1 DEF Row
      <4> HIDE DEF k
      <4>3. Alike(t, r, k)
        BY <4>2, SameAlike
      <4>4. Sound(p)
        BY <1>1, <4>2, PutSound
      <4>5. Writes(db, p, t)
        BY <1>1, <4>3, PutWrites DEF r
      <4> QED
        BY <4>1, <4>4, <4>5 DEF k
    <3>2. CASE Fails(t) \/ ReevaluateFails(t)
      <4>1. db' = Failed(TurnEnds(db, t, "idle"), t)
        BY <3>2 DEF Fails, ReevaluateFails
      <4>2. Sound(TurnEnds(db, t, "idle"))
        BY <1>1, TurnEndsSound DEF Turn
      <4> QED
        BY <1>1, <4>1, <4>2, TurnEndsWrites
    <3> QED
      BY <1>3, <3>1, <3>2
  <2> QED
    BY <2>1, FailedWrites, WritesThrough
<1>4. CASE QuotaWait(t)
  <2> DEFINE e == TurnEnds(db, t, "idle")
             s == Failed(e, t)
             q == s.task[t]
             k == [q EXCEPT !.run = "waiting_quota"]
  <2>1. db' = Put(s, t, k)
    BY <1>4 DEF QuotaWait
  <2>2. Sound(e) /\ Writes(db, e, t)
    BY <1>1, TurnEndsSound, TurnEndsWrites DEF Turn
  <2> HIDE DEF e
  <2>3. Sound(s) /\ Writes(db, s, t)
    BY <2>2, FailedSound, FailedWrites, WritesThrough
  <2>4. q \in Row
    BY <2>3, RowOf
  <2> HIDE DEF s, q
  <2>5. /\ k.status = q.status /\ k.prepared = q.prepared
        /\ k.phase = q.phase /\ k.merge = q.merge /\ k.stale = q.stale
    BY <2>4 DEF Row
  <2> HIDE DEF k
  <2>6. Writes(s, Put(s, t, k), t)
    BY <2>3, <2>5, SameAlike, PutWrites DEF q
  <2> QED
    BY <2>1, <2>3, <2>6, WritesThrough
<1>5. CASE ConnectionLost(t)
  <2> DEFINE k == [r EXCEPT !.run = "failed", !.conflict = TRUE]
             p == Put(db, t, k)
  <2>1. db' = FinishQueue(p, t)
    BY <1>5 DEF ConnectionLost, row
  <2> HIDE DEF r
  <2>2. /\ k \in Row /\ k.status = r.status /\ k.prepared = r.prepared
        /\ k.phase = r.phase /\ k.merge = r.merge /\ k.stale = r.stale
    BY <1>1 DEF Row, RunState
  <2> HIDE DEF k
  <2>3. Sound(p)
    BY <1>1, <2>2, PutSound
  <2>4. Writes(db, p, t)
    BY <1>1, <2>2, SameAlike, PutWrites DEF r
  <2> HIDE DEF p
  <2>5. /\ Only(p, db', t) /\ db'.task[t] = p.task[t]
        /\ SameLease(p, db', t) /\ SameReserved(p, db', t)
    BY <2>1, <2>3, FinishQueueAt
  <2>6. Writes(p, db', t)
    BY <2>5 DEF Writes, Alike, SameLease, Hold
  <2> QED
    BY <2>4, <2>6, WritesThrough
<1> QED
  BY <1>3, <1>4, <1>5

\* A completed turn settles in a step, unless the result was merged already.
LEMMA SettledDelivers ==
  ASSUME Coherent(db), NEW t \in Task, t \notin Group, NEW e, Sound(e), Writes(db, e, t),
         e.task[t].merge = db.task[t].merge, e.task[t].mode = db.task[t].mode,
         Regular => db.task[t].merge # "merged", NEW outcome
  PROVE  Delivers(db, Settled(e, t, outcome))
<1> DEFINE n == Settled(e, t, outcome)
           r == e.task[t]
           k == n.task[t]
<1>1. /\ Only(e, n, t) /\ NoLease(n, t)
      /\ ~Managed(e, t) => Closing(r, k)
      /\ Managed(e, t) => Delivery(r, k) /\ SameReserved(e, n, t)
  BY SettledAt
<1>2. r \in Row
  BY RowOf
<1>3. Only(db, n, t)
  BY <1>1, OnlyTransitive DEF Writes
<1>4. ~Managed(e, t) => db.task[t].merge = "none"
  BY DEF Coherent, FitsIn, Fits, ResultRow, Managed
<1>5. Regular => (r.stale => db.task[t].stale)
  BY DEF Writes, Alike
<1>6. Regular => r.merge # "merged"
  OBVIOUS
<1>7. CASE ~Managed(e, t)
  <2>1. PICK status \in {"in_review", "done"} : k = Standing(r, status, "none")
    BY <1>1, <1>7 DEF Closing
  <2>2. r.merge = "none"
    BY <1>4, <1>7
  <2> HIDE DEF n, r, k
  <2>3. k.merge = "none" /\ k.mode = r.mode /\ k.stale = r.stale
    BY <1>2, <2>1, <2>2 DEF Standing, Row
  <2>4. ~Managed(n, t) /\ n.task[t].merge = "none"
    BY <1>7, <2>3 DEF Managed, k, r
  <2>5. Durable(db, n, t)
    BY <2>4 DEF Durable, Awaiting
  <2>6. Regular => Owning(db, n, t) /\ Valid(db, n, t)
    <3>1. Regular => (k.stale => db.task[t].stale)
      BY <1>5, <2>3
    <3> QED
      BY <1>1, <3>1 DEF Owning, Valid, NoLease, Hold, k
  <2> QED
    BY <1>3, <2>5, <2>6, OnlyDelivers DEF n
<1>8. CASE Managed(e, t)
  <2>1. Delivery(r, k)
    BY <1>1, <1>8
  <2> HIDE DEF n, r, k
  <2>2. /\ k.status \in {r.status, "in_review", "in_progress"}
        /\ k.prepared = r.prepared /\ (k.stale => r.stale)
    <3>1. CASE k = [r EXCEPT !.run = "failed"]
      BY <1>2, <3>1 DEF Row
    <3>2. CASE k = [[r EXCEPT !.result = TRUE, !.merge = "blocked"] EXCEPT !.run = "failed"]
      BY <1>2, <3>2 DEF Row
    <3>3. CASE \E status \in {"in_review", "in_progress"},
                  merge \in {"pending_review", "queued"} :
                 k = [Standing(r, status, "none") EXCEPT
                        !.result = TRUE, !.stale = FALSE, !.merge = merge]
      <4>1. PICK status \in {"in_review", "in_progress"},
                 merge \in {"pending_review", "queued"} :
                 k = [Standing(r, status, "none") EXCEPT
                        !.result = TRUE, !.stale = FALSE, !.merge = merge]
        BY <3>3
      <4>2. k.status = status /\ k.prepared = r.prepared /\ k.stale = FALSE
        BY <1>2, <4>1 DEF Standing, Row
      <4> QED
        BY <4>2
    <3> QED
      BY <2>1, <3>1, <3>2, <3>3 DEF Delivery
  <2>3. Alike(t, r, k)
    BY <1>6, <2>2 DEF Alike
  <2>4. Writes(e, n, t)
    BY <1>1, <1>8, <2>3 DEF Writes, NoLease, Hold, r, k
  <2> QED
    BY <2>4, WritesThrough, WritesDelivers DEF n
<1> QED
  BY <1>7, <1>8

\* The end of a turn leaves the rest of the row.
LEMMA TurnEndsRow ==
  ASSUME NEW s, Sound(s), NEW t \in Task, NEW how
  PROVE  /\ TurnEnds(s, t, how).task[t].merge = s.task[t].merge
         /\ TurnEnds(s, t, how).task[t].mode = s.task[t].mode
<1> DEFINE r == s.task[t]
           k == [r EXCEPT !.turn = how, !.conflict = FALSE]
<1>1. r \in Row
  BY RowOf
<1>2. TurnEnds(s, t, how).task[t] = k
  BY PutAt DEF TurnEnds
<1> HIDE DEF r
<1>3. k.merge = r.merge /\ k.mode = r.mode
  BY <1>1 DEF Row
<1> QED
  BY <1>2, <1>3 DEF r

\* Results that are taken from a turn.
LEMMA ResultDelivers ==
  ASSUME Coherent(db), NEW t \in Task, Completes(t) \/ Reevaluate(t) \/ NativeEnded(t)
  PROVE  Delivers(db, db')
<1> DEFINE r == db.task[t]
<1>1. Sound(db) /\ r \in Row /\ Fits(t, r, db.queue[t], db.lease[t])
  BY RowOf DEF Coherent, FitsIn
<1>2. "idle" \in Turn /\ "completed" \in Turn
  BY DEF Turn
<1>3. t \notin Group
  <2>1. r.turn # "none"
    BY DEF Completes, Reevaluate, NativeEnded, row
  <2> QED
    BY <1>1, <2>1 DEF Fits, IdleRow
<1>4. CASE Completes(t) \/ Reevaluate(t)
  <2> DEFINE e == TurnEnds(db, t, "completed")
  <2>1. r.status = "in_progress" /\ \E outcome : db' = Settled(e, t, outcome)
    BY <1>4 DEF Completes, Reevaluate, Observed, row
  <2>2. Regular => r.merge # "merged"
    BY <1>1, <2>1 DEF Fits, MergedRow, Regular
  <2>3. Sound(e) /\ Writes(db, e, t) /\ e.task[t].merge = r.merge /\ e.task[t].mode = r.mode
    BY <1>1, <1>2, TurnEndsSound, TurnEndsWrites, TurnEndsRow
  <2> HIDE DEF e
  <2> QED
    BY <1>3, <2>1, <2>2, <2>3, SettledDelivers
<1>5. CASE NativeEnded(t)
  <2> DEFINE k == [r EXCEPT !.status = "in_progress", !.run = "running"]
             s == Put(db, t, k)
             idle == TurnEnds(s, t, "idle")
             over == TurnEnds(s, t, "completed")
  <2>1. /\ ~Regular
        /\ \/ \E how : db' = Put(s, t, [s.task[t] EXCEPT !.turn = how])
           \/ db' = Failed(idle, t)
           \/ \E outcome : db' = Settled(over, t, outcome)
    BY <1>5 DEF NativeEnded, May, NoMissed, Regular, row
  <2> HIDE DEF r
  <2>2. /\ k \in Row /\ k.status = "in_progress" /\ k.prepared = r.prepared
        /\ k.merge = r.merge /\ k.mode = r.mode
    BY <1>1 DEF Row, Status, RunState
  <2> HIDE DEF k
  <2>3. Alike(t, r, k)
    BY <1>3, <2>1, <2>2 DEF Alike
  <2>4. Sound(s)
    BY <1>1, <2>2, PutSound
  <2>5. Writes(db, s, t) /\ s.task[t] = k
    BY <1>1, <2>3, PutWrites, PutAt DEF r
  <2> HIDE DEF s
  <2>6. /\ Sound(idle) /\ Writes(db, idle, t)
        /\ Sound(over) /\ Writes(db, over, t)
        /\ over.task[t].merge = k.merge /\ over.task[t].mode = k.mode
    BY <1>2, <2>4, <2>5, TurnEndsSound, TurnEndsWrites, TurnEndsRow, WritesThrough
  <2> HIDE DEF idle, over
  <2>7. ASSUME NEW how, db' = Put(s, t, [s.task[t] EXCEPT !.turn = how])
        PROVE  Delivers(db, db')
    <3> DEFINE a == s.task[t]
               b == [a EXCEPT !.turn = how]
    <3>1. a \in Row
      BY <2>4, RowOf
    <3> HIDE DEF a
    <3>2. /\ b.status = a.status /\ b.prepared = a.prepared
          /\ b.phase = a.phase /\ b.merge = a.merge /\ b.stale = a.stale
      BY <3>1 DEF Row
    <3> HIDE DEF b
    <3>3. Writes(s, Put(s, t, b), t)
      BY <2>4, <3>2, SameAlike, PutWrites DEF a
    <3>4. Writes(s, db', t)
      BY <2>7, <3>3 DEF a, b
    <3> QED
      BY <2>5, <3>4, WritesThrough, WritesDelivers
  <2>8. CASE db' = Failed(idle, t)
    BY <2>6, <2>8, FailedWrites, WritesThrough, WritesDelivers
  <2>9. ASSUME NEW outcome PROVE Delivers(db, Settled(over, t, outcome))
    BY <1>3, <2>1, <2>2, <2>6, SettledDelivers DEF r
  <2> QED
    BY <2>1, <2>7, <2>8, <2>9
<1> QED
  BY <1>4, <1>5
-----------------------------------------------------------------------------
(* Queueing, claiming and adopting tasks.                                  *)

\* The same declarations of scopes.
SameScopes(s, n) == \A u \in Task : ScopesOf(n, u) = ScopesOf(s, u)

\* t may be let in, and may be worked on again.
Starts(s, n, t) ==
  /\ \A u \in Task : Loose(s, n, u)
  /\ \A u \in Task : \/ Hold(n, u) \in {"none", Hold(s, u)}
                     \/ u = t /\ \A o \in Owners(t) : Covers(n, o)
  /\ Regular => AllValid(s, n) \/ Reworks(s, n, t)

LEMMA ScopesAlike ==
  ASSUME NEW s, NEW n, \A u \in Task : n.task[u].scopes = s.task[u].scopes
  PROVE  SameScopes(s, n)
<1>1. \A u \in Task : \A c \in Children(u) : n.task[c].scopes = s.task[c].scopes
  BY DEF Children
<1> QED
  BY <1>1 DEF SameScopes, ScopesOf

LEMMA LooseThrough ==
  ASSUME NEW s, NEW k, NEW n, NEW u \in Task, Loose(s, k, u), Loose(k, n, u),
         SameScopes(s, k)
  PROVE  Loose(s, n, u)
BY DEF Loose, SameScopes

LEMMA StartsDelivers ==
  ASSUME NEW s, NEW n, NEW t \in Task \ Group, Starts(s, n, t)
  PROVE  Delivers(s, n)
<1>1. ASSUME NEW u \in Task PROVE Durable(s, n, u) /\ Owning(s, n, u)
  BY DEF Starts, Loose, Durable, Owning
<1> QED
  BY <1>1 DEF Delivers, Starts

LEMMA WritesStarts ==
  ASSUME NEW s, NEW n, NEW t \in Task, Writes(s, n, t)
  PROVE  Starts(s, n, t)
BY WritesPlain DEF Starts, Plain, AllValid

\* A row may be written before t starts ...
LEMMA WritesThenStarts ==
  ASSUME NEW s, NEW k, NEW n, NEW t \in Task, Writes(s, k, t), Starts(k, n, t),
         SameScopes(s, k)
  PROVE  Starts(s, n, t)
<1>1. \A u \in Task : Plain(s, k, u)
  BY WritesPlain
<1>2. Regular => AllValid(s, k)
  BY WritesPlain DEF AllValid
<1>3. \A u \in Task : Loose(s, n, u)
  BY <1>1, LooseThrough DEF Plain, Starts
<1>4. \A u \in Task : \/ Hold(n, u) \in {"none", Hold(s, u)}
                      \/ u = t /\ \A o \in Owners(t) : Covers(n, o)
  BY <1>1 DEF Plain, Starts
<1>5. \A u \in Task \ {t} : k.task[u] = s.task[u]
  BY DEF Writes, Only
<1>6. Reworks(k, n, t) => Reworks(s, n, t)
  BY <1>5 DEF Reworks, ToMark
<1>7. Regular => AllValid(s, n) \/ Reworks(s, n, t)
  BY <1>2, <1>6, ValidThrough DEF Starts
<1> QED
  BY <1>3, <1>4, <1>7 DEF Starts

\* ... and t may go on after that.
LEMMA StartsThenStarts ==
  ASSUME NEW s, NEW k, NEW n, NEW t \in Task, Starts(s, k, t), Starts(k, n, t),
         \A u \in Task \ {t} : n.task[u] = k.task[u], Regular => AllValid(k, n),
         IsChild(t) => RootOf[t] \in Task \ {t}, SameScopes(s, k)
  PROVE  Starts(s, n, t)
<1>1. \A u \in Task : Loose(s, n, u)
  BY LooseThrough DEF Starts
<1>2. \A u \in Task : k.resource[u] \subseteq n.resource[u]
  BY DEF Starts, Loose
<1>3. \A u \in Task : Covers(k, u) => Covers(n, u)
  BY <1>2 DEF Covers
<1>4. \A o \in Owners(t) : o \in Task
  BY OwnersAreTasks DEF Owners
<1>5. \A u \in Task : \/ Hold(n, u) \in {"none", Hold(s, u)}
                      \/ u = t /\ \A o \in Owners(t) : Covers(n, o)
  BY <1>3, <1>4 DEF Starts
<1>6. Reworks(s, k, t) => Reworks(s, n, t)
  BY DEF Reworks
<1>7. Regular => AllValid(s, n) \/ Reworks(s, n, t)
  BY <1>6, ValidThrough DEF Starts
<1> QED
  BY <1>1, <1>5, <1>7 DEF Starts

\* A task that is queued starts in this sense.
LEMMA EnqueuedStarts ==
  ASSUME NEW s, Sound(s), NEW t \in Task, NEW prompted \in BOOLEAN, t \notin Group
  PROVE  LET n == Enqueued(s, t, prompted) IN Starts(s, n, t) /\ SameScopes(s, n)
<1> DEFINE n == Enqueued(s, t, prompted)
           rework == prompted /\ Managed(s, t)
<1>1. Enqueues(s, n, t, rework)
  BY EnqueuedAt
<1>2. n.task[t].merge = (IF rework THEN "none" ELSE s.task[t].merge)
  BY <1>1, ChildrenApart DEF Enqueues, Reopens, Owners
<1> HIDE DEF n, rework
<1>3. ASSUME NEW u \in Task
      PROVE  /\ n.task[u].prepared = s.task[u].prepared
             /\ n.task[u].phase = s.task[u].phase
             /\ n.task[u].scopes = s.task[u].scopes
  <2> DEFINE r == s.task[u]
             k == n.task[u]
  <2>1. r \in Row /\ ResetTo(r, k)
    BY <1>1, RowOf DEF Enqueues
  <2> HIDE DEF r, k
  <2>2. k.prepared = r.prepared /\ k.phase = r.phase /\ k.scopes = r.scopes
    BY <2>1 DEF ResetTo, Reset, Row
  <2> QED
    BY <2>2 DEF r, k
<1>4. ASSUME NEW u \in Task PROVE Plain(s, n, u)
  <2>1. /\ n.task[u].status \in {s.task[u].status, "todo"}
        /\ NoLease(n, u) \/ SameLease(s, n, u)
        /\ n.scope[u] = s.scope[u] /\ n.resource[u] = s.resource[u]
    BY <1>1 DEF Enqueues, SameReservations
  <2> QED
    BY <1>3, <2>1 DEF Plain, Loose, OpenIn, NoLease, SameLease, Hold
<1>5. ASSUME NEW u \in Task
      PROVE  /\ n.task[u].merge = IF Reopens(s, t, u) \/ (rework /\ u \in Owners(t))
                                    THEN "none" ELSE s.task[u].merge
             /\ n.task[u].stale <=> s.task[u].stale \/ (rework /\ ToMark(s, t, u))
  BY <1>1 DEF Enqueues
<1>6. ASSUME NEW u \in Task, Reopens(s, t, u) PROVE u \in Group
  BY <1>6, ChildrenApart DEF Reopens
<1>7. ASSUME ~rework PROVE AllValid(s, n)
  BY <1>5, <1>6, <1>7 DEF AllValid, Valid
<1>8. ASSUME rework PROVE Reworks(s, n, t)
  <2>1. ASSUME NEW u \in Task \ {t}
        PROVE  /\ u \notin Group => n.task[u].merge = s.task[u].merge
               /\ n.task[u].merge \in {"none", s.task[u].merge}
               /\ n.task[u].stale <=> s.task[u].stale \/ ToMark(s, t, u)
    <3>1. u \in Owners(t) => u \in Group
      BY ChildrenApart DEF Owners, IsChild
    <3> QED
      BY <1>5, <1>6, <1>8, <3>1
  <2>2. ASSUME IsChild(t) PROVE n.task[RootOf[t]].merge = "none"
    BY <1>1, <1>8, <2>2, ChildrenApart DEF Enqueues, Owners
  <2> QED
    BY <2>1, <2>2 DEF Reworks, ToMark
<1>9. Starts(s, n, t)
  BY <1>4, <1>7, <1>8 DEF Starts, Plain
<1>10. SameScopes(s, n)
  BY <1>3, ScopesAlike
<1> QED
  BY <1>9, <1>10 DEF n

\* What reserving for t does to the reservations.
LEMMA ReservesLoose ==
  ASSUME NEW s, NEW n, NEW t \in Task, Reserves(s, n, t)
  PROVE  /\ \A u \in Task : /\ n.scope[u] \in {s.scope[u], ScopesOf(s, u)}
                            /\ s.resource[u] \subseteq n.resource[u]
         /\ \A o \in Owners(t) : Covers(n, o)
<1>1. \A o \in Owners(t) : o \in Task
  BY OwnersAreTasks DEF Owners
<1> QED
  BY <1>1 DEF Reserves, Covers

\* A task that is claimed starts.
LEMMA ClaimedStarts ==
  ASSUME NEW s, Sound(s), NEW t \in Task, t \notin Group,
         Regular => s.task[t].merge # "merged"
  PROVE  LET n == Claimed(s, t) IN
         /\ Starts(s, n, t) /\ SameScopes(s, n)
         /\ \A u \in Task \ {t} : n.task[u] = s.task[u]
         /\ Regular => AllValid(s, n)
<1> DEFINE n == Claimed(s, t)
           r == s.task[t]
           k == n.task[t]
<1>1. Beside(s, n, t) /\ Reserves(s, n, t) /\ k = ClaimedRow(r)
  BY ClaimedAt
<1>2. r \in Row /\ (Regular => r.merge # "merged")
  BY RowOf
<1> HIDE DEF n, r, k
<1>3. /\ k.status = "in_progress" /\ k.prepared = r.prepared /\ k.scopes = r.scopes
      /\ ~k.stale
  BY <1>1, <1>2 DEF ClaimedRow, Row
<1>4. /\ \A u \in Task : /\ n.scope[u] \in {s.scope[u], ScopesOf(s, u)}
                         /\ s.resource[u] \subseteq n.resource[u]
      /\ \A o \in Owners(t) : Covers(n, o)
  BY <1>1, ReservesLoose
<1>5. ASSUME NEW u \in Task PROVE Loose(s, n, u)
  <2>1. CASE u = t
    BY <1>3, <1>4, <2>1 DEF Loose, k, r
  <2>2. CASE u # t
    BY <1>1, <1>4, <2>2 DEF Loose, Beside, OpenIn
  <2> QED
    BY <2>1, <2>2
<1>6. \A u \in Task \ {t} : Hold(n, u) = Hold(s, u) /\ n.task[u] = s.task[u]
  BY <1>1 DEF Beside, Hold
<1>7. Regular => AllValid(s, n)
  BY <1>2, <1>3, <1>6 DEF AllValid, Valid, k, r
<1>8. SameScopes(s, n)
  <2>1. \A u \in Task : n.task[u].scopes = s.task[u].scopes
    BY <1>3, <1>6 DEF k, r
  <2> QED
    BY <2>1, ScopesAlike
<1>9. Starts(s, n, t)
  BY <1>4, <1>5, <1>6, <1>7 DEF Starts
<1> QED
  BY <1>6, <1>7, <1>8, <1>9 DEF n

\* What waits in the queue, or has not begun, is not merged.
LEMMA UnmergedWaits ==
  ASSUME NEW s, Coherent(s), NEW t \in Task, Regular,
         s.queue[t] = "pending" \/ s.task[t].status \in {"todo", "in_progress", "in_review"}
  PROVE  s.task[t].merge # "merged"
BY DEF Coherent, FitsIn, Fits, MergedRow, Regular

\* Queueing a task, after a row was written, and claiming it if possible.
LEMMA QueueDelivers ==
  ASSUME NEW s, Coherent(s), NEW t \in Task, CanQueue(s, t), NEW prompted \in BOOLEAN,
         NEW before, Writes(before, s, t), SameScopes(before, s),
         Regular /\ ~prompted => s.task[t].merge # "merged"
  PROVE  Delivers(before, Queue(s, t, prompted))
<1> DEFINE again == s.task[t].turn = "active"
                      /\ s.task[t].run \in {"failed", "waiting_quota"}
<1>1. Sound(s)
  BY DEF Coherent
<1>2. t \notin Group
  <2>1. s.task[t].turn = "active" => t \notin Group
    BY DEF Coherent, FitsIn, Fits, IdleRow
  <2> QED
    BY <2>1 DEF CanQueue, EnqueueOK
<1>3. CASE again
  <2> DEFINE r == s.task[t]
             k == [r EXCEPT !.status = "in_progress", !.run = "running"]
  <2>1. r \in Row
    BY <1>1, RowOf
  <2>2. Queue(s, t, prompted) = Put(s, t, k)
    BY <1>3 DEF Queue, Reattached
  <2> HIDE DEF r
  <2>3. /\ k.status = "in_progress" /\ k.prepared = r.prepared
        /\ k.merge = r.merge /\ k.stale = r.stale
    BY <2>1 DEF Row
  <2> HIDE DEF k
  <2>4. Alike(t, r, k)
    BY <1>2, <2>3 DEF Alike
  <2>5. Writes(s, Put(s, t, k), t)
    BY <1>1, <2>4, PutWrites DEF r
  <2> QED
    BY <2>2, <2>5, WritesThrough, WritesDelivers
<1>4. CASE ~again
  <2> DEFINE e == Enqueued(s, t, prompted)
             c == Claimed(e, t)
  <2>1. EnqueueOK(s, t) /\ Queue(s, t, prompted) = TryClaim(e, t)
    BY <1>4 DEF CanQueue, Queue
  <2>2. Coherent(e)
    BY <1>4, <2>1, EnqueuedCoherent DEF Regular
  <2>3. Starts(s, e, t) /\ SameScopes(s, e)
    BY <1>1, <1>2, EnqueuedStarts
  <2>4. Enqueues(s, e, t, prompted /\ Managed(s, t))
    BY <1>1, <1>2, EnqueuedAt
  <2> HIDE DEF e
  <2>5. e.queue[t] = "pending"
    BY <2>4 DEF Enqueues
  <2>6. Starts(before, e, t) /\ SameScopes(before, e)
    BY <2>3, WritesThenStarts DEF SameScopes
  <2>7. Starts(before, c, t)
    <3>1. /\ Starts(e, c, t) /\ (Regular => AllValid(e, c))
          /\ \A u \in Task \ {t} : c.task[u] = e.task[u]
      BY <1>2, <2>2, <2>5, UnmergedWaits, ClaimedStarts DEF Coherent
    <3> HIDE DEF c
    <3> QED
      BY <2>6, <3>1, StartsThenStarts, ChildrenApart
  <2> HIDE DEF c
  <2> QED
    BY <1>2, <2>1, <2>6, <2>7, StartsDelivers DEF TryClaim, c
<1> QED
  BY <1>3, <1>4

\* Everything that queues or claims a task.
LEMMA QueueingDelivers ==
  ASSUME Coherent(db), NEW t \in Task,
         \/ RunTask(t) \/ SubmitFeedback(t) \/ Retry(t) \/ QuotaResume(t)
         \/ Resume(t) \/ DispatchQueued(t) \/ DispatchTodo(t) \/ DispatchResumed(t)
  PROVE  Delivers(db, db')
<1> DEFINE r == db.task[t]
<1>1. Sound(db) /\ r \in Row /\ Fits(t, r, db.queue[t], db.lease[t])
  BY RowOf DEF Coherent, FitsIn
<1>2. CASE RunTask(t) \/ SubmitFeedback(t) \/ Retry(t) \/ QuotaResume(t)
  <2>1. CanQueue(db, t) /\ \E prompted \in BOOLEAN :
          /\ db' = Queue(db, t, prompted)
          /\ ~prompted => r.status = "todo"
    BY <1>2 DEF RunTask, SubmitFeedback, Retry, QuotaResume, row
  <2>2. Regular /\ r.status = "todo" => r.merge # "merged"
    BY UnmergedWaits
  <2>3. Writes(db, db, t) /\ SameScopes(db, db)
    BY DEF Writes, Only, Alike, SameReserved, SameScopes
  <2> QED
    BY <2>1, <2>2, <2>3, QueueDelivers
<1>3. CASE Resume(t) \/ DispatchResumed(t)
  <2>1. PICK k \in Row :
          /\ \/ k = [r EXCEPT !.paused = FALSE, !.conflict = FALSE]
             \/ k = [r EXCEPT !.again = FALSE]
          /\ \/ db' = Put(db, t, k)
             \/ /\ CanQueue(Put(db, t, k), t)
                /\ \E prompted \in BOOLEAN :
                     /\ db' = Queue(Put(db, t, k), t, prompted)
                     /\ ~prompted => r.turn = "none"
    <3>1. [r EXCEPT !.paused = FALSE, !.conflict = FALSE] \in Row
      <4> HIDE DEF r
      <4> QED
        BY <1>1 DEF Row
    <3>2. [r EXCEPT !.again = FALSE] \in Row
      <4> HIDE DEF r
      <4> QED
        BY <1>1 DEF Row
    <3>3. CASE Resume(t)
      BY <3>1, <3>3 DEF Resume, row
    <3>4. CASE DispatchResumed(t)
      BY <3>2, <3>4 DEF DispatchResumed, row
    <3> QED
      BY <1>3, <3>3, <3>4
  <2> DEFINE s == Put(db, t, k)
  <2> HIDE DEF r
  <2>2. /\ k.turn = r.turn /\ k.run = r.run /\ k.status = r.status
        /\ k.merge = r.merge /\ k.worker = r.worker /\ k.result = r.result
        /\ k.mode = r.mode /\ k.scopes = r.scopes /\ k.prepared = r.prepared
        /\ k.phase = r.phase /\ k.stale = r.stale
    BY <1>1, <2>1 DEF Row
  <2>3. Coherent(s)
    BY <2>2, PutAlikeCoherent DEF r
  <2>4. Writes(db, s, t)
    BY <1>1, <2>2, SameAlike, PutWrites DEF r
  <2>5. s.task[t] = k /\ Only(db, s, t)
    BY <1>1, PutAt
  <2> HIDE DEF s
  <2>6. SameScopes(db, s)
    <3>1. \A u \in Task : s.task[u].scopes = db.task[u].scopes
      BY <2>2, <2>5 DEF Only, r
    <3> QED
      BY <3>1, ScopesAlike
  <2>7. CASE db' = s
    BY <2>4, <2>7, WritesDelivers
  <2>8. ASSUME CanQueue(s, t), NEW prompted \in BOOLEAN, ~prompted => r.turn = "none"
        PROVE  Delivers(db, Queue(s, t, prompted))
    <3>1. t \notin Group \/ s.task[t].turn = "active"
      BY <2>8 DEF CanQueue, EnqueueOK
    <3>2. ~prompted => s.task[t].merge # "merged"
      BY <1>1, <2>2, <2>5, <2>8, <3>1 DEF Fits, ResultRow
    <3> QED
      BY <2>3, <2>4, <2>6, <2>8, <3>2, QueueDelivers
  <2> QED
    BY <2>1, <2>7, <2>8 DEF s
<1>4. CASE DispatchQueued(t) \/ DispatchTodo(t)
  <2>1. /\ Claimable(db, t) /\ db' = Claimed(db, t)
        /\ db.queue[t] = "pending" \/ r.status = "todo"
    BY <1>4 DEF DispatchQueued, DispatchTodo, row
  <2>2. t \notin Group /\ (Regular => r.merge # "merged")
    BY <2>1, UnmergedWaits DEF Claimable
  <2>3. Starts(db, Claimed(db, t), t)
    BY <1>1, <2>2, ClaimedStarts
  <2> QED
    BY <2>1, <2>2, <2>3, StartsDelivers
<1> QED
  BY <1>2, <1>3, <1>4

\* A follow-up waits, starts or is refused.
LEMMA FollowUpDelivers ==
  ASSUME Coherent(db), NEW t \in Task,
         FollowUpQueued(t) \/ FollowUpStarted(t) \/ FollowUpRefused(t)
  PROVE  Delivers(db, db')
<1> DEFINE r == db.task[t]
           e == Enqueued(db, t, TRUE)
           c == Claimed(e, t)
           v == Reserve(e, t)
           w == [r EXCEPT !.paused = FALSE]
           x == c.task[t]
           y == [x EXCEPT !.run = "running", !.turn = "active"]
<1>1. Sound(db) /\ r \in Row /\ Fits(t, r, db.queue[t], db.lease[t])
  BY RowOf DEF Coherent, FitsIn
<1>2. /\ EnqueueOK(db, t) /\ r.turn \in {"idle", "completed"}
      /\ r.status \in {"in_progress", "in_review", "done"}
      /\ \/ db' = TryClaim(e, t)
         \/ Claimable(e, t) /\ db' = Put(c, t, y)
         \/ Claimable(e, t) /\ db' = Refused(v, t, w)
  <2>1. CanFollowUp(t)
    BY DEF FollowUpQueued, FollowUpStarted, FollowUpRefused
  <2>2. FollowUpRefused(t) => w.status = r.status
    <3> HIDE DEF r
    <3> QED
      BY <1>1 DEF Row
  <2>3. CASE FollowUpQueued(t)
    BY <2>1, <2>3 DEF FollowUpQueued, CanFollowUp, row
  <2>4. CASE FollowUpStarted(t)
    BY <2>1, <2>4 DEF FollowUpStarted, CanFollowUp, row
  <2>5. CASE FollowUpRefused(t)
    <3>1. Claimable(e, t) /\ db' = Refused(v, t, w)
      BY <2>2, <2>5 DEF FollowUpRefused, Refused, row
    <3> QED
      BY <2>1, <3>1 DEF CanFollowUp, row
  <2> QED
    BY <2>3, <2>4, <2>5
<1>3. Coherent(e) /\ t \notin Group
  BY <1>2, EnqueuedCoherent DEF EnqueueOK
<1>4. Starts(db, e, t) /\ SameScopes(db, e)
  BY <1>1, <1>3, EnqueuedStarts
<1>5. Enqueues(db, e, t, TRUE /\ Managed(db, t))
  BY <1>1, EnqueuedAt
<1> HIDE DEF e
<1>6. e.queue[t] = "pending" /\ ResetTo(r, e.task[t])
  BY <1>5 DEF Enqueues
<1>7. /\ Claimable(e, t) => Sound(c)
      /\ Starts(db, c, t) /\ SameScopes(db, c)
  <2>1. /\ Starts(e, c, t) /\ SameScopes(e, c) /\ (Regular => AllValid(e, c))
        /\ \A u \in Task \ {t} : c.task[u] = e.task[u]
    BY <1>3, <1>6, UnmergedWaits, ClaimedStarts DEF Coherent
  <2>2. Claimable(e, t) => Sound(c)
    BY <1>3, ClaimedSound DEF Coherent, Claimable
  <2> HIDE DEF c
  <2>3. Starts(db, c, t)
    BY <1>4, <2>1, StartsThenStarts, ChildrenApart
  <2>4. SameScopes(db, c)
    BY <1>4, <2>1 DEF SameScopes
  <2> QED
    BY <2>2, <2>3, <2>4
<1>8. CASE db' = TryClaim(e, t)
  BY <1>3, <1>4, <1>7, <1>8, StartsDelivers DEF TryClaim
<1>9. CASE Claimable(e, t) /\ db' = Put(c, t, y)
  <2>1. x \in Row
    BY <1>7, <1>9, RowOf
  <2>2. Writes(c, db', t)
    <3> HIDE DEF x, c
    <3>1. /\ y.status = x.status /\ y.prepared = x.prepared
          /\ y.phase = x.phase /\ y.merge = x.merge /\ y.stale = x.stale
      BY <2>1 DEF Row
    <3> HIDE DEF y
    <3> QED
      BY <1>7, <1>9, <3>1, SameAlike, PutWrites DEF x
  <2> HIDE DEF c
  <2>3. /\ Starts(c, db', t) /\ (Regular => AllValid(c, db'))
        /\ \A u \in Task \ {t} : db'.task[u] = c.task[u]
    BY <2>2, WritesStarts, WritesPlain DEF Writes, Only, AllValid
  <2>4. Starts(db, db', t)
    BY <1>7, <2>3, StartsThenStarts, ChildrenApart
  <2> QED
    BY <1>3, <2>4, StartsDelivers
<1>10. CASE Claimable(e, t) /\ db' = Refused(v, t, w)
  <2>1. Sound(v)
    BY <1>3, <1>10, EligibleAdmits, ReserveSound DEF Claimable, Coherent
  <2>2. v.task = e.task /\ v.lease = e.lease /\ v.forced = e.forced /\ Reserves(e, v, t)
    BY <1>3, ReserveAt DEF Coherent
  <2> HIDE DEF v
  <2>3. /\ w \in Row /\ w.status = r.status /\ w.merge = r.merge /\ w.stale = r.stale
        /\ w.mode = r.mode /\ w.prepared = r.prepared /\ w.result = r.result
        /\ e.task[t].mode = r.mode
    <3>1. ResetTo(r, e.task[t])
      BY <1>6
    <3>2. e.task[t].mode = r.mode
      <4> HIDE DEF r
      <4> QED
        BY <1>1, <3>1 DEF ResetTo, Reset, Row
    <3> HIDE DEF r
    <3> QED
      BY <1>1, <3>2 DEF Row
  <2> HIDE DEF w
  <2>4. /\ Only(v, db', t) /\ db'.task[t] = w /\ NoLease(db', t)
        /\ Managed(v, t) /\ w.status \notin {"done", "canceled"} => SameReserved(v, db', t)
    BY <1>10, <2>1, <2>2, <2>3, RefusedAt
  <2>5. \A u \in Task : /\ v.scope[u] \in {e.scope[u], ScopesOf(e, u)}
                        /\ e.resource[u] \subseteq v.resource[u]
    BY <2>2, ReservesLoose
  <2>6. ASSUME NEW u \in Task PROVE Loose(e, v, u)
    BY <2>2, <2>5 DEF Loose, OpenIn
  <2>7. ASSUME NEW u \in Task PROVE Loose(db, v, u) /\ Hold(v, u) \in {"none", Hold(db, u)}
    <3>1. Hold(v, u) = Hold(e, u)
      BY <2>2 DEF Hold
    <3>2. Hold(e, u) \in {"none", Hold(db, u)}
      BY <1>5, EnqueuedQuiet DEF Enqueues, NoLease, SameLease, Hold
    <3> QED
      BY <1>4, <2>6, <3>1, <3>2, LooseThrough DEF Starts
  <2>8. ASSUME NEW u \in Task \ {t} PROVE Durable(db, db', u) /\ Owning(db, db', u)
    <3>1. Plain(v, db', u) /\ db'.scope[u] = v.scope[u]
      BY <2>4, OnlyPlain DEF Only
    <3>2. Plain(db, db', u)
      BY <2>7, <3>1 DEF Plain, Loose
    <3> QED
      BY <3>2, PlainDurable
  <2>9. Durable(db, db', t)
    <3>1. db'.task[t].status = r.status
      BY <2>3, <2>4
    <3>2. ASSUME Awaiting(db, t)
          PROVE  Managed(v, t) /\ w.status \notin {"done", "canceled"}
      <4>1. Managed(db, t) /\ r.status \notin {"done", "canceled"}
        BY <1>1, <1>2, <3>2 DEF Awaiting, Fits, ResultRow, Managed
      <4> QED
        BY <2>2, <2>3, <4>1 DEF Managed
    <3>3. Loose(db, v, t)
      BY <2>7
    <3> QED
      BY <2>4, <3>1, <3>2, <3>3 DEF Durable, Loose, SameReserved
  <2>10. Owning(db, db', t)
    BY <1>3, <2>4 DEF Owning, NoLease, Hold
  <2>11. \A u \in Task \ {t} : db'.task[u] = e.task[u]
    BY <2>2, <2>4 DEF Only
  <2>12. Regular => AllValid(db, db') \/ Reworks(db, db', t)
    <3>1. Reworks(db, e, t) => Reworks(db, db', t)
      <4>1. IsChild(t) => RootOf[t] \in Task \ {t}
        BY ChildrenApart
      <4> QED
        BY <2>11, <4>1 DEF Reworks
    <3>2. ASSUME AllValid(db, e) PROVE AllValid(db, db')
      <4>1. Valid(db, db', t)
        BY <1>3, <2>3, <2>4 DEF Valid
      <4>2. ASSUME NEW u \in Task \ {t} PROVE Valid(db, db', u)
        <5>1. Valid(db, e, u)
          BY <3>2 DEF AllValid
        <5>2. u \in Group => e.task[u].merge \in {"none", db.task[u].merge}
          BY <1>5 DEF Enqueues
        <5> QED
          BY <2>11, <5>1, <5>2 DEF Valid
      <4> QED
        BY <4>1, <4>2 DEF AllValid
    <3> QED
      BY <1>4, <3>1, <3>2 DEF Starts
  <2> QED
    BY <1>3, <2>8, <2>9, <2>10, <2>12 DEF Delivers
<1> QED
  BY <1>2, <1>8, <1>9, <1>10

\* A native turn that is adopted.
LEMMA AdoptDelivers ==
  ASSUME Coherent(db), NEW t \in Task, AdoptNative(t)
  PROVE  Delivers(db, db')
<1> DEFINE k == Occupied(db, t)
           r == db.task[t]
           rework == Managed(db, t) /\ r.result
<1>1. Sound(db) /\ r \in Row /\ Fits(t, r, db.queue[t], db.lease[t])
  BY RowOf DEF Coherent, FitsIn
<1>2. t \notin Group
  BY <1>1 DEF AdoptNative, row, Fits, IdleRow
<1>3. Adopts(db, k, db', t, rework)
  BY <1>1, AdoptedAt DEF AdoptNative
<1>4. /\ \A u \in Task \ {t} : Hold(k, u) = Hold(db, u)
      /\ Hold(k, t) \in {"none", Hold(db, t)} \/ \A o \in Owners(t) : Covers(k, o)
      /\ \A u \in Task : /\ k.scope[u] \in {db.scope[u], ScopesOf(db, u)}
                         /\ db.resource[u] \subseteq k.resource[u]
  <2>1. CASE db.lease[t] # "none"
    BY <2>1 DEF Occupied
  <2>2. CASE db.lease[t] = "none"
    <3>1. Beside(db, k, t)
      BY <1>1, <2>2, OccupiedAt
    <3>2. IF Eligible(db, t, FALSE) THEN Reserves(db, k, t)
                                    ELSE k.forced[t] /\ SameReservations(db, k)
      BY <1>1, <2>2, OccupiedAt
    <3> HIDE DEF k
    <3>3. \A u \in Task \ {t} : Hold(k, u) = Hold(db, u)
      BY <3>1 DEF Beside, Hold
    <3>4. CASE Eligible(db, t, FALSE)
      BY <3>2, <3>3, <3>4, ReservesLoose
    <3>5. CASE ~Eligible(db, t, FALSE)
      BY <3>2, <3>3, <3>5 DEF SameReservations, Hold
    <3> QED
      BY <3>4, <3>5
  <2> QED
    BY <2>1, <2>2
<1> HIDE DEF k, rework
<1>5. ASSUME NEW u \in Task
      PROVE  /\ db'.task[u].status \in {db.task[u].status, "in_progress"}
             /\ u # t => db'.task[u].status = db.task[u].status
             /\ db'.task[u].prepared = db.task[u].prepared
             /\ db'.task[u].phase = db.task[u].phase
  <2> DEFINE p == db.task[u]
             q == db'.task[u]
  <2>1. p \in Row
    BY <1>1, RowOf
  <2>2. CASE u = t
    <3>1. q = AdoptedRow(p, q.conflict, q.merge, q.stale)
      BY <1>3, <2>2 DEF Adopts
    <3> HIDE DEF p, q
    <3>2. q.status = "in_progress" /\ q.prepared = p.prepared /\ q.phase = p.phase
      BY <2>1, <3>1 DEF AdoptedRow, Row
    <3> QED
      BY <2>2, <3>2 DEF p, q
  <2>3. CASE u # t
    <3>1. q = Flagged(p, q.merge, q.stale)
      BY <1>3, <2>3 DEF Adopts
    <3> HIDE DEF p, q
    <3>2. q.status = p.status /\ q.prepared = p.prepared /\ q.phase = p.phase
      BY <2>1, <3>1 DEF Flagged, Row
    <3> QED
      BY <3>2 DEF p, q
  <2> QED
    BY <2>2, <2>3
<1>6. \A u \in Task : /\ Hold(db', u) = Hold(k, u)
                      /\ db'.scope[u] = k.scope[u] /\ db'.resource[u] = k.resource[u]
  BY <1>3 DEF Adopts, SameReservations, Hold
<1>7. ASSUME NEW u \in Task
      PROVE  /\ db'.task[u].merge = (IF rework /\ u \in Owners(t) THEN "none"
                                                                 ELSE db.task[u].merge)
             /\ db'.task[u].stale <=> db.task[u].stale \/ (rework /\ ToMark(db, t, u))
  BY <1>3 DEF Adopts
<1>8. ASSUME NEW u \in Task PROVE Loose(db, db', u)
  BY <1>2, <1>4, <1>5, <1>6 DEF Loose, OpenIn
<1>9. \A u \in Task : \/ Hold(db', u) \in {"none", Hold(db, u)}
                      \/ u = t /\ \A o \in Owners(t) : Covers(db', o)
  <2>1. \A o \in Owners(t) : Covers(k, o) => Covers(db', o)
    BY <1>6, OwnersAreTasks DEF Covers
  <2> QED
    BY <1>4, <1>6, <2>1
<1>10. CASE rework
  <2>1. ASSUME NEW u \in Task \ {t}
        PROVE  /\ u \notin Group => db'.task[u].merge = db.task[u].merge
               /\ db'.task[u].merge \in {"none", db.task[u].merge}
               /\ db'.task[u].stale <=> db.task[u].stale \/ ToMark(db, t, u)
    <3>1. u \in Owners(t) => u \in Group
      BY ChildrenApart DEF Owners, IsChild
    <3> QED
      BY <1>7, <1>10, <3>1
  <2>2. IsChild(t) => db'.task[RootOf[t]].merge = "none"
    BY <1>7, <1>10, ChildrenApart DEF Owners
  <2>3. Reworks(db, db', t)
    BY <2>1, <2>2 DEF Reworks, ToMark
  <2> QED
    BY <1>2, <1>8, <1>9, <2>3, StartsDelivers DEF Starts
<1>11. CASE ~rework
  <2>1. AllValid(db, db')
    BY <1>7, <1>11 DEF AllValid, Valid
  <2> QED
    BY <1>2, <1>8, <1>9, <2>1, StartsDelivers DEF Starts
<1> QED
  BY <1>10, <1>11
-----------------------------------------------------------------------------
(* Ending and stopping.                                                    *)

\* Stopping t and its members gives back all that they hold.
LEMMA HaltedDelivers ==
  ASSUME NEW s, NEW n, NEW t \in Task,
         \A u \in Task : u \notin Members(t) \cup {t} =>
           n.task[u] = s.task[u] /\ SameLease(s, n, u) /\ SameReserved(s, n, u),
         \A u \in Members(t) \cup {t} :
           /\ NoLease(n, u) /\ n.task[u].paused
           /\ n.task[u].status \in {s.task[u].status, "canceled"}
           /\ n.task[u].prepared = s.task[u].prepared
           /\ n.task[u].stale = s.task[u].stale
           /\ \/ n.task[u].merge = s.task[u].merge
              \/ s.task[u].merge = "merging" /\ n.task[u].merge = "blocked",
         t \in Group => n.task[t].phase = "paused"
  PROVE  Delivers(s, n)
<1> DEFINE released == Members(t) \cup {t}
<1>1. \A u \in released : u \in Task /\ (u # t => u \notin Group)
  BY MembersAreTasks DEF Members
<1>2. ASSUME NEW u \in Task \ released
      PROVE  Durable(s, n, u) /\ Owning(s, n, u) /\ Valid(s, n, u)
  <2>1. Plain(s, n, u) /\ Valid(s, n, u)
    BY DEF Plain, Loose, Valid, OpenIn, Hold, SameLease, SameReserved
  <2> QED
    BY <2>1, PlainDurable
<1>3. ASSUME NEW u \in released
      PROVE  Durable(s, n, u) /\ Valid(s, n, u)
  BY DEF Durable, Valid, Awaiting
<1>4. ASSUME NEW u \in released PROVE Owning(s, n, u)
  <2>1. Hold(n, u) = "none"
    BY DEF NoLease, Hold
  <2>2. ASSUME u \in Group
        PROVE  ~OpenIn(n, u) /\ \A c \in Children(u) : Hold(n, c) = "none"
    <3>1. u = t /\ Members(t) = Children(t)
      BY <1>1, <2>2 DEF Members
    <3> QED
      BY <2>2, <3>1 DEF OpenIn, NoLease, Hold
  <2>3. n.task[u].prepared = s.task[u].prepared
    OBVIOUS
  <2> QED
    BY <2>1, <2>2, <2>3 DEF Owning
<1> QED
  BY <1>1, <1>2, <1>3, <1>4 DEF Delivers, AllValid

\* What a confirmed pause leaves of a row.
LEMMA HaltedRows ==
  ASSUME NEW s, Sound(s), NEW t \in Task, NEW u \in Members(t) \cup {t}
  PROVE  LET n == PauseConfirmed(s, t) IN
         /\ NoLease(n, u) /\ n.task[u].paused
         /\ n.task[u].status = s.task[u].status
         /\ n.task[u].prepared = s.task[u].prepared
         /\ n.task[u].stale = s.task[u].stale
         /\ \/ n.task[u].merge = s.task[u].merge
            \/ s.task[u].merge = "merging" /\ n.task[u].merge = "blocked"
         /\ t \in Group => n.task[t].phase = "paused"
<1> DEFINE n == PauseConfirmed(s, t)
           r == s.task[u]
           k == n.task[u]
<1>1. u \in Task /\ r \in Row
  BY RowOf, MembersAreTasks
<1>2. /\ NoLease(n, u)
      /\ u \in Members(t) => Halts(r, k)
      /\ u \notin Members(t) => u = t /\ k = StoppedRow(r)
  BY <1>1, PauseConfirmedAt
<1>3. t \in Group => t \notin Members(t) /\ n.task[t] = StoppedRow(s.task[t])
  BY PauseConfirmedAt, MembersAreTasks, ChildrenApart DEF Members, Children
<1>4. s.task[t] \in Row
  BY RowOf
<1>5. t \in Group => n.task[t].phase = "paused"
  <2> DEFINE x == s.task[t]
             y == n.task[t]
  <2>1. x \in Row /\ (t \in Group => y = StoppedRow(x))
    BY <1>3, <1>4
  <2> HIDE DEF n, x, y
  <2>2. t \in Group => y.phase = "paused"
    BY <2>1 DEF StoppedRow, Row
  <2> QED
    BY <2>2 DEF n, y
<1> HIDE DEF n, r, k
<1>6. /\ k.paused /\ k.status = r.status /\ k.prepared = r.prepared /\ k.stale = r.stale
      /\ k.merge = r.merge \/ (r.merge = "merging" /\ k.merge = "blocked")
  <2>1. CASE u \in Members(t)
    <3>1. Halts(r, k)
      BY <1>2, <2>1
    <3>2. /\ k.paused = TRUE /\ k.status = r.status /\ k.prepared = r.prepared
          /\ k.stale = r.stale
      BY <1>1, <3>1 DEF Halts, HaltedRow, Row
    <3> QED
      BY <3>1, <3>2 DEF Halts
  <2>2. CASE u \notin Members(t)
    <3>1. k = StoppedRow(r)
      BY <1>2, <2>2
    <3>2. /\ k.paused = TRUE /\ k.status = r.status /\ k.prepared = r.prepared
          /\ k.stale = r.stale /\ k.merge = r.merge
      BY <1>1, <3>1 DEF StoppedRow, Row
    <3> QED
      BY <3>2
  <2> QED
    BY <2>1, <2>2
<1> QED
  BY <1>2, <1>5, <1>6 DEF n, r, k

\* A pause, whether Codex confirms it or not, and a cancel.
LEMMA PauseDelivers ==
  ASSUME Coherent(db), NEW t \in Task, Pause(t) \/ PauseUnconfirmed(t) \/ CancelManaged(t)
  PROVE  Delivers(db, db')
<1> DEFINE halted == PauseConfirmed(db, t)
<1>1. Sound(db)
  BY DEF Coherent
<1>2. \A u \in Task : u \notin Members(t) \cup {t} =>
        /\ halted.task[u] = db.task[u]
        /\ SameLease(db, halted, u) /\ SameReserved(db, halted, u)
  BY <1>1, PauseConfirmedAt
<1>3. \A u \in Members(t) \cup {t} :
        /\ NoLease(halted, u) /\ halted.task[u].paused
        /\ halted.task[u].status = db.task[u].status
        /\ halted.task[u].prepared = db.task[u].prepared
        /\ halted.task[u].stale = db.task[u].stale
        /\ \/ halted.task[u].merge = db.task[u].merge
           \/ db.task[u].merge = "merging" /\ halted.task[u].merge = "blocked"
        /\ t \in Group => halted.task[t].phase = "paused"
  BY <1>1, HaltedRows
<1>4. Sound(halted)
  BY <1>1, PauseConfirmedSound
<1> HIDE DEF halted
<1>5. CASE Pause(t)
  BY <1>2, <1>3, <1>5, HaltedDelivers DEF Pause, halted
<1>6. CASE CancelManaged(t)
  <2> DEFINE closed == {t} \cup {c \in Members(t) : db.task[c].status # "done"}
  <2>1. db' = Shut(halted, closed)
    BY <1>6, CancelManagedAt DEF halted
  <2>2. /\ db'.lease = halted.lease /\ db'.forced = halted.forced
        /\ SameReservations(halted, db')
        /\ \A u \in Task :
             db'.task[u] = IF u \in closed THEN Standing(halted.task[u], "canceled", "none")
                                           ELSE halted.task[u]
    BY <1>4, <2>1, ShutAt
  <2>3. closed \subseteq Members(t) \cup {t}
    OBVIOUS
  <2> HIDE DEF closed
  <2>4. ASSUME NEW u \in Task
        PROVE  /\ db'.task[u].status \in {halted.task[u].status, "canceled"}
               /\ db'.task[u].paused = halted.task[u].paused
               /\ db'.task[u].prepared = halted.task[u].prepared
               /\ db'.task[u].stale = halted.task[u].stale
               /\ db'.task[u].merge = halted.task[u].merge
               /\ db'.task[u].phase = halted.task[u].phase
               /\ u \notin closed => db'.task[u] = halted.task[u]
    <3> DEFINE r == halted.task[u]
               k == db'.task[u]
    <3>1. r \in Row /\ (k = Standing(r, "canceled", "none") \/ k = r)
      BY <1>4, <2>2, RowOf
    <3>2. u \notin closed => k = r
      BY <2>2
    <3> HIDE DEF r, k
    <3>3. /\ k.status \in {r.status, "canceled"} /\ k.paused = r.paused
          /\ k.prepared = r.prepared /\ k.stale = r.stale /\ k.merge = r.merge
          /\ k.phase = r.phase
      BY <3>1 DEF Standing, Row
    <3> QED
      BY <3>2, <3>3 DEF r, k
  <2>5. \A u \in Task : u \notin Members(t) \cup {t} =>
          /\ db'.task[u] = db.task[u]
          /\ SameLease(db, db', u) /\ SameReserved(db, db', u)
    BY <1>2, <2>2, <2>3, <2>4 DEF SameReservations, SameLease, SameReserved
  <2>6. \A u \in Members(t) \cup {t} :
          /\ NoLease(db', u) /\ db'.task[u].paused
          /\ db'.task[u].status \in {db.task[u].status, "canceled"}
          /\ db'.task[u].prepared = db.task[u].prepared
          /\ db'.task[u].stale = db.task[u].stale
          /\ \/ db'.task[u].merge = db.task[u].merge
             \/ db.task[u].merge = "merging" /\ db'.task[u].merge = "blocked"
    BY <1>3, <2>2, <2>4, MembersAreTasks DEF NoLease
  <2>7. t \in Group => db'.task[t].phase = "paused"
    BY <1>3, <2>4
  <2> QED
    BY <2>5, <2>6, <2>7, HaltedDelivers
<1>7. CASE PauseUnconfirmed(t)
  <2> DEFINE s == PauseMarked(db, t)
             r == db.task[t]
             k == [r EXCEPT !.paused = TRUE,
                            !.phase = IF t \in Group THEN "pausing" ELSE @]
  <2>1. PICK reached, interrupted : db' = PauseHalted(s, reached, interrupted)
    BY <1>7 DEF PauseUnconfirmed
  <2>2. Sound(s) /\ r \in Row
    BY <1>1, PauseMarkedSound, RowOf
  <2>3. s = Put(db, t, k)
    BY DEF PauseMarked
  <2> HIDE DEF r
  <2>4. /\ k.status = r.status /\ k.prepared = r.prepared /\ k.merge = r.merge
        /\ k.stale = r.stale /\ (t \in Group => k.phase = "pausing")
    BY <2>2 DEF Row
  <2> HIDE DEF k
  <2>5. Alike(t, r, k)
    BY <2>4 DEF Alike
  <2>6. Writes(db, s, t)
    BY <1>1, <2>3, <2>5, PutWrites DEF r
  <2> HIDE DEF s
  <2>7. /\ db'.lease = s.lease /\ db'.forced = s.forced /\ SameReservations(s, db')
        /\ \A u \in Task : IF u \in interrupted THEN Interrupts(s.task[u], db'.task[u])
                                                ELSE db'.task[u] = s.task[u]
    BY <2>1, <2>2, PauseHaltedAt
  <2>8. ASSUME NEW u \in Task
        PROVE  /\ db'.task[u].status = s.task[u].status
               /\ db'.task[u].prepared = s.task[u].prepared
               /\ db'.task[u].phase = s.task[u].phase
               /\ db'.task[u].merge = s.task[u].merge
               /\ db'.task[u].stale = s.task[u].stale
    <3> DEFINE x == s.task[u]
               y == db'.task[u]
    <3>1. x \in Row /\ (Interrupts(x, y) \/ y = x)
      BY <2>2, <2>7, RowOf
    <3> HIDE DEF x, y
    <3>2. /\ y.status = x.status /\ y.prepared = x.prepared /\ y.phase = x.phase
          /\ y.merge = x.merge /\ y.stale = x.stale
      BY <3>1 DEF Interrupts, Row
    <3> QED
      BY <3>2 DEF x, y
  <2>9. ASSUME NEW u \in Task PROVE Plain(db, db', u) /\ (Regular => Valid(db, db', u))
    <3>1. Plain(db, s, u) /\ (Regular => Valid(db, s, u))
      BY <2>6, WritesPlain
    <3>2. Plain(db, db', u)
      BY <2>7, <2>8, <3>1 DEF Plain, Loose, OpenIn, Hold, SameReservations
    <3>3. Integrated(s, u) => Integrated(db', u)
      BY <2>8 DEF Integrated, Children
    <3>4. Regular => Valid(db, db', u)
      BY <2>8, <3>1, <3>3 DEF Valid
    <3> QED
      BY <3>2, <3>4
  <2> QED
    BY <2>9, PlainDelivers DEF AllValid
<1> QED
  BY <1>5, <1>6, <1>7

\* Finishing or requeueing a task the board does not merge.
LEMMA FinishDelivers ==
  ASSUME Coherent(db), NEW t \in Task, Finish(t) \/ InterruptRequeue(t)
  PROVE  Delivers(db, db')
<1> DEFINE r == db.task[t]
           i == Interrupted(db, t)
<1>1. Sound(db) /\ r \in Row /\ Fits(t, r, db.queue[t], db.lease[t])
  BY RowOf DEF Coherent, FitsIn
<1>2. ~Managed(db, t) /\ t \notin Group
  BY DEF Finish, InterruptRequeue, Managed
<1>3. r.merge = "none"
  BY <1>1, <1>2 DEF Fits, ResultRow, Managed
<1>4. Sound(i) /\ Only(db, i, t) /\ Interrupts(r, i.task[t])
  BY <1>1, InterruptedSound, InterruptedAt
<1>5. PICK s \in {i, db}, target \in {"done", "canceled", "in_review", "todo"} :
        LET n == Moved(s, t, target, "none") IN
        db' = n \/ db' = Put(n, t, [n.task[t] EXCEPT !.draft = TRUE])
  <2>1. CASE Finish(t)
    BY <2>1 DEF Finish
  <2>2. CASE InterruptRequeue(t)
    BY <2>2 DEF InterruptRequeue
  <2> QED
    BY <2>1, <2>2
<1> DEFINE n == Moved(s, t, target, "none")
           a == s.task[t]
           b == n.task[t]
           d == [b EXCEPT !.draft = TRUE]
<1>6. /\ Sound(s) /\ Only(db, s, t) /\ (Interrupts(r, a) \/ a = r)
  BY <1>1, <1>4 DEF Only
<1> HIDE DEF i
<1>7. /\ Sound(n) /\ Only(s, n, t) /\ b = Standing(a, target, "none") /\ NoLease(n, t)
  <2>1. target \in Status /\ "none" \in RunState /\ target # "in_progress"
    BY DEF Status, RunState
  <2>2. Sound(n)
    BY <1>6, <2>1, MovedSound
  <2> QED
    BY <1>6, <2>1, <2>2, MovedAt
<1>8. a \in Row /\ b \in Row
  BY <1>6, <1>7, RowOf
<1>9. /\ Only(n, db', t) /\ SameLease(n, db', t) /\ (db'.task[t] = b \/ db'.task[t] = d)
  <2>1. CASE db' = n
    BY <2>1 DEF Only, SameLease
  <2>2. CASE db' = Put(n, t, d)
    BY <1>7, <2>2, PutAt
  <2> QED
    BY <1>5, <2>1, <2>2
<1> HIDE DEF n, a, b, r
<1>10. /\ a.merge = r.merge /\ a.stale = r.stale /\ a.mode = r.mode
  BY <1>1, <1>6 DEF Interrupts, Row
<1>11. /\ b.merge = a.merge /\ b.stale = a.stale /\ b.mode = a.mode
       /\ d.merge = b.merge /\ d.stale = b.stale /\ d.mode = b.mode
  BY <1>7, <1>8 DEF Standing, Row
<1> HIDE DEF d
<1>12. /\ db'.task[t].merge = "none" /\ db'.task[t].mode = r.mode
       /\ db'.task[t].stale = r.stale
  BY <1>3, <1>9, <1>10, <1>11
<1>13. Only(db, db', t)
  BY <1>6, <1>7, <1>9, OnlyTransitive
<1>14. NoLease(db', t) /\ ~Managed(db', t)
  BY <1>2, <1>7, <1>9, <1>12 DEF SameLease, NoLease, Managed, r
<1> QED
  BY <1>2, <1>3, <1>12, <1>13, <1>14, ClosedDelivers DEF r
-----------------------------------------------------------------------------
(* Groups.                                                                 *)

\* A group may start after steps that keep every reservation.
LEMMA BegunDelivers ==
  ASSUME NEW s, NEW k, Sound(k), NEW g \in Task, g \in Group,
         \A u \in Task : Plain(s, k, u) /\ SameReserved(s, k, u),
         SameScopes(s, k), AllValid(s, k)
  PROVE  Delivers(s, GroupStarted(k, g))
<1> DEFINE n == GroupStarted(k, g)
           a == k.task[g]
           b == n.task[g]
<1>1. /\ n.lease = k.lease /\ n.forced = k.forced
      /\ \A u \in Task \ {g} : n.task[u] = k.task[u]
      /\ b = BegunRow(a, b.status, b.wanted)
      /\ \/ b.status = a.status /\ SameReservations(k, n)
         \/ b.status = "in_progress" /\ Reserves(k, n, g)
  BY GroupStartedAt
<1>2. a \in Row
  BY RowOf
<1> HIDE DEF n, a, b
<1>3. /\ b.prepared = a.prepared /\ b.phase = a.phase
      /\ b.merge = a.merge /\ b.stale = a.stale
  BY <1>1, <1>2 DEF BegunRow, Row
<1>4. \A u \in Task : Hold(n, u) = Hold(k, u)
  BY <1>1 DEF Hold
<1>5. /\ \A u \in Task : /\ n.scope[u] \in {k.scope[u], ScopesOf(k, u)}
                         /\ k.resource[u] \subseteq n.resource[u]
      /\ b.status = a.status \/ (b.status = "in_progress" /\ Covers(n, g))
  <2>1. CASE b.status = a.status /\ SameReservations(k, n)
    BY <2>1 DEF SameReservations
  <2>2. CASE b.status = "in_progress" /\ Reserves(k, n, g)
    BY <2>2, ReservesLoose DEF Owners
  <2> QED
    BY <1>1, <2>1, <2>2
<1>6. ASSUME NEW u \in Task
      PROVE  /\ n.scope[u] \in {s.scope[u], ScopesOf(s, u)}
             /\ s.resource[u] \subseteq n.resource[u]
             /\ Hold(n, u) \in {"none", Hold(s, u)}
  BY <1>4, <1>5 DEF SameReserved, SameScopes, Plain
<1>7. AllValid(s, n)
  <2>1. ASSUME NEW u \in Task PROVE Valid(k, n, u)
    BY <1>1, <1>3 DEF Valid, a, b
  <2> QED
    BY <2>1, ValidThrough DEF AllValid
<1>8. ASSUME NEW u \in Task, u # g PROVE Durable(s, n, u) /\ Owning(s, n, u)
  <2>1. Plain(s, n, u)
    BY <1>1, <1>6, <1>8 DEF Plain, Loose, OpenIn
  <2> QED
    BY <2>1, PlainDurable
<1>9. Durable(s, n, g) /\ Owning(s, n, g)
  <2>1. /\ b.status = "done" => s.task[g].status = "done"
        /\ b.prepared => s.task[g].prepared
        /\ OpenIn(n, g) => OpenIn(s, g) \/ Covers(n, g)
    BY <1>3, <1>5 DEF Plain, Loose, OpenIn, a, b
  <2> QED
    BY <1>6, <2>1 DEF Durable, Owning, b
<1> QED
  BY <1>7, <1>8, <1>9 DEF Delivers, n

\* settle_group leaves reservations and results, and puts a complete group
\* under review.
LEMMA SettlesPlain ==
  ASSUME NEW s, Sound(s), NEW g \in Task, g \in Group
  PROVE  LET n == GroupSettled(s, g) IN
         /\ Only(s, n, g) /\ Plain(s, n, g) /\ SameReserved(s, n, g) /\ AllValid(s, n)
<1> DEFINE n == GroupSettled(s, g)
           r == s.task[g]
           k == n.task[g]
<1>1. CASE n = s
  <2> HIDE DEF n
  <2>1. Only(s, n, g) /\ Plain(s, n, g) /\ SameReserved(s, n, g) /\ AllValid(s, n)
    BY <1>1 DEF Only, Plain, Loose, SameReserved, AllValid, Valid
  <2> QED
    BY <2>1 DEF n
<1>2. CASE n # s
  <2>1. /\ Integrated(s, g) /\ Only(s, n, g) /\ NoLease(n, g)
        /\ Managed(s, g) => SameReserved(s, n, g)
        /\ \E merge \in {"pending_review", "queued"} :
             k = [Standing(r, "in_review", "none") EXCEPT !.result = TRUE, !.merge = merge]
    BY <1>2, GroupSettledAt
  <2>2. r \in Row /\ Managed(s, g)
    BY RowOf DEF Managed
  <2> HIDE DEF n, r, k
  <2>3. PICK merge \in {"pending_review", "queued"} :
             k = [Standing(r, "in_review", "none") EXCEPT !.result = TRUE, !.merge = merge]
    BY <2>1
  <2>4. k.status = "in_review" /\ k.prepared = r.prepared /\ k.stale = r.stale
    BY <2>2, <2>3 DEF Standing, Row
  <2>5. Plain(s, n, g) /\ SameReserved(s, n, g)
    BY <2>1, <2>2, <2>4 DEF Plain, Loose, OpenIn, SameReserved, NoLease, Hold, k, r
  <2>6. Integrated(n, g)
    <3>1. \A c \in Children(g) : c \in Task \ {g}
      BY ChildrenApart DEF Children
    <3> QED
      BY <2>1, <3>1 DEF Integrated, Only
  <2>7. AllValid(s, n)
    BY <2>1, <2>4, <2>6 DEF AllValid, Valid, Only, k, r
  <2> QED
    BY <2>1, <2>5, <2>7 DEF n
<1> QED
  BY <1>1, <1>2

\* A step that moves the group of a submission back, and marks its subtasks.
LEMMA SubmittedPlain ==
  ASSUME Coherent(db), NEW g \in Task, g \in Group
  PROVE  LET k == Submitted(Moved(db, g, "todo", "none"), g) IN
         /\ Sound(k) /\ SameScopes(db, k) /\ AllValid(db, k)
         /\ \A u \in Task : Plain(db, k, u) /\ SameReserved(db, k, u)
<1> DEFINE m == Moved(db, g, "todo", "none")
           k == Submitted(m, g)
           r == db.task[g]
<1>1. Sound(db) /\ r \in Row /\ Managed(db, g)
  BY RowOf DEF Coherent, Managed
<1>2. "todo" \in Status /\ "none" \in RunState
  BY DEF Status, RunState
<1>3. Sound(m)
  BY <1>1, <1>2, MovedSound
<1>4. /\ Only(db, m, g) /\ m.task[g] = Standing(r, "todo", "none")
      /\ NoLease(m, g) /\ SameReserved(db, m, g)
  BY <1>1, <1>2, MovedAt
<1> HIDE DEF m
<1>5. /\ Sound(k) /\ k.lease = m.lease /\ k.forced = m.forced /\ SameReservations(m, k)
      /\ k.task[g] = SubmittedRow(m.task[g])
      /\ \A u \in Task \ {g} :
           \/ k.task[u] = m.task[u]
           \/ u \in Children(g) /\ k.task[u] = ContinuedRow(m.task[u], k.task[u].again)
  BY <1>3, SubmittedAt
<1> HIDE DEF k
<1>6. \A u \in Task : SameReserved(db, k, u) /\ Hold(k, u) \in {"none", Hold(db, u)}
  BY <1>4, <1>5 DEF SameReservations, SameReserved, Only, NoLease, Hold
<1>7. /\ k.task[g].status = "todo" /\ k.task[g].prepared = r.prepared
      /\ k.task[g].merge = "none" /\ k.task[g].stale = r.stale
      /\ k.task[g].scopes = r.scopes
  <2> DEFINE a == m.task[g]
             b == k.task[g]
  <2> HIDE DEF a, b, r
  <2>1. a = Standing(r, "todo", "none") /\ b = SubmittedRow(a) /\ a \in Row
    BY <1>3, <1>4, <1>5, RowOf DEF a, b
  <2>2. /\ a.status = "todo" /\ a.prepared = r.prepared /\ a.stale = r.stale
        /\ a.scopes = r.scopes
    BY <1>1, <2>1 DEF Standing, Row
  <2>3. /\ b.status = a.status /\ b.prepared = a.prepared /\ b.merge = "none"
        /\ b.stale = a.stale /\ b.scopes = a.scopes
    BY <2>1 DEF SubmittedRow, Row
  <2> QED
    BY <2>2, <2>3 DEF b
<1>8. ASSUME NEW u \in Task \ {g}
      PROVE  /\ k.task[u].status = db.task[u].status
             /\ k.task[u].prepared = db.task[u].prepared
             /\ k.task[u].phase = db.task[u].phase
             /\ k.task[u].merge = db.task[u].merge
             /\ k.task[u].stale = db.task[u].stale
             /\ k.task[u].scopes = db.task[u].scopes
  <2> DEFINE a == db.task[u]
             b == k.task[u]
  <2>1. a \in Row /\ (b = a \/ b = ContinuedRow(a, b.again))
    BY <1>1, <1>4, <1>5, RowOf DEF Only
  <2> HIDE DEF a, b
  <2>2. /\ b.status = a.status /\ b.prepared = a.prepared /\ b.phase = a.phase
        /\ b.merge = a.merge /\ b.stale = a.stale /\ b.scopes = a.scopes
    BY <2>1 DEF ContinuedRow, Row
  <2> QED
    BY <2>2 DEF a, b
<1>9. SameScopes(db, k)
  BY <1>7, <1>8, ScopesAlike DEF r
<1>10. AllValid(db, k)
  BY <1>7, <1>8 DEF AllValid, Valid, r
<1>11. ASSUME NEW u \in Task PROVE Plain(db, k, u)
  <2>1. CASE u = g
    BY <1>6, <1>7, <2>1 DEF Plain, Loose, OpenIn, SameReserved, r
  <2>2. CASE u # g
    BY <1>6, <1>8, <2>2 DEF Plain, Loose, OpenIn, SameReserved
  <2> QED
    BY <2>1, <2>2
<1> QED
  BY <1>5, <1>6, <1>9, <1>10, <1>11 DEF k, m

\* What users, the loop and Git do to groups.
LEMMA GroupDelivers ==
  ASSUME Coherent(db), Regular => Owned(db), NEW t \in Task,
         \/ GroupSubmit(t) \/ RunGroup(t) \/ DispatchGroup(t) \/ DispatchSettle(t)
         \/ GroupPrepared(t) \/ GroupPrepareFails(t)
  PROVE  Delivers(db, db')
<1> DEFINE r == db.task[t]
<1>1. Sound(db) /\ r \in Row
  BY RowOf DEF Coherent
<1>2. CASE GroupSubmit(t)
  <2> DEFINE k == Submitted(Moved(db, t, "todo", "none"), t)
  <2>1. t \in Group /\ (db' = k \/ db' = GroupStarted(k, t))
    BY <1>2, GroupSubmitAt
  <2>2. /\ Sound(k) /\ SameScopes(db, k) /\ AllValid(db, k)
        /\ \A u \in Task : Plain(db, k, u) /\ SameReserved(db, k, u)
    BY <2>1, SubmittedPlain
  <2> HIDE DEF k
  <2> QED
    BY <2>1, <2>2, PlainDelivers, BegunDelivers
<1>3. CASE RunGroup(t) \/ DispatchGroup(t)
  <2>1. t \in Group /\ db' = GroupStarted(db, t)
    BY <1>3 DEF RunGroup, DispatchGroup
  <2>2. /\ SameScopes(db, db) /\ AllValid(db, db)
        /\ \A u \in Task : Plain(db, db, u) /\ SameReserved(db, db, u)
    BY DEF SameScopes, AllValid, Valid, Plain, Loose, SameReserved
  <2> QED
    BY <1>1, <2>1, <2>2, BegunDelivers
<1>4. CASE DispatchSettle(t)
  <2>1. t \in Group /\ db' = GroupSettled(db, t)
    BY <1>4 DEF DispatchSettle
  <2>2. Only(db, db', t) /\ Plain(db, db', t) /\ AllValid(db, db')
    BY <1>1, <2>1, SettlesPlain
  <2> QED
    BY <2>2, OnlyPlain, PlainDelivers
<1>5. CASE GroupPrepared(t)
  <2> DEFINE k == [r EXCEPT !.prepared = TRUE]
  <2>1. db' = Put(db, t, k) /\ t \in Group /\ OpenIn(db, t)
    BY <1>5 DEF GroupPrepared, Preparing, OpenIn, row
  <2> HIDE DEF r
  <2>2. /\ k.status = r.status /\ k.phase = r.phase
        /\ k.merge = r.merge /\ k.stale = r.stale
    BY <1>1 DEF Row
  <2>3. /\ Only(db, db', t) /\ db'.task[t] = k
        /\ SameLease(db, db', t) /\ SameReserved(db, db', t)
    BY <1>1, <2>1, PutAt
  <2> HIDE DEF k
  <2>4. Regular => Covers(db, t) /\ Covers(db', t)
    BY <2>1, <2>3 DEF Owned, Covers, SameReserved
  <2>5. Durable(db, db', t)
    BY <2>2, <2>3 DEF Durable, SameReserved, r
  <2>6. Regular => Owning(db, db', t) /\ Valid(db, db', t)
    BY <2>1, <2>2, <2>3, <2>4 DEF Owning, Valid, SameLease, SameReserved, Hold, r
  <2> QED
    BY <2>3, <2>5, <2>6, OnlyDelivers
<1>6. CASE GroupPrepareFails(t)
  <2> DEFINE s == ReleaseAll(db, t)
             k == [r EXCEPT !.phase = "paused", !.paused = TRUE, !.run = "failed"]
  <2>1. db' = Put(s, t, k) /\ t \in Group /\ r.status = "in_progress" /\ ~r.prepared
    BY <1>6 DEF GroupPrepareFails, row
  <2>2. Sound(s) /\ Only(db, s, t) /\ NoLease(s, t)
    BY <1>1, ReleaseAllSound, ReleaseAllAt
  <2> HIDE DEF s, r
  <2>3. /\ k.status = r.status /\ k.prepared = r.prepared /\ k.phase = "paused"
        /\ k.paused = TRUE /\ k.merge = r.merge /\ k.stale = r.stale
    BY <1>1 DEF Row
  <2> HIDE DEF k
  <2>4. Only(s, db', t) /\ db'.task[t] = k /\ SameLease(s, db', t)
    BY <2>1, <2>2, PutAt
  <2>5. Only(db, db', t) /\ NoLease(db', t)
    BY <2>2, <2>4, OnlyTransitive DEF NoLease, SameLease
  <2>6. Durable(db, db', t)
    BY <2>1, <2>3, <2>4 DEF Durable, Awaiting, r
  <2>7. Owning(db, db', t) /\ Valid(db, db', t)
    BY <2>1, <2>3, <2>4, <2>5 DEF Owning, Valid, OpenIn, NoLease, Hold, r
  <2> QED
    BY <2>5, <2>6, <2>7, OnlyDelivers
<1> QED
  BY <1>2, <1>3, <1>4, <1>5, <1>6

\* Integrating a task is a step for that task.
LEMMA IntegratesDelivers ==
  ASSUME Coherent(db), Regular => Complete(db), NEW t \in Task,
         db.task[t].merge = "merging"
  PROVE  LET n == Integrates(db, t) IN
         /\ Sound(n) /\ Only(db, n, t) /\ Hold(n, t) = "none"
         /\ Durable(db, n, t)
         /\ Regular => Owning(db, n, t) /\ AllValid(db, n)
<1> DEFINE n == Integrates(db, t)
           r == db.task[t]
           k == n.task[t]
<1>1. Sound(db) /\ r \in Row
  BY RowOf DEF Coherent
<1>2. Sound(n) /\ Only(db, n, t) /\ k = IntegratedRow(r) /\ NoLease(n, t)
  BY <1>1, IntegratesAt
<1> HIDE DEF n, r, k
<1>3. /\ k.status = "done" /\ k.merge = "merged" /\ k.stale = r.stale
      /\ k.prepared = r.prepared
  BY <1>1, <1>2 DEF IntegratedRow, Standing, Row
<1>4. Durable(db, n, t)
  BY <1>3 DEF Durable, Awaiting, k, r
<1>5. Hold(n, t) = "none"
  BY <1>2 DEF NoLease, Hold
<1>6. ASSUME Regular, t \in Group, NEW c \in Children(t) PROVE Hold(n, c) = "none"
  <2>1. c \in Task \ {t}
    BY ChildrenApart DEF Children
  <2>2. db.task[c].merge = "merged"
    BY <1>6 DEF Complete, Integrated
  <2>3. db.lease[c] = "none"
    BY <1>6, <2>1, <2>2 DEF Coherent, FitsIn, Fits, LeasedRow, Regular
  <2> QED
    BY <1>2, <2>1, <2>3 DEF Only, Hold
<1>7. Regular => Owning(db, n, t)
  BY <1>3, <1>5, <1>6 DEF Owning, OpenIn, k, r
<1>8. AllValid(db, n)
  <2>1. Valid(db, n, t)
    BY <1>3 DEF Valid, k, r
  <2> QED
    BY <1>2, <2>1, OnlyPlain DEF AllValid
<1> QED
  BY <1>2, <1>4, <1>5, <1>7, <1>8 DEF n

\* What the merge queue does before and after a candidate is verified.
LEMMA MergingDelivers ==
  ASSUME Coherent(db), Regular => Complete(db), NEW t \in Task,
         MergePrepare(t) \/ MergePublish(t)
  PROVE  Delivers(db, db')
<1> DEFINE r == db.task[t]
<1>1. Sound(db) /\ r \in Row
  BY RowOf DEF Coherent
<1>2. CASE MergePrepare(t)
  <2> DEFINE v == ReserveScopes(db, t)
             with(merge, worker) == [r EXCEPT !.merge = merge, !.worker = worker]
  <2>1. PICK merge \in {"blocked", "merging"}, worker \in BOOLEAN :
          /\ r.merge = "queued"
          /\ \/ db' = Put(db, t, with(merge, worker))
             \/ ScopesFree(db, t) /\ db' = Put(v, t, with(merge, worker))
    BY <1>2 DEF MergePrepare, row
  <2> DEFINE k == with(merge, worker)
  <2>2. /\ k.status = r.status /\ k.prepared = r.prepared /\ k.phase = r.phase
        /\ k.merge = merge /\ k.stale = r.stale
    <3> HIDE DEF r
    <3> QED
      BY <1>1 DEF Row
  <2>3. db' = Put(db, t, k) \/ (ScopesFree(db, t) /\ db' = Put(v, t, k))
    BY <2>1
  <2> HIDE DEF k, r
  <2>4. Alike(t, r, k)
    BY <2>1, <2>2 DEF Alike
  <2>5. CASE db' = Put(db, t, k)
    BY <1>1, <2>4, <2>5, PutWrites, WritesDelivers DEF r
  <2>6. CASE ScopesFree(db, t) /\ db' = Put(v, t, k)
    <3>1. Sound(v)
      BY <1>1, <2>6, ReserveScopesSound
    <3>2. /\ v.task = db.task /\ v.lease = db.lease /\ v.forced = db.forced
          /\ v.resource = db.resource
          /\ \A u \in Task : v.scope[u] \in {db.scope[u], ScopesOf(db, u)}
      BY <1>1, ReserveScopesAt
    <3> HIDE DEF v
    <3>3. Writes(v, db', t)
      BY <2>4, <2>6, <3>1, <3>2, PutWrites DEF r
    <3>4. ASSUME NEW u \in Task PROVE Plain(db, db', u) /\ (Regular => Valid(db, db', u))
      <4>1. Plain(v, db', u) /\ (Regular => Valid(v, db', u))
        BY <3>3, WritesPlain
      <4>2. db'.scope[u] = v.scope[u]
        BY <3>3 DEF Writes, Only, SameReserved
      <4>3. Plain(db, db', u)
        BY <3>2, <4>1, <4>2 DEF Plain, Loose, OpenIn, Hold
      <4>4. Regular => Valid(db, db', u)
        BY <3>2, <4>1 DEF Valid
      <4> QED
        BY <4>3, <4>4
    <3> QED
      BY <3>4, PlainDelivers DEF AllValid
  <2> QED
    BY <2>3, <2>5, <2>6
<1>3. CASE MergePublish(t)
  <2> DEFINE n == Integrates(db, t)
             g == RootOf[t]
  <2>1. /\ db' = IF IsChild(t) THEN GroupSettled(n, g) ELSE n
        /\ r.merge = "merging"
    BY <1>3 DEF MergePublish, MayPublish, Integrates, row
  <2>2. /\ Sound(n) /\ Only(db, n, t) /\ Hold(n, t) = "none"
        /\ Durable(db, n, t)
        /\ Regular => Owning(db, n, t) /\ AllValid(db, n)
    BY <2>1, IntegratesDelivers
  <2> HIDE DEF n
  <2>3. CASE ~IsChild(t)
    <3>1. db' = n
      BY <2>1, <2>3
    <3> QED
      BY <2>2, <3>1, OnlyDelivers DEF AllValid
  <2>4. CASE IsChild(t)
    <3>1. g \in Task /\ g \in Group /\ g # t /\ t \notin Group
      BY <2>4, ChildrenApart
    <3> HIDE DEF g
    <3>2. /\ Only(n, db', g) /\ Plain(n, db', g) /\ SameReserved(n, db', g)
          /\ AllValid(n, db')
      BY <2>1, <2>2, <2>4, <3>1, SettlesPlain
    <3>3. Regular => AllValid(db, db')
      BY <2>2, <3>2, ValidThrough
    <3>4. Plain(db, db', g)
      BY <2>2, <3>1, <3>2 DEF Plain, Loose, OpenIn, Only, SameReserved, Hold
    <3>5. ASSUME NEW u \in Task \ {t} PROVE Plain(db, db', u)
      <4>1. CASE u = g
        BY <3>4, <4>1
      <4>2. CASE u # g
        BY <2>2, <3>2, <4>2 DEF Plain, Loose, OpenIn, Only, Hold
      <4> QED
        BY <4>1, <4>2
    <3>6. Durable(db, db', t) /\ Owning(db, db', t)
      <4>1. /\ db'.task[t] = n.task[t] /\ db'.lease[t] = n.lease[t]
            /\ db'.forced[t] = n.forced[t] /\ db'.scope[t] = n.scope[t]
            /\ db'.resource[t] = n.resource[t]
        BY <3>1, <3>2 DEF Only
      <4> QED
        BY <2>2, <3>1, <4>1 DEF Durable, Owning, Managed, Awaiting, Hold
    <3>7. \A u \in Task : Durable(db, db', u) /\ Owning(db, db', u)
      BY <3>5, <3>6, PlainDurable
    <3> QED
      BY <3>3, <3>7 DEF Delivers
  <2> QED
    BY <2>3, <2>4
<1> QED
  BY <1>2, <1>3
-----------------------------------------------------------------------------
(* Every step, and what follows for the board.                              *)

\* Reviews are complete and executions own their resources between the steps.
Delivering(s) == Coherent(s) /\ (Regular => Complete(s) /\ Owned(s))

LEMMA NextDelivers ==
  ASSUME Delivering(db), [Next]_vars
  PROVE  Delivers(db, db') /\ Delivering(db')
<1>1. /\ Coherent(db)
      /\ Regular => Complete(db) /\ Owned(db)
  BY DEF Delivering
<1>2. Delivers(db, db')
  <2>1. CASE UNCHANGED vars
    <3>1. \A u \in Task : Plain(db, db', u) /\ Valid(db, db', u)
      BY <2>1 DEF vars, Plain, Loose, Valid
    <3> QED
      BY <3>1, PlainDelivers DEF AllValid
  <2>2. CASE Next
    <3>1. PICK t \in Task : UserAction(t) \/ LoopAction(t) \/ CodexAction(t)
      BY <2>2 DEF Next
    <3>2. CASE UserAction(t)
      BY <1>1, <3>2, QueueingDelivers, FollowUpDelivers, FinishDelivers, PauseDelivers,
         WritingDelivers, GroupDelivers DEF UserAction
    <3>3. CASE LoopAction(t)
      BY <1>1, <3>3, QueueingDelivers, GroupDelivers, WritingDelivers, TurnDelivers,
         ResultDelivers DEF LoopAction
    <3>4. CASE CodexAction(t)
      BY <1>1, <3>4, WritingDelivers, TurnDelivers, ResultDelivers, AdoptDelivers,
         GroupDelivers, MergingDelivers DEF CodexAction
    <3> QED
      BY <3>1, <3>2, <3>3, <3>4
  <2> QED
    BY <2>1, <2>2
<1>3. Coherent(db')
  BY <1>1, NextCoherent
<1> QED
  BY <1>1, <1>2, <1>3, DeliversComplete, DeliversOwned DEF Delivering

\* It holds at every moment.
LEMMA AlwaysDelivering == Spec => []Delivering(db)
<1>1. Init => Delivering(db)
  <2> SUFFICES ASSUME Init PROVE Delivering(db)
    OBVIOUS
  <2>1. \A u \in Task : Hold(db, u) = "none" /\ db.task[u].merge = "none"
                       /\ db.task[u].status = "todo"
    BY DEF Init, Created, Hold
  <2> QED
    BY <2>1, InitCoherent DEF Delivering, Complete, Owned, OpenIn
<1>2. Delivering(db) /\ [Next]_vars => Delivering(db)'
  <2> SUFFICES ASSUME Delivering(db), [Next]_vars PROVE Delivering(db')
    OBVIOUS
  <2> QED
    BY NextDelivers
<1> QED
  BY <1>1, <1>2, PTL DEF Spec

\* A managed task is closed as done by its merge alone: no completion, review,
\* requeue or cancellation of parallel_runtime.py marks it so.
THEOREM MergeDelivers == Spec => DoneByMerge
<1> DEFINE Done ==
      \A t \in Task :
        Managed(db', t) /\ row(t).status # "done" /\ db'.task[t].status = "done"
          => row(t).merge = "merging" /\ db'.task[t].merge = "merged"
<1>1. Delivering(db) /\ [Next]_vars => [Done]_vars
  <2> SUFFICES ASSUME Delivering(db), [Next]_vars PROVE Done
    OBVIOUS
  <2> QED
    BY NextDelivers DEF Delivers, Durable, row
<1> QED
  BY <1>1, AlwaysDelivering, PTL DEF Spec, DoneByMerge

\* From its completion to its integration a result keeps the scopes it declares
\* and every resource it took, whatever else is dispatched, retried or ended.
THEOREM ReservationsKept == Spec => ReservationsLast
<1> DEFINE Last ==
      \A t \in Task : Awaiting(db, t) /\ Awaiting(db', t) =>
        /\ db.scope[t] \subseteq db'.scope[t] \/ db'.scope[t] = ScopesOf(db, t)
        /\ db.resource[t] \subseteq db'.resource[t]
<1>1. Delivering(db) /\ [Next]_vars => [Last]_vars
  <2> SUFFICES ASSUME Delivering(db), [Next]_vars PROVE Last
    OBVIOUS
  <2> QED
    BY NextDelivers DEF Delivers, Durable
<1> QED
  BY <1>1, AlwaysDelivering, PTL DEF Spec, ReservationsLast

\* A group is reviewed, merged or merging only while every one of its subtasks
\* is integrated and none has to be validated again, provided nobody confirms
\* a blocked merge again and the board sees every native turn.
THEOREM ReviewIsComplete ==
  ASSUME Regular
  PROVE  Spec => []GroupReviewComplete
<1>1. Delivering(db) => GroupReviewComplete
  <2>1. Group \subseteq Task
    BY TaskAssumption
  <2> QED
    BY <2>1 DEF Delivering, Complete, Integrated, GroupReviewComplete, row
<1> QED
  BY <1>1, AlwaysDelivering, PTL

\* What the board let in owns every resource it declared, itself and through
\* its group, for as long as it runs.
THEOREM RunningIsOwner ==
  ASSUME Regular
  PROVE  Spec => []RunningOwnsResources
<1>1. Delivering(db) => RunningOwnsResources
  <2> SUFFICES ASSUME Delivering(db), NEW t \in Task, Granted(t), ~Unready(t),
                      NEW o \in Owners(t)
      PROVE  NeedsOf(t) \subseteq db.resource[o]
    BY DEF RunningOwnsResources
  <2>1. Hold(db, t) # "none"
    BY DEF Granted, Hold
  <2>2. Covers(db, t) /\ (IsChild(t) => Covers(db, RootOf[t]))
    BY <2>1 DEF Delivering, Owned, Unready, row
  <2>3. CASE o = t
    BY <2>2, <2>3 DEF Covers
  <2>4. CASE o # t
    <3>1. IsChild(t) /\ o = RootOf[t] /\ t \in Children(o) /\ o \in Group /\ t \notin Group
      BY <2>4, ChildrenApart DEF Owners, IsChild, Children
    <3>2. NeedsOf(t) \subseteq NeedsOf(o)
      BY <3>1 DEF NeedsOf
    <3> QED
      BY <2>2, <3>1, <3>2 DEF Covers
  <2> QED
    BY <2>3, <2>4
<1> QED
  BY <1>1, AlwaysDelivering, PTL

\* Whoever works again on an integrated task has every started consumer of its
\* result, direct or not, marked to validate again (mark_downstream_stale).
THEOREM ReworksMark ==
  ASSUME Regular
  PROVE  Spec => ReworkMarks
<1> DEFINE Marks ==
      \A t \in Task \ Group :
        row(t).merge = "merged" /\ db'.task[t].merge # "merged" =>
          \A d \in Downstream(t) :
            row(d).turn # "none" \/ row(d).result => db'.task[d].stale
<1>1. Delivering(db) /\ [Next]_vars => [Marks]_vars
  <2> SUFFICES ASSUME Delivering(db), [Next]_vars, NEW t \in Task \ Group,
                      row(t).merge = "merged", db'.task[t].merge # "merged",
                      NEW d \in Downstream(t), row(d).turn # "none" \/ row(d).result
      PROVE  db'.task[d].stale
    OBVIOUS
  <2>1. PICK w \in Task \ Group : Reworks(db, db', w)
    BY NextDelivers DEF Delivers, AllValid, Valid, row
  <2>2. w = t
    BY <2>1 DEF Reworks, row
  <2>3. d \in Task \ {t}
    BY ConsumersApart
  <2> QED
    BY <2>1, <2>2, <2>3 DEF Reworks, ToMark, row
<1> QED
  BY <1>1, AlwaysDelivering, PTL DEF Spec, ReworkMarks
=============================================================================
