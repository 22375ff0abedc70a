---------------------------- MODULE ExecutionProofs ----------------------------
(* A prompt is recorded before its turn can start and starts one turn at   *)
(* most, whatever is lost, stopped, restarted or asked again; one worktree *)
(* and one thread are made for a managed task; no turn starts before it is *)
(* known what became of the others; a confirmed pause is quiet.            *)
(*                                                                         *)
(* Most of what the handlers do is Calm: no prompt is recorded or comes    *)
(* up, at most coroutines end and the queue empties.  What is left are the *)
(* steps of a prompt from its request to its turn.  The second half says   *)
(* of each handler which fields it writes, and that every entry of the     *)
(* journal but that of the start under way is closed.                      *)
EXTENDS Execution, NaturalsInduction, WellFoundedInduction, TLAPS

TaskRec == [status : {"todo", "in_progress", "in_review", "canceled"},
            run : {"none", "starting", "running", "waiting_quota", "failed"},
            paused : BOOLEAN, conflict : BOOLEAN, observe : BOOLEAN, uncertain : Nat,
            thread : BOOLEAN, tree : BOOLEAN]
QueueRec == [state : {"none", "pending", "claimed", "done"}, prompt : Nat]
OpRec == [prompt : Nat, state : {"uncertain", "agent_running", "blocked", "completed"},
          turn : Nat, prev : Nat]
RunRec == [turn : Nat, state : {"running", "failed", "completed", "waiting_quota", "interrupted"}]
Creation == {"none", "asked", "flagged", "ready"}
TurnState == {"active", "completed", "failed", "quota", "interrupted"}

\* Where the worker has a prompt that it has not recorded yet, and where it has none.
Before == {"begin", "tree", "thread", "resume", "options"}
Without == {"none", "wait", "limits"}

\* The rows and the memory, while Codex shows n turns.
WorkerRec(n) == [pc : Before \cup Without \cup {"turn"}, prompt : Nat, op : Nat, turn : 0..n]
FollowRec == [pc : {"none", "options", "turn"}, prompt : Nat, op : Nat, row : TaskRec \cup {<<>>}]
StopRec == [pc : {"none", "ask", "check", "apply"}, kind : {"none", "pause", "cancel", "requeue"}]
LoopRec(n) == [pc : {"idle", "sync", "limits", "reconcile", "recover"}, latest : 0..n,
               state : TurnState \cup {"none"}, op : Nat]
LimitRec(n) == [by : {"worker", "loop", "notice"}, turn : 0..n]
States(n) ==
  [managed : BOOLEAN, task : TaskRec, queue : QueueRec, lease : BOOLEAN, ops : Seq(OpRec),
   threadOp : Creation, treeOp : Creation, runs : Seq(RunRec), turn : 0..n,
   starting : BOOLEAN, override : BOOLEAN, worker : WorkerRec(n), follow : FollowRec,
   stop : StopRec, loop : LoopRec(n), ended : SUBSET (0..n), limits : SUBSET LimitRec(n)]

Typed(x, n) ==
  /\ x \in States(n)
  /\ x.task.uncertain <= Len(x.ops) /\ x.worker.op <= Len(x.ops) /\ x.follow.op <= Len(x.ops)
  /\ x.follow.pc # "none" => x.follow.row \in TaskRec
  /\ x.stop.pc # "none" => x.stop.kind # "none"

\* No claim is possible, for a turn is started or runs.
Busy(x) == x.lease /\ x.task.run \in {"starting", "running"}
Pausing(x) == x.stop.pc # "none" /\ x.stop.kind = "pause"

SamePrompts(x, y) ==
  Len(y.ops) = Len(x.ops) /\ \A i \in 1..Len(x.ops) : y.ops[i].prompt = x.ops[i].prompt

\* A row without a thread is not made to begin again.
Keeps(x, k) ==
  x.task.thread \/ (x.task.run = "starting" /\ (k.status = "in_progress" => x.task.status = "in_progress"))

\* Coroutines stay where they are, or end.
Still(x, y) ==
  /\ SamePrompts(x, y)
  /\ y.managed = x.managed /\ y.task.thread = x.task.thread
  /\ y.treeOp = x.treeOp /\ y.threadOp = x.threadOp
  /\ y.worker = x.worker \/ y.worker.pc \in Without
  /\ y.follow = x.follow \/ y.follow.pc = "none"
  /\ \/ y.stop = x.stop \/ y.stop.pc = "none"
     \/ x.stop.pc # "none" /\ y.stop.kind = x.stop.kind
  /\ y.task.run = "starting" => Keeps(x, y.task)

\* What waits in the queue stays there as it was, or waits no more.
Waits(x, y) ==
  /\ y.queue.prompt = x.queue.prompt
  /\ \/ y.queue.state # "pending"
     \/ y.queue.state = x.queue.state /\ (Busy(x) => Busy(y))
     \/ y.queue.state = x.queue.state /\ Pausing(x)

Calm(x, y) == Still(x, y) /\ Waits(x, y)

\* The prompts in the journal, and those of turns.
InJournal(x) == {x.ops[i].prompt : i \in DOMAIN x.ops}
InTurns(c) == {c.turns[i].prompt : i \in DOMAIN c.turns} \ {0}
-----------------------------------------------------------------------------
LEMMA CalmSame ==
  ASSUME NEW x
  PROVE  Calm(x, x)
BY DEF Calm, Still, Keeps, Waits, SamePrompts

LEMMA CalmThrough ==
  ASSUME NEW x, NEW y, NEW z, Calm(x, y), Calm(y, z)
  PROVE  Calm(x, z)
<1>1. SamePrompts(x, z)
  BY DEF Calm, Still, Keeps, SamePrompts
<1>2. Still(x, z)
  BY <1>1 DEF Calm, Still, Keeps
<1>3. Pausing(y) => Pausing(x)
  BY DEF Calm, Still, Keeps, Pausing
<1>4. Waits(x, z)
  BY <1>3 DEF Calm, Waits
<1> QED BY <1>2, <1>4 DEF Calm

Sane(x, y, n) == Typed(y, n) /\ Calm(x, y)

LEMMA SaneThrough ==
  ASSUME NEW n, NEW x, NEW y, NEW z, Sane(x, y, n), Sane(y, z, n)
  PROVE  Sane(x, z, n)
BY CalmThrough DEF Sane

Fields == {"managed", "task", "queue", "lease", "ops", "threadOp", "treeOp", "runs", "turn",
           "starting", "override", "worker", "follow", "stop", "loop", "ended", "limits"}

\* y differs from x in the fields of F.
Beside(x, y, F) == DOMAIN y = Fields /\ \A f \in Fields \ F : y[f] = x[f]

\* The row is written.
LEMMA RowWritten ==
  ASSUME NEW n, NEW x, Typed(x, n), NEW k \in TaskRec, k.uncertain <= Len(x.ops),
         k.thread = x.task.thread, k.run = "starting" => Keeps(x, k),
         NEW y, y = [x EXCEPT !.task = k]
  PROVE  Typed(y, n) /\ Still(x, y) /\ y.task = k /\ Beside(x, y, {"task"})
<1>1. DOMAIN x = Fields
  BY DEF Typed, States, Fields
<1>2. Beside(x, y, {"task"}) /\ y.task = k
  BY <1>1 DEF Beside, Fields
<1>3. y \in States(n)
  BY DEF Typed, States
<1>4. Typed(y, n)
  BY <1>2, <1>3 DEF Typed, Beside, Fields
<1>5. Still(x, y)
  BY <1>2 DEF Still, Keeps, SamePrompts, Beside, Fields
<1> QED BY <1>2, <1>4, <1>5

LEMMA FinishedSane ==
  ASSUME NEW n, NEW x, Typed(x, n), NEW y, y = Finished(x)
  PROVE  Sane(x, y, n) /\ y.queue.state # "pending" /\ Beside(x, y, {"queue"})
<1>1. DOMAIN x = Fields /\ x.queue \in QueueRec
  BY DEF Typed, States, Fields
<1>2. Beside(x, y, {"queue"}) /\ y.queue \in QueueRec
      /\ y.queue.state # "pending" /\ y.queue.prompt = x.queue.prompt
  BY <1>1 DEF Beside, Fields, Finished, QueueRec
<1>3. y \in States(n)
  BY <1>1, <1>2 DEF Typed, States, Finished
<1>4. Typed(y, n)
  BY <1>2, <1>3 DEF Typed, Beside, Fields
<1>5. Calm(x, y)
  BY <1>2 DEF Calm, Still, Keeps, Waits, SamePrompts, Beside, Fields
<1> QED BY <1>2, <1>4, <1>5 DEF Sane

LEMMA GiveBackSane ==
  ASSUME NEW n, NEW x, Typed(x, n), NEW y, y = GiveBack(x)
  PROVE  Sane(x, y, n) /\ y.queue.state # "pending" /\ Beside(x, y, {"queue", "lease"})
<1> DEFINE k == [x EXCEPT !.lease = FALSE]
<1>1. DOMAIN x = Fields
  BY DEF Typed, States, Fields
<1>2. Beside(x, k, {"lease"})
  BY <1>1 DEF Beside, Fields
<1>3. k \in States(n)
  BY DEF Typed, States
<1>4. Typed(k, n)
  BY <1>2, <1>3 DEF Typed, Beside, Fields
<1>5. Still(x, k) /\ k.queue = x.queue
  BY <1>2 DEF Still, Keeps, SamePrompts, Beside, Fields
<1>6. y = Finished(k)
  BY DEF GiveBack
<1> HIDE DEF k
<1>7. Sane(k, y, n) /\ y.queue.state # "pending" /\ Beside(k, y, {"queue"})
  BY <1>4, <1>6, FinishedSane
<1>8. Calm(x, y)
  BY <1>5, <1>7 DEF Sane, Calm, Still, Keeps, Waits, SamePrompts
<1> QED BY <1>2, <1>7, <1>8 DEF Sane, Beside

\* A write of the status that ends or resumes the task.
LEMMA MovedSane ==
  ASSUME NEW n, NEW x, Typed(x, n), NEW status \in {"todo", "in_progress", "in_review", "canceled"},
         NEW run \in {"none", "starting", "running", "waiting_quota", "failed"},
         run = "starting" => x.task.thread,
         status # "in_progress" \/ x.queue.state # "pending",
         NEW y, y = Moved(x, status, run)
  PROVE  /\ Sane(x, y, n) /\ y.queue.state # "pending"
         /\ Beside(x, y, {"task", "queue", "lease"})
         /\ y.task.status = status /\ y.task.run = run
         /\ y.task.uncertain = x.task.uncertain
<1> DEFINE k == [x.task EXCEPT !.status = status, !.run = run]
           z == [x EXCEPT !.task = k]
<1>1. DOMAIN x = Fields /\ x.task \in TaskRec /\ x.task.uncertain <= Len(x.ops)
  BY DEF Typed, States, Fields
<1>2. k \in TaskRec /\ k.status = status /\ k.run = run /\ k.thread = x.task.thread
      /\ k.uncertain = x.task.uncertain
  BY <1>1 DEF TaskRec
<1>3. y = IF status = "in_progress" THEN z ELSE GiveBack(z)
  BY <1>1 DEF Moved, TaskRec, Fields
<1> HIDE DEF k
<1>4. Typed(z, n) /\ Still(x, z) /\ z.task = k /\ Beside(x, z, {"task"})
  <2>1. k.run = "starting" => Keeps(x, k)
    BY <1>2 DEF Keeps
  <2>2. k \in TaskRec /\ k.uncertain <= Len(x.ops) /\ k.thread = x.task.thread
    BY <1>1, <1>2
  <2>3. z = [x EXCEPT !.task = k]
    OBVIOUS
  <2> HIDE DEF z
  <2> QED BY <2>1, <2>2, <2>3, RowWritten
<1> HIDE DEF z
<1>5. CASE status = "in_progress"
  <2>1. z.queue = x.queue
    BY <1>4 DEF Beside, Fields
  <2> QED BY <1>2, <1>3, <1>4, <1>5, <2>1 DEF Sane, Calm, Waits, Beside
<1>6. CASE status # "in_progress"
  <2>1. Sane(z, y, n) /\ y.queue.state # "pending" /\ Beside(z, y, {"queue", "lease"})
    BY <1>3, <1>4, <1>6, GiveBackSane
  <2>2. z.queue = x.queue /\ y.task = k
    BY <1>4, <2>1 DEF Beside, Fields
  <2>3. Calm(x, y)
    BY <1>4, <2>1, <2>2 DEF Sane, Calm, Still, Keeps, Waits, SamePrompts
  <2> QED BY <1>2, <1>4, <2>1, <2>2, <2>3 DEF Sane, Beside
<1> QED BY <1>5, <1>6

\* What no prompt depends on.
Side == {"runs", "turn", "starting", "override", "loop", "ended", "limits"}

LEMMA SideSane ==
  ASSUME NEW n, NEW x, Typed(x, n), NEW y, y \in States(n), Beside(x, y, Side)
  PROVE  Sane(x, y, n)
<1>1. \A f \in {"managed", "task", "queue", "lease", "ops", "threadOp", "treeOp", "worker",
                "follow", "stop"} : y[f] = x[f]
  BY DEF Beside, Side, Fields
<1>2. Typed(y, n)
  BY <1>1 DEF Typed
<1>3. Calm(x, y)
  BY <1>1 DEF Calm, Still, Keeps, Waits, SamePrompts, Busy
<1> QED BY <1>2, <1>3 DEF Sane

\* The latest run is written again.
LEMMA LastWritten ==
  ASSUME NEW S, NEW q \in Seq(S), q # <<>>, NEW e \in S
  PROVE  Front(q) \o <<e>> \in Seq(S)
<1>1. Front(q) \in Seq(S)
  BY DEF Front
<1> QED BY <1>1

RunState == {"running", "failed", "completed", "waiting_quota", "interrupted"}

LEMMA LastIn ==
  ASSUME NEW S, NEW q \in Seq(S), q # <<>>
  PROVE  Last(q) \in S
BY DEF Last

LEMMA UpdatedSane ==
  ASSUME NEW n, NEW x, Typed(x, n), NEW state \in RunState, NEW y, y = Updated(x, state)
  PROVE  Sane(x, y, n) /\ Beside(x, y, {"runs"})
<1> DEFINE S == RunRec
           r == IF x.runs = <<>> THEN x.runs
                ELSE Front(x.runs) \o <<[Last(x.runs) EXCEPT !.state = state]>>
<1>1. DOMAIN x = Fields /\ x.runs \in Seq(S)
  BY DEF Typed, States, Fields
<1>2. y = [x EXCEPT !.runs = r]
  BY DEF Updated
<1>3. r \in Seq(S)
  <2>1. CASE x.runs = <<>>
    BY <1>1, <2>1
  <2>2. CASE x.runs # <<>>
    <3> DEFINE e == [Last(x.runs) EXCEPT !.state = state]
    <3> HIDE DEF S
    <3>1. Last(x.runs) \in S
      BY <1>1, <2>2, LastIn
    <3>2. e \in S
      BY <3>1 DEF S, RunRec, RunState
    <3> HIDE DEF e
    <3>3. Front(x.runs) \o <<e>> \in Seq(S)
      BY <1>1, <2>2, <3>2, LastWritten
    <3> QED BY <2>2, <3>3 DEF e
  <2> QED BY <2>1, <2>2
<1> HIDE DEF r
<1>4. y \in States(n)
  BY <1>2, <1>3 DEF Typed, States
<1>5. Beside(x, y, {"runs"})
  BY <1>1, <1>2 DEF Beside, Fields
<1> QED BY <1>4, <1>5, SideSane DEF Beside, Side

LEMMA ConcludedSane ==
  ASSUME NEW n, NEW x, Typed(x, n), NEW state \in RunState, NEW y, y = Concluded(x, state), n \in Nat
  PROVE  Sane(x, y, n) /\ Beside(x, y, {"runs"})
<1>1. CASE x.runs # <<>>
  BY <1>1, UpdatedSane DEF Concluded
<1>2. CASE x.runs = <<>>
  <2> DEFINE r == <<[turn |-> x.turn, state |-> state]>>
  <2>1. DOMAIN x = Fields /\ x.turn \in Nat
    BY DEF Typed, States, Fields
  <2>2. y = [x EXCEPT !.runs = r]
    BY <1>2 DEF Concluded
  <2>3. r \in Seq(RunRec)
    BY <2>1 DEF RunRec, RunState
  <2> HIDE DEF r
  <2>4. y \in States(n)
    BY <2>2, <2>3 DEF Typed, States
  <2>5. Beside(x, y, {"runs"})
    BY <2>1, <2>2 DEF Beside, Fields
  <2> QED BY <2>4, <2>5, SideSane DEF Beside, Side
<1> QED BY <1>1, <1>2

\* Journal entries get another state or turn.
LEMMA OpsSane ==
  ASSUME NEW n, NEW x, Typed(x, n), NEW o \in Seq(OpRec), Len(o) = Len(x.ops),
         \A i \in 1..Len(x.ops) : o[i].prompt = x.ops[i].prompt,
         NEW y, y = [x EXCEPT !.ops = o]
  PROVE  Sane(x, y, n) /\ Beside(x, y, {"ops"})
<1>1. DOMAIN x = Fields
  BY DEF Typed, States, Fields
<1>2. Beside(x, y, {"ops"}) /\ y.ops = o
  BY <1>1 DEF Beside, Fields
<1>3. y \in States(n)
  BY DEF Typed, States
<1>4. Typed(y, n)
  BY <1>2, <1>3 DEF Typed, Beside, Fields
<1>5. Calm(x, y)
  BY <1>2 DEF Calm, Still, Keeps, Waits, SamePrompts, Beside, Fields, Busy
<1> QED BY <1>2, <1>4, <1>5 DEF Sane

OpState == {"uncertain", "agent_running", "blocked", "completed"}

LEMMA EntryWritten ==
  ASSUME NEW e \in OpRec, NEW state \in OpState, NEW turn \in Nat
  PROVE  LET f == [e EXCEPT !.state = state, !.turn = turn]
         IN  f \in OpRec /\ f.prompt = e.prompt
BY DEF OpRec, OpState

\* r is q but for the element at i, if there is one.
SameBut(S, q, i, e, r) ==
  /\ r \in Seq(S) /\ Len(r) = Len(q)
  /\ i \in 1..Len(q) => r[i] = e
  /\ \A j \in 1..Len(q) : j # i => r[j] = q[j]

LEMMA SeqExcept ==
  ASSUME NEW S, NEW q \in Seq(S), NEW i, NEW e, i \in DOMAIN q => e \in S
  PROVE  SameBut(S, q, i, e, [q EXCEPT ![i] = e])
<1>1. DOMAIN q = 1..Len(q) /\ q \in [1..Len(q) -> S]
  OBVIOUS
<1>2. CASE i \in 1..Len(q)
  BY <1>1, <1>2 DEF SameBut
<1>3. CASE i \notin 1..Len(q)
  <2>1. [q EXCEPT ![i] = e] = q
    BY <1>1, <1>3
  <2> QED BY <1>1, <1>3, <2>1 DEF SameBut
<1> QED BY <1>2, <1>3

LEMMA SetOpSane ==
  ASSUME NEW n, NEW x, Typed(x, n), NEW i, NEW state \in OpState,
         NEW turn, i \in DOMAIN x.ops => turn \in Nat,
         NEW y, y = SetOp(x, i, state, turn)
  PROVE  Sane(x, y, n) /\ Beside(x, y, {"ops"})
<1> DEFINE S == OpRec
           q == x.ops
           e == [q[i] EXCEPT !.state = state, !.turn = turn]
           o == [q EXCEPT ![i] = e]
<1>1. DOMAIN x = Fields /\ q \in Seq(S)
  BY DEF Typed, States, Fields
<1>2. y = [x EXCEPT !.ops = o]
  BY <1>1 DEF SetOp, Fields
<1>3. i \in DOMAIN q => q[i] \in S
  <2> HIDE DEF S, q
  <2> QED BY <1>1
<1>4. i \in DOMAIN q => e \in S
  BY <1>3, EntryWritten
<1>5. i \in DOMAIN q => e.prompt = q[i].prompt
  BY <1>3, EntryWritten
<1>6. o = [q EXCEPT ![i] = e]
  OBVIOUS
<1> HIDE DEF S, q, e, o
<1>7. SameBut(S, q, i, e, o)
  BY <1>1, <1>4, <1>6, SeqExcept
<1>8. DOMAIN q = 1..Len(q)
  BY <1>1
<1>9. \A j \in 1..Len(q) : o[j].prompt = q[j].prompt
  BY <1>5, <1>7, <1>8 DEF SameBut
<1> QED BY <1>2, <1>7, <1>9, OpsSane DEF SameBut, S, q

\* The end of a turn, on its entry.
LEMMA RecordedSane ==
  ASSUME NEW n, NEW x, Typed(x, n), NEW id, NEW y, y = Recorded(x, id)
  PROVE  Sane(x, y, n) /\ Beside(x, y, {"ops"})
<1> DEFINE S == OpRec
           q == x.ops
           o == [i \in DOMAIN q |-> IF q[i].turn = id THEN [q[i] EXCEPT !.state = "completed"] ELSE q[i]]
<1>1. DOMAIN x = Fields /\ q \in Seq(S)
  BY DEF Typed, States, Fields
<1>2. y = [x EXCEPT !.ops = o]
  BY DEF Recorded
<1>3. \A i \in DOMAIN q : q[i] \in S
  <2> HIDE DEF S, q
  <2> QED BY <1>1
<1>4. \A i \in DOMAIN q : o[i] \in S /\ o[i].prompt = q[i].prompt
  BY <1>3 DEF OpRec
<1>5. DOMAIN o = DOMAIN q
  OBVIOUS
<1>6. o = [i \in DOMAIN q |-> o[i]]
  OBVIOUS
<1> HIDE DEF S, q, o
<1>7. DOMAIN q = 1..Len(q) /\ Len(q) \in Nat
  BY <1>1
<1>8. o \in [1..Len(q) -> S]
  BY <1>4, <1>6, <1>7
<1>9. o \in Seq(S) /\ Len(o) = Len(q)
  BY <1>7, <1>8
<1> QED BY <1>2, <1>4, <1>7, <1>9, OpsSane DEF S, q

-----------------------------------------------------------------------------
\* Results, failures and what is observed of turns are calm.

Rewritten(x, k, b) == [x EXCEPT !.task = k, !.lease = b]

LEMMA Written ==
  ASSUME NEW n, NEW x, Typed(x, n), NEW k \in TaskRec, k.uncertain <= Len(x.ops),
         k.thread = x.task.thread, k.run = "starting" => Keeps(x, k),
         NEW b \in BOOLEAN,
         NEW y, y = Rewritten(x, k, b)
  PROVE  Typed(y, n) /\ Still(x, y) /\ y.task = k /\ y.lease = b /\ Beside(x, y, {"task", "lease"})
<1>1. DOMAIN x = Fields
  BY DEF Typed, States, Fields
<1>2. Beside(x, y, {"task", "lease"}) /\ y.task = k /\ y.lease = b
  BY <1>1 DEF Beside, Fields, Rewritten
<1>3. y \in States(n)
  BY DEF Typed, States, Rewritten
<1>4. Typed(y, n)
  BY <1>2, <1>3 DEF Typed, Beside, Fields
<1>5. Still(x, y)
  BY <1>2 DEF Still, Keeps, SamePrompts, Beside, Fields
<1> QED BY <1>2, <1>4, <1>5

\* A write of the row that leaves its run state alone, or makes it "running".
LEMMA RowSane ==
  ASSUME NEW n, NEW x, Typed(x, n), NEW k \in TaskRec, k.uncertain <= Len(x.ops),
         k.thread = x.task.thread, k.run = x.task.run \/ k.run = "running",
         k.status = x.task.status \/ k.run = "running",
         NEW y, y = [x EXCEPT !.task = k]
  PROVE  Sane(x, y, n) /\ y.task = k /\ Beside(x, y, {"task"})
<1>1. Typed(y, n) /\ Still(x, y) /\ y.task = k /\ Beside(x, y, {"task"})
  <2>1. k.run = "starting" => Keeps(x, k)
    BY DEF Keeps
  <2> QED BY <2>1, RowWritten
<1>2. Waits(x, y)
  BY <1>1 DEF Waits, Beside, Fields, Busy
<1> QED BY <1>1, <1>2 DEF Sane, Calm

\* The queue is emptied at the end of a step.
LEMMA Ending ==
  ASSUME NEW n, NEW x, NEW z, NEW y, Still(x, z), z.queue.prompt = x.queue.prompt,
         Sane(z, y, n), y.queue.state # "pending"
  PROVE  Sane(x, y, n)
BY DEF Sane, Calm, Still, Keeps, Waits, SamePrompts

LEMMA ConcludedEnding ==
  ASSUME NEW n \in Nat, NEW x, NEW z, Typed(z, n), Still(x, z),
         z.queue.prompt = x.queue.prompt, NEW state \in RunState,
         NEW y, y = Finished(Concluded(z, state))
  PROVE  Sane(x, y, n) /\ y.queue.state # "pending"
<1> DEFINE w == Concluded(z, state)
<1>1. w = Concluded(z, state)
  OBVIOUS
<1> HIDE DEF w
<1>2. Sane(z, w, n)
  BY <1>1, ConcludedSane
<1>3. Typed(w, n)
  BY <1>2 DEF Sane
<1>4. y = Finished(w)
  BY <1>1
<1>5. Sane(w, y, n) /\ y.queue.state # "pending"
  BY <1>3, <1>4, FinishedSane
<1>6. Sane(z, y, n)
  BY <1>2, <1>5, SaneThrough
<1> QED BY <1>5, <1>6, Ending

LEMMA FailedSane ==
  ASSUME NEW n \in Nat, NEW x, Typed(x, n), NEW uncertain \in BOOLEAN,
         NEW y, y = Failed(x, uncertain)
  PROVE  Sane(x, y, n)
<1>1. CASE x.override \/ x.task.status # "in_progress"
  BY <1>1, CalmSame DEF Failed, Sane
<1>2. CASE ~(x.override \/ x.task.status # "in_progress")
  <2> DEFINE k == [x.task EXCEPT !.run = "failed", !.conflict = @ \/ uncertain,
                                 !.observe = @ \/ uncertain]
             b == x.lease /\ uncertain
             z == [x EXCEPT !.task = k, !.lease = b]
  <2>1. DOMAIN x = Fields /\ x.task \in TaskRec /\ x.task.uncertain <= Len(x.ops) /\ x.lease \in BOOLEAN
    BY DEF Typed, States, Fields
  <2>2. /\ k \in TaskRec /\ k.run = "failed" /\ k.thread = x.task.thread
        /\ k.uncertain = x.task.uncertain
    BY <2>1 DEF TaskRec
  <2>3. y = Finished(Concluded(z, "failed"))
    BY <1>2, <2>1 DEF Failed, Fields, TaskRec
  <2>4. b \in BOOLEAN
    OBVIOUS
  <2>5. z = Rewritten(x, k, b)
    BY DEF Rewritten
  <2> HIDE DEF k, b, z
  <2>6. Typed(z, n) /\ Still(x, z) /\ Beside(x, z, {"task", "lease"})
    <3>1. k.run = "starting" => Keeps(x, k)
      BY <2>2
    <3>2. k \in TaskRec /\ k.uncertain <= Len(x.ops) /\ k.thread = x.task.thread
      BY <2>1, <2>2
    <3> QED BY <2>4, <2>5, <3>1, <3>2, Written
  <2>7. z.queue.prompt = x.queue.prompt
    BY <2>6 DEF Beside, Fields
  <2> QED BY <2>3, <2>6, <2>7, ConcludedEnding DEF RunState
<1> QED BY <1>1, <1>2

LEMMA FailedWithSane ==
  ASSUME NEW n \in Nat, NEW x, Typed(x, n), NEW lost \in BOOLEAN, NEW y, y = FailedWith(x, lost)
  PROVE  Sane(x, y, n)
<1>1. (lost \/ x.turn # 0) \in BOOLEAN
  OBVIOUS
<1> QED BY <1>1, FailedSane DEF FailedWith

LEMMA SettledSane ==
  ASSUME NEW n \in Nat, NEW x, Typed(x, n), NEW accepted, NEW y, y = Settled(x, accepted)
  PROVE  Sane(x, y, n)
<1>1. CASE x.managed /\ ~accepted
  <2> DEFINE z == GiveBack(x)
  <2>1. z = GiveBack(x)
    OBVIOUS
  <2> HIDE DEF z
  <2>2. Sane(x, z, n)
    BY <2>1, GiveBackSane
  <2>3. y = Failed(z, FALSE)
    BY <1>1, <2>1 DEF Settled
  <2>4. Sane(z, y, n)
    BY <2>2, <2>3, FailedSane DEF Sane
  <2> QED BY <2>2, <2>4, SaneThrough
<1>2. CASE ~(x.managed /\ ~accepted)
  <2> DEFINE z == Moved(x, "in_review", "none")
  <2>1. z = Moved(x, "in_review", "none")
    OBVIOUS
  <2> HIDE DEF z
  <2>2. Sane(x, z, n)
    BY <2>1, MovedSane
  <2>3. y = Updated(z, "completed")
    BY <1>2, <2>1 DEF Settled
  <2>4. Sane(z, y, n)
    BY <2>2, <2>3, UpdatedSane DEF Sane, RunState
  <2> QED BY <2>2, <2>4, SaneThrough
<1> QED BY <1>1, <1>2

LEMMA ObservedFlagsSane ==
  ASSUME NEW n \in Nat, NEW x, Typed(x, n), NEW y, y = ObservedFlags(x)
  PROVE  Sane(x, y, n)
<1> DEFINE k == [x.task EXCEPT !.conflict = FALSE, !.uncertain = 0, !.observe = FALSE]
<1>1. DOMAIN x = Fields /\ x.task \in TaskRec /\ Len(x.ops) \in Nat
  <2>1. x.ops \in Seq(OpRec)
    BY DEF Typed, States
  <2> QED BY <2>1 DEF Typed, States, Fields
<1>2. k \in TaskRec /\ k.run = x.task.run /\ k.status = x.task.status /\ k.thread = x.task.thread /\ k.uncertain <= Len(x.ops)
  <2>1. k \in TaskRec /\ k.run = x.task.run /\ k.status = x.task.status /\ k.thread = x.task.thread /\ k.uncertain = 0
    BY <1>1 DEF TaskRec
  <2> QED BY <1>1, <2>1
<1>3. y = [x EXCEPT !.task = k] \/ y = x
  BY <1>1 DEF ObservedFlags, Fields, TaskRec
<1> HIDE DEF k
<1>4. CASE y = [x EXCEPT !.task = k]
  BY <1>2, <1>4, RowSane
<1> QED BY <1>3, <1>4, CalmSame DEF Sane

LEMMA ForgetSane ==
  ASSUME NEW n \in Nat, NEW x, Typed(x, n), NEW id, NEW y, y = Forget(x, id)
  PROVE  Sane(x, y, n)
<1>1. DOMAIN x = Fields
  BY DEF Typed, States, Fields
<1>2. Beside(x, y, Side)
  BY <1>1 DEF Beside, Fields, Side, Forget
<1> DEFINE k == IF x.turn = id THEN 0 ELSE x.turn
<1>3. y \in States(n)
  <2>1. y = [x EXCEPT !.turn = k]
    BY <1>1 DEF Forget, Fields
  <2>2. k \in 0..n
    BY DEF Typed, States
  <2> HIDE DEF k
  <2> QED BY <2>1, <2>2 DEF Typed, States
<1> QED BY <1>2, <1>3, SideSane

LEMMA AskLimitsSane ==
  ASSUME NEW n \in Nat, NEW x, Typed(x, n), NEW by \in {"worker", "loop", "notice"}, NEW id \in 0..n,
         NEW y, y = AskLimits(x, by, id)
  PROVE  Sane(x, y, n)
<1>1. DOMAIN x = Fields
  BY DEF Typed, States, Fields
<1>2. Beside(x, y, Side)
  BY <1>1 DEF Beside, Fields, Side, AskLimits
<1> DEFINE L == LimitRec(n)
           k == x.limits \cup {[by |-> by, turn |-> id]}
<1>3. y \in States(n)
  <2>1. y = [x EXCEPT !.limits = k]
    BY <1>1 DEF AskLimits, Fields
  <2>2. k \in SUBSET L
    <3>1. x.limits \in SUBSET L /\ [by |-> by, turn |-> id] \in L
      BY DEF Typed, States, LimitRec
    <3> QED BY <3>1
  <2> HIDE DEF k
  <2> QED BY <2>1, <2>2 DEF Typed, States
<1> QED BY <1>2, <1>3, SideSane

LEMMA ResultSane ==
  ASSUME NEW n \in Nat, NEW x, Typed(x, n), NEW id \in 0..n, NEW state, NEW accepted,
         NEW by \in {"worker", "loop", "notice"}, NEW y, y = Result(x, id, state, accepted, by)
  PROVE  Sane(x, y, n)
<1>1. CASE Ignores(x, id)
  BY <1>1, CalmSame DEF Result, Sane
<1>2. CASE ~Ignores(x, id)
  <2> DEFINE f == ObservedFlags(x)
             r == Recorded(f, id)
  <2>1. y = IF state = "quota" THEN AskLimits(r, by, id)
            ELSE Forget(IF state = "completed" THEN Settled(r, accepted) ELSE Failed(r, FALSE), id)
    BY <1>2 DEF Result
  <2>2. f = ObservedFlags(x) /\ r = Recorded(f, id)
    OBVIOUS
  <2> HIDE DEF f, r
  <2>3. Sane(x, f, n)
    BY <2>2, ObservedFlagsSane
  <2>4. Sane(f, r, n)
    BY <2>2, <2>3, RecordedSane DEF Sane
  <2>5. Sane(x, r, n) /\ Typed(r, n)
    BY <2>3, <2>4, SaneThrough DEF Sane
  <2>6. CASE state = "quota"
    <3>1. Sane(r, y, n)
      BY <2>1, <2>5, <2>6, AskLimitsSane
    <3> QED BY <2>5, <3>1, SaneThrough
  <2>7. CASE state # "quota"
    <3> DEFINE z == IF state = "completed" THEN Settled(r, accepted) ELSE Failed(r, FALSE)
    <3>1. y = Forget(z, id)
      BY <2>1, <2>7
    <3>2. z = Settled(r, accepted) \/ z = Failed(r, FALSE)
      OBVIOUS
    <3> HIDE DEF z
    <3>3. Sane(r, z, n)
      BY <2>5, <3>2, SettledSane, FailedSane
    <3>4. Sane(z, y, n)
      BY <3>1, <3>3, ForgetSane DEF Sane
    <3>5. Sane(x, z, n)
      BY <2>5, <3>3, SaneThrough
    <3> QED BY <3>4, <3>5, SaneThrough
  <2> QED BY <2>6, <2>7
<1> QED BY <1>1, <1>2

LEMMA ExhaustedSane ==
  ASSUME NEW n \in Nat, NEW x, Typed(x, n), NEW y, y = Exhausted(x)
  PROVE  Sane(x, y, n)
<1> DEFINE k == [x.task EXCEPT !.run = "waiting_quota"]
           z == [x EXCEPT !.task = k, !.lease = FALSE]
<1>1. DOMAIN x = Fields /\ x.task \in TaskRec /\ x.task.uncertain <= Len(x.ops)
  BY DEF Typed, States, Fields
<1>2. /\ k \in TaskRec /\ k.run = "waiting_quota" /\ k.thread = x.task.thread
      /\ k.uncertain = x.task.uncertain
  BY <1>1 DEF TaskRec
<1>3. y = Finished(Concluded(z, "waiting_quota"))
  BY <1>1 DEF Exhausted, Fields, TaskRec
<1>4. z = Rewritten(x, k, FALSE)
  BY DEF Rewritten
<1> HIDE DEF k, z
<1>5. Typed(z, n) /\ Still(x, z) /\ Beside(x, z, {"task", "lease"})
  <2>1. k.run = "starting" => Keeps(x, k)
    BY <1>2
  <2>2. k \in TaskRec /\ k.uncertain <= Len(x.ops) /\ k.thread = x.task.thread
    BY <1>1, <1>2
  <2> QED BY <1>4, <2>1, <2>2, Written
<1>6. z.queue.prompt = x.queue.prompt
  BY <1>5 DEF Beside, Fields
<1> QED BY <1>3, <1>5, <1>6, ConcludedEnding DEF RunState

\* Coroutines end, and what no prompt depends on changes.
LEMMA EndSane ==
  ASSUME NEW n \in Nat, NEW x, Typed(x, n), NEW y, y \in States(n),
         Beside(x, y, Side \cup {"worker", "follow", "stop"}),
         \/ y.worker = x.worker
         \/ y.worker.pc \in Without /\ y.worker.op \in {0, x.worker.op},
         y.follow = x.follow \/ y.follow = NoFollow,
         y.stop = x.stop \/ y.stop = NoStop
  PROVE  Sane(x, y, n)
<1>1. \A f \in {"managed", "task", "queue", "lease", "ops", "threadOp", "treeOp"} : y[f] = x[f]
  BY DEF Beside, Side, Fields
<1>2. Len(x.ops) \in Nat
  <2>1. x.ops \in Seq(OpRec)
    BY DEF Typed, States
  <2> QED BY <2>1
<1>3. Typed(y, n)
  BY <1>1, <1>2 DEF Typed, NoFollow, NoStop
<1>4. Calm(x, y)
  BY <1>1 DEF Calm, Still, Keeps, Waits, SamePrompts, Busy, NoFollow, NoStop
<1> QED BY <1>3, <1>4 DEF Sane

LEMMA EndedSane ==
  ASSUME NEW n \in Nat, NEW x, Typed(x, n), NEW y, y = Ended(x)
  PROVE  Sane(x, y, n) /\ y.worker.pc = "none"
<1>1. DOMAIN x = Fields
  BY DEF Typed, States, Fields
<1>2. Beside(x, y, Side \cup {"worker", "follow", "stop"}) /\ y.worker = NoWorker
      /\ y.follow = x.follow /\ y.stop = x.stop
  BY <1>1 DEF Beside, Fields, Side, Ended
<1>3. NoWorker \in WorkerRec(n)
  BY DEF NoWorker, Without, WorkerRec
<1>4. y \in States(n)
  BY <1>3 DEF Typed, States, Ended
<1>5. y.worker.pc \in Without /\ y.worker.op = 0 /\ y.worker.pc = "none"
  BY <1>2 DEF NoWorker, Without
<1> QED BY <1>2, <1>4, <1>5, EndSane

LEMMA WatchSane ==
  ASSUME NEW n \in Nat, NEW x, Typed(x, n), NEW id \in 0..n, NEW y, y = Watch(x, id)
  PROVE  Sane(x, y, n) /\ Beside(x, y, {"worker"})
<1> DEFINE w == [NoWorker EXCEPT !.pc = "wait", !.turn = id]
<1>1. DOMAIN x = Fields
  BY DEF Typed, States, Fields
<1>2. y = x \/ y = [x EXCEPT !.worker = w]
  BY DEF Watch
<1>3. w \in WorkerRec(n) /\ w.pc \in Without /\ w.op = 0
  BY DEF NoWorker, Without, WorkerRec
<1> HIDE DEF w
<1>4. CASE y = [x EXCEPT !.worker = w]
  <2>1. Beside(x, y, {"worker"}) /\ y.worker = w
    BY <1>1, <1>4 DEF Beside, Fields
  <2>2. Beside(x, y, Side \cup {"worker", "follow", "stop"}) /\ y.follow = x.follow /\ y.stop = x.stop
    BY <2>1 DEF Beside, Fields
  <2>3. y \in States(n)
    BY <1>3, <1>4 DEF Typed, States
  <2> QED BY <1>3, <2>1, <2>2, <2>3, EndSane
<1> QED BY <1>1, <1>2, <1>4, CalmSame DEF Sane, Beside

LEMMA CanceledSane ==
  ASSUME NEW n \in Nat, NEW x, Typed(x, n), NEW y, y = Canceled(x)
  PROVE  Sane(x, y, n) /\ y.worker.pc = "none"
<1> DEFINE L == LimitRec(n)
           b == x.starting /\ ~Executing(x)
           k == {l \in x.limits : l.by # "worker"}
<1>1. DOMAIN x = Fields /\ k \in SUBSET L /\ b \in BOOLEAN
  BY DEF Typed, States, Fields
<1>2. y = [x EXCEPT !.worker = NoWorker, !.turn = 0, !.starting = b, !.limits = k]
  BY <1>1 DEF Canceled, Ended, Fields
<1> HIDE DEF k, b
<1>3. Beside(x, y, Side \cup {"worker", "follow", "stop"}) /\ y.worker = NoWorker
      /\ y.follow = x.follow /\ y.stop = x.stop
  BY <1>1, <1>2 DEF Beside, Fields, Side
<1>4. NoWorker \in WorkerRec(n)
  BY DEF NoWorker, Without, WorkerRec
<1>5. y \in States(n)
  <2>1. 0 \in 0..n
    OBVIOUS
  <2> HIDE DEF L
  <2> DEFINE z == [x EXCEPT !.worker = NoWorker, !.turn = 0]
  <2>2. z \in States(n)
    BY <1>4, <2>1 DEF Typed, States
  <2>3. y = [z EXCEPT !.starting = b, !.limits = k]
    BY <1>2
  <2> HIDE DEF z
  <2> QED BY <1>1, <2>2, <2>3 DEF States, L
<1>6. y.worker.pc \in Without /\ y.worker.op = 0 /\ y.worker.pc = "none"
  BY <1>3 DEF NoWorker, Without
<1> QED BY <1>3, <1>5, <1>6, EndSane

LEMMA Appended ==
  ASSUME NEW S, NEW q \in Seq(S), NEW e \in S
  PROVE  Append(q, e) \in Seq(S)
OBVIOUS

LEMMA AdoptedSane ==
  ASSUME NEW n \in Nat, NEW x, Typed(x, n), NEW id \in 0..n, NEW active \in BOOLEAN,
         NEW y, y = Adopted(x, id, active)
  PROVE  /\ Sane(x, y, n) /\ Beside(x, y, {"lease", "task", "turn", "runs"})
         /\ y.task.paused = x.task.paused /\ y.task.conflict \in BOOLEAN
<1> DEFINE S == RunRec
           k == [x.task EXCEPT !.conflict = @ \/ (active /\ ~x.lease /\ x.task.paused),
                               !.status = "in_progress", !.run = "running"]
           b == x.lease \/ active
           e == [turn |-> id, state |-> "running"]
           z == Rewritten(x, k, b)
           r == Append(x.runs, e)
<1>1. DOMAIN x = Fields /\ x.task \in TaskRec /\ x.task.uncertain <= Len(x.ops) /\ x.lease \in BOOLEAN
      /\ x.runs \in Seq(S)
  BY DEF Typed, States, Fields
<1>2. /\ k \in TaskRec /\ k.run = "running" /\ k.thread = x.task.thread
      /\ k.uncertain = x.task.uncertain /\ k.paused = x.task.paused
  BY <1>1 DEF TaskRec
<1>3. y = x \/ y = [z EXCEPT !.turn = id, !.runs = r]
  BY <1>1 DEF Adopted, Fields, TaskRec, Rewritten
<1>4. b \in BOOLEAN /\ (x.lease => b) /\ e \in S
  BY <1>1 DEF RunRec
<1>5. r = Append(x.runs, e)
  OBVIOUS
<1>6. z = Rewritten(x, k, b)
  OBVIOUS
<1> HIDE DEF k, b, z, r, e, S
<1>7. r \in Seq(S)
  BY <1>1, <1>4, <1>5, Appended
<1>8. Typed(z, n) /\ Still(x, z) /\ Beside(x, z, {"task", "lease"}) /\ z.task = k /\ z.lease = b
  <2>1. k.run = "starting" => Keeps(x, k)
    BY <1>2
  <2>2. k \in TaskRec /\ k.uncertain <= Len(x.ops) /\ k.thread = x.task.thread
    BY <1>1, <1>2
  <2> QED BY <1>4, <1>6, <2>1, <2>2, Written
<1>9. CASE y = [z EXCEPT !.turn = id, !.runs = r]
  <2>1. Beside(z, y, {"turn", "runs"})
    BY <1>8, <1>9 DEF Beside, Fields
  <2>2. y \in States(n)
    BY <1>7, <1>8, <1>9 DEF Typed, States, S
  <2>3. Sane(z, y, n)
    BY <1>8, <2>1, <2>2, SideSane DEF Beside, Side
  <2>4. Waits(x, z)
    BY <1>2, <1>4, <1>8 DEF Waits, Beside, Fields, Busy
  <2>5. Sane(x, z, n)
    BY <1>8, <2>4 DEF Sane, Calm
  <2>6. y.task = k
    BY <1>8, <2>1 DEF Beside, Fields
  <2> QED BY <1>2, <1>8, <2>1, <2>3, <2>5, <2>6, SaneThrough DEF Beside, TaskRec
<1> QED BY <1>1, <1>3, <1>9, CalmSame DEF Sane, Beside, TaskRec

LEMMA NatMin ==
  ASSUME NEW T \in SUBSET Nat, T # {}
  PROVE  \E n \in T : \A m \in T : n <= m
<1> DEFINE R == OpToRel(<, Nat)
<1>1. IsWellFoundedOn(R, Nat)
  BY NatLessThanWellFounded
<1>2. \A x, y \in Nat : y < x => <<y, x>> \in R
  BY DEF OpToRel
<1> HIDE DEF R
<1>3. PICK n \in T : \A y \in T : ~(<<y, n>> \in R)
  BY <1>1, WFMin
<1>4. \A m \in T : ~(m < n)
  BY <1>2, <1>3
<1> QED BY <1>4

LEMMA UncertainFirst ==
  ASSUME NEW n, NEW x, Typed(x, n)
  PROVE  /\ FirstUncertain(x) \in 0..Len(x.ops)
         /\ Uncertain(x) # {} => FirstUncertain(x) \in DOMAIN x.ops
<1> DEFINE U == Uncertain(x)
           Least(i) == \A j \in U : i <= j
<1>1. x.ops \in Seq(OpRec)
  BY DEF Typed, States
<1>2. DOMAIN x.ops = 1..Len(x.ops) /\ Len(x.ops) \in Nat
  BY <1>1
<1>3. U \in SUBSET Nat /\ U \subseteq DOMAIN x.ops
  BY <1>2 DEF Uncertain
<1>4. FirstUncertain(x) = IF U = {} THEN 0 ELSE CHOOSE i \in U : Least(i)
  BY DEF FirstUncertain
<1> HIDE DEF U
<1>5. U # {} => \E i \in U : Least(i)
  BY <1>3, NatMin
<1> HIDE DEF Least
<1>6. U # {} => FirstUncertain(x) \in U
  BY <1>4, <1>5
<1> QED BY <1>2, <1>3, <1>4, <1>6 DEF U

LEMMA BlockedSane ==
  ASSUME NEW n \in Nat, NEW x, Typed(x, n), NEW y, y = Blocked(x)
  PROVE  Sane(x, y, n) /\ Beside(x, y, {"task"})
<1> DEFINE k == [x.task EXCEPT !.uncertain = FirstUncertain(x), !.conflict = TRUE]
<1>1. DOMAIN x = Fields /\ x.task \in TaskRec
  BY DEF Typed, States, Fields
<1>2. FirstUncertain(x) \in Nat /\ FirstUncertain(x) <= Len(x.ops)
  BY UncertainFirst
<1>3. k \in TaskRec /\ k.run = x.task.run /\ k.status = x.task.status /\ k.thread = x.task.thread /\ k.uncertain <= Len(x.ops)
  BY <1>1, <1>2 DEF TaskRec
<1>4. y = [x EXCEPT !.task = k]
  BY <1>1 DEF Blocked, Fields, TaskRec
<1> HIDE DEF k
<1> QED BY <1>3, <1>4, RowSane

\* A start without an answer.
LostOf(x, i) ==
  [SetOp(x, i, "uncertain", x.ops[i].turn) EXCEPT !.task.uncertain = i, !.task.conflict = TRUE]

LEMMA LostSane ==
  ASSUME NEW n \in Nat, NEW x, Typed(x, n), NEW i \in Nat, i <= Len(x.ops), NEW y, y = LostOf(x, i)
  PROVE  Sane(x, y, n) /\ Beside(x, y, {"ops", "task"})
<1> DEFINE z == SetOp(x, i, "uncertain", x.ops[i].turn)
           k == [z.task EXCEPT !.uncertain = i, !.conflict = TRUE]
<1>1. z = SetOp(x, i, "uncertain", x.ops[i].turn)
  OBVIOUS
<1>2. i \in DOMAIN x.ops => x.ops[i].turn \in Nat
  <2> DEFINE S == OpRec
  <2>1. x.ops \in Seq(S)
    BY DEF Typed, States
  <2>2. i \in DOMAIN x.ops => x.ops[i] \in S
    <3> HIDE DEF S
    <3> QED BY <2>1
  <2> QED BY <2>2 DEF OpRec
<1>3. y = [z EXCEPT !.task.uncertain = i, !.task.conflict = TRUE]
  BY DEF LostOf
<1> HIDE DEF z
<1>4. Sane(x, z, n) /\ Beside(x, z, {"ops"})
  BY <1>1, <1>2, SetOpSane DEF OpState
<1>5. DOMAIN z = Fields /\ z.task \in TaskRec /\ Len(z.ops) = Len(x.ops)
  BY <1>4 DEF Sane, Typed, States, Fields, Calm, Still, SamePrompts
<1>6. k \in TaskRec /\ k.run = z.task.run /\ k.status = z.task.status /\ k.thread = z.task.thread /\ k.uncertain <= Len(z.ops)
  BY <1>5 DEF TaskRec
<1>7. y = [z EXCEPT !.task = k]
  BY <1>3, <1>5 DEF Fields, TaskRec
<1> HIDE DEF k
<1>8. Sane(z, y, n) /\ Beside(z, y, {"task"})
  BY <1>4, <1>6, <1>7, RowSane DEF Sane
<1> QED BY <1>4, <1>8, SaneThrough DEF Beside

\* A confirmed pause gives the lease back; what waits in the queue stays there.
LEMMA PausedStill ==
  ASSUME NEW n \in Nat, NEW x, Typed(x, n), NEW y, y = Paused(x)
  PROVE  /\ Typed(y, n) /\ Still(x, y) /\ y.queue = x.queue /\ y.stop = x.stop
         /\ y.worker.pc = "none" /\ y.task.thread = x.task.thread
<1> DEFINE c == Canceled(x)
           S == OpRec
           q == c.ops
           o == [i \in DOMAIN q |-> IF q[i].state = "uncertain" THEN [q[i] EXCEPT !.state = "blocked"] ELSE q[i]]
           k == [c.task EXCEPT !.paused = TRUE, !.conflict = FALSE, !.uncertain = 0,
                   !.run = IF @ \in {"starting", "running", "waiting_quota"} THEN "failed" ELSE @]
           z == Rewritten(c, k, FALSE)
<1>1. c = Canceled(x)
  OBVIOUS
<1>2. y = [c EXCEPT !.lease = FALSE, !.task.paused = TRUE, !.task.conflict = FALSE,
              !.task.uncertain = 0,
              !.task.run = IF @ \in {"starting", "running", "waiting_quota"} THEN "failed" ELSE @,
              !.ops = o]
  BY DEF Paused
<1>2a. DOMAIN x = Fields
  BY DEF Typed, States, Fields
<1>2b. c.queue = x.queue /\ c.stop = x.stop
  BY <1>2a DEF Canceled, Ended, Fields
<1> HIDE DEF c
<1>3. Sane(x, c, n) /\ c.worker.pc = "none"
  BY <1>1, CanceledSane
<1>4. DOMAIN c = Fields /\ c.task \in TaskRec /\ q \in Seq(S)
  BY <1>3 DEF Sane, Typed, States, Fields
<1>5. /\ k \in TaskRec /\ k.run # "starting" /\ k.thread = c.task.thread /\ k.uncertain = 0
  BY <1>4 DEF TaskRec
<1>6. y = [z EXCEPT !.ops = o]
  BY <1>2, <1>4 DEF Fields, TaskRec, Rewritten
<1>7. \A i \in DOMAIN q : q[i] \in S
  <2> HIDE DEF S, q
  <2> QED BY <1>4
<1>8. \A i \in DOMAIN q : o[i] \in S /\ o[i].prompt = q[i].prompt
  BY <1>7 DEF OpRec
<1>9. o = [i \in DOMAIN q |-> o[i]]
  OBVIOUS
<1>10. z = Rewritten(c, k, FALSE) /\ q = c.ops
  OBVIOUS
<1> HIDE DEF S, q, o, k, z
<1>11. DOMAIN q = 1..Len(q) /\ Len(q) \in Nat
  BY <1>4
<1>12. o \in Seq(S) /\ Len(o) = Len(q)
  <2>1. o \in [1..Len(q) -> S]
    BY <1>8, <1>9, <1>11
  <2> QED BY <1>11, <2>1
<1>13. Typed(z, n) /\ Still(c, z) /\ Beside(c, z, {"task", "lease"})
  <2>1. k.run = "starting" => Keeps(c, k)
    BY <1>5
  <2>2. k \in TaskRec /\ k.uncertain <= Len(c.ops) /\ k.thread = c.task.thread
    BY <1>5, <1>10, <1>11
  <2> QED BY <1>3, <1>10, <2>1, <2>2, Written DEF Sane
<1>14. z.ops = q /\ z.queue = c.queue /\ z.stop = c.stop /\ z.worker = c.worker
  BY <1>10, <1>13 DEF Beside, Fields
<1>15. Sane(z, y, n) /\ Beside(z, y, {"ops"})
  BY <1>6, <1>8, <1>11, <1>12, <1>13, <1>14, OpsSane DEF S
<1>16. Still(x, y)
  BY <1>3, <1>13, <1>15 DEF Sane, Calm, Still, Keeps, SamePrompts
<1> QED BY <1>2b, <1>3, <1>14, <1>15, <1>16 DEF Sane, Beside, Fields, Still

\* The row before a follow-up is restored.
LEMMA RestoredSane ==
  ASSUME NEW n \in Nat, NEW x, Typed(x, n), x.follow.pc # "none", x.task.thread,
         NEW y, y = Restored(x)
  PROVE  Sane(x, y, n) /\ y.follow.pc = "none"
<1> DEFINE row == x.follow.row
           status == IF x.task.status = "canceled" THEN "canceled" ELSE row.status
           g == GiveBack(x)
           m == Moved(g, status, row.run)
           k == [m.task EXCEPT !.observe = row.observe]
           z == [m EXCEPT !.task = k]
<1>1. row \in TaskRec
  BY DEF Typed
<1>2. status \in {"todo", "in_progress", "in_review", "canceled"} /\ row.observe \in BOOLEAN
      /\ row.run \in {"none", "starting", "running", "waiting_quota", "failed"}
  BY <1>1 DEF TaskRec
<1>3. g = GiveBack(x) /\ m = Moved(g, status, row.run) /\ z = [m EXCEPT !.task = k]
  OBVIOUS
<1>4. y = [m EXCEPT !.task.observe = row.observe, !.starting = FALSE, !.follow = NoFollow]
  BY DEF Restored
<1> HIDE DEF g, m, row, status
<1>5. Sane(x, g, n) /\ g.queue.state # "pending"
  BY <1>3, GiveBackSane
<1>6. row.run = "starting" => g.task.thread
  BY <1>5 DEF Sane, Calm, Still, Keeps
<1>7. Sane(g, m, n)
  BY <1>2, <1>3, <1>5, <1>6, MovedSane DEF Sane
<1>8. DOMAIN m = Fields /\ m.task \in TaskRec /\ m.task.uncertain <= Len(m.ops)
  BY <1>7 DEF Sane, Typed, States, Fields
<1>9. k \in TaskRec /\ k.run = m.task.run /\ k.status = m.task.status /\ k.thread = m.task.thread /\ k.uncertain <= Len(m.ops)
  BY <1>2, <1>8 DEF TaskRec
<1>10. y = [z EXCEPT !.starting = FALSE, !.follow = NoFollow]
  BY <1>4, <1>8 DEF Fields, TaskRec
<1> HIDE DEF k, z
<1>11. Sane(m, z, n)
  BY <1>3, <1>7, <1>9, RowSane DEF Sane
<1>12. Typed(z, n) /\ DOMAIN z = Fields
  BY <1>11 DEF Sane, Typed, States, Fields
<1>13. NoFollow \in FollowRec
  BY DEF NoFollow, FollowRec
<1>14. y \in States(n)
  BY <1>10, <1>12, <1>13 DEF Typed, States
<1>15. Beside(z, y, {"starting", "follow"}) /\ y.follow = NoFollow
  BY <1>10, <1>12 DEF Beside, Fields
<1>16. Beside(z, y, Side \cup {"worker", "follow", "stop"}) /\ y.worker = z.worker /\ y.stop = z.stop
  BY <1>15 DEF Beside, Fields, Side
<1>17. Sane(z, y, n)
  BY <1>12, <1>14, <1>15, <1>16, EndSane
<1>18. Sane(x, m, n)
  BY <1>5, <1>7, SaneThrough
<1>19. Sane(x, z, n)
  BY <1>11, <1>18, SaneThrough
<1>20. Sane(x, y, n)
  BY <1>17, <1>19, SaneThrough
<1> QED BY <1>15, <1>20 DEF NoFollow

LEMMA SyncedSane ==
  ASSUME NEW n \in Nat, NEW x, Typed(x, n), NEW id \in 0..n, NEW state, NEW y, y = Synced(x, id, state)
  PROVE  Sane(x, y, n)
<1> DEFINE active == state = "active"
           a == Adopted(x, id, active)
           k == [x.task EXCEPT !.run = IF @ \in {"failed", "waiting_quota"} /\ active THEN "running" ELSE @]
           w == [x EXCEPT !.turn = id, !.task = k]
           known ==
             IF LastRun(x).turn # id THEN a
             ELSE IF /\ x.runs # <<>> /\ x.task.status = "in_progress"
                     /\ \/ x.task.run \notin {"waiting_quota", "failed"}
                        \/ x.task.observe \/ state \in {"completed", "active"}
               THEN [x EXCEPT !.turn = id,
                       !.task.run = IF @ \in {"failed", "waiting_quota"} /\ active THEN "running" ELSE @]
               ELSE x
<1>1. y = known \/ y = Result(known, id, state, TRUE, "loop")
  BY DEF Synced
<1>2. DOMAIN x = Fields /\ x.task \in TaskRec /\ x.task.uncertain <= Len(x.ops)
  BY DEF Typed, States, Fields
<1>3. /\ k \in TaskRec
      /\ k.run = x.task.run \/ k.run = "running"
      /\ k.status = x.task.status
      /\ k.thread = x.task.thread /\ k.uncertain <= Len(x.ops)
  BY <1>2 DEF TaskRec
<1>4. known = a \/ known = w \/ known = x
  BY <1>2 DEF Fields, TaskRec
<1>5. Sane(x, a, n)
  <2>1. active \in BOOLEAN
    OBVIOUS
  <2> HIDE DEF active
  <2> QED BY <2>1, AdoptedSane
<1>6. Sane(x, w, n)
  <2> DEFINE v == [x EXCEPT !.task = k]
  <2>1. w = [v EXCEPT !.turn = id]
    BY <1>2 DEF Fields
  <2>2. v = [x EXCEPT !.task = k]
    OBVIOUS
  <2> HIDE DEF v, k, w
  <2>3. Sane(x, v, n)
    BY <1>3, <2>2, RowSane
  <2>4. Typed(v, n) /\ DOMAIN v = Fields
    BY <2>3 DEF Sane, Typed, States, Fields
  <2>5. w \in States(n)
    BY <2>1, <2>4 DEF Typed, States
  <2>6. Beside(v, w, Side)
    BY <2>1, <2>4 DEF Beside, Fields, Side
  <2>7. Sane(v, w, n)
    BY <2>4, <2>5, <2>6, SideSane
  <2> QED BY <2>3, <2>7, SaneThrough
<1> HIDE DEF a, w, known
<1>7. Sane(x, known, n)
  BY <1>4, <1>5, <1>6, CalmSame DEF Sane
<1>8. CASE y = Result(known, id, state, TRUE, "loop")
  <2>1. Sane(known, y, n)
    BY <1>7, <1>8, ResultSane DEF Sane
  <2> QED BY <1>7, <2>1, SaneThrough
<1> QED BY <1>1, <1>7, <1>8

LEMMA RecoveredSane ==
  ASSUME NEW n \in Nat, NEW x, Typed(x, n), NEW l, l.latest \in 0..n,
         NEW y, y = Recovered(x, l)
  PROVE  Sane(x, y, n)
<1>1. CASE l.latest = 0 \/ l.latest = x.ops[l.op].prev
  BY <1>1, CalmSame DEF Recovered, Sane
<1>2. CASE ~(l.latest = 0 \/ l.latest = x.ops[l.op].prev)
  <2> DEFINE z == SetOp(x, l.op, "agent_running", l.latest)
             k == [z.task EXCEPT !.status = "in_progress", !.run = "running",
                                 !.uncertain = 0, !.conflict = FALSE]
             v == [z EXCEPT !.task = k]
             w == [z EXCEPT !.task.status = "in_progress", !.task.run = "running",
                       !.task.uncertain = 0, !.task.conflict = FALSE, !.turn = l.latest]
  <2>1. y = Watch(w, l.latest) \/ y = Result(w, l.latest, l.state, TRUE, "loop")
    BY <1>2 DEF Recovered
  <2>2. z = SetOp(x, l.op, "agent_running", l.latest) /\ l.latest \in Nat
    OBVIOUS
  <2>3. v = [z EXCEPT !.task = k]
    OBVIOUS
  <2> HIDE DEF z
  <2>4. Sane(x, z, n)
    BY <2>2, SetOpSane DEF OpState
  <2>5. DOMAIN z = Fields /\ z.task \in TaskRec /\ Len(z.ops) \in Nat
    <3>1. z.ops \in Seq(OpRec)
      BY <2>4 DEF Sane, Typed, States
    <3> QED BY <2>4, <3>1 DEF Sane, Typed, States, Fields
  <2>6. k \in TaskRec /\ k.run = "running" /\ k.thread = z.task.thread /\ k.uncertain = 0
    BY <2>5 DEF TaskRec
  <2>7. w = [v EXCEPT !.turn = l.latest]
    BY <2>5 DEF Fields, TaskRec
  <2> HIDE DEF k, v, w
  <2>8. Sane(z, v, n)
    <3>1. k.uncertain <= Len(z.ops)
      BY <2>5, <2>6
    <3> QED BY <2>3, <2>4, <2>6, <3>1, RowSane DEF Sane
  <2>9. Typed(v, n) /\ DOMAIN v = Fields
    BY <2>8 DEF Sane, Typed, States, Fields
  <2>10. w \in States(n)
    BY <2>7, <2>9 DEF Typed, States
  <2>11. Beside(v, w, Side)
    BY <2>7, <2>9 DEF Beside, Fields, Side
  <2>12. Sane(v, w, n)
    BY <2>9, <2>10, <2>11, SideSane
  <2>13. Sane(x, v, n)
    BY <2>4, <2>8, SaneThrough
  <2>14. Sane(x, w, n)
    BY <2>12, <2>13, SaneThrough
  <2>15. Sane(w, y, n)
    BY <2>1, <2>14, WatchSane, ResultSane DEF Sane
  <2> QED BY <2>14, <2>15, SaneThrough
<1> QED BY <1>1, <1>2

\* Codex shows more turns.
LEMMA TypedMore ==
  ASSUME NEW n \in Nat, NEW m \in Nat, n <= m, NEW x, Typed(x, n)
  PROVE  Typed(x, m)
<1>1. 0..n \subseteq 0..m
  OBVIOUS
<1>2. x.worker \in WorkerRec(m)
  BY <1>1 DEF Typed, States, WorkerRec
<1>3. x.loop \in LoopRec(m)
  BY <1>1 DEF Typed, States, LoopRec
<1>4. x.limits \in SUBSET LimitRec(m)
  <2>1. LimitRec(n) \subseteq LimitRec(m)
    BY <1>1 DEF LimitRec
  <2> QED BY <2>1 DEF Typed, States
<1>5. x \in States(m)
  BY <1>1, <1>2, <1>3, <1>4 DEF Typed, States
<1> QED BY <1>5 DEF Typed
-----------------------------------------------------------------------------
(* The invariant.                                                           *)

\* What Codex keeps.
InboxRec(n) == [turn : 1..n, what : {"started", "ended"}]
TurnRec == [prompt : Nat, state : TurnState]
CallRec(n) == [worker : 0..n, follow : 0..n]
CodexRec(n) == [threads : Nat, trees : Nat, turns : Seq(TurnRec), calls : CallRec(n),
                late : SUBSET Nat, inbox : Seq(InboxRec(n))]
Shown(c) == c \in CodexRec(Len(c.turns))

\* Requests are numbered downwards: those to come are p or less.
Numbered(x, p) ==
  /\ \A r \in InJournal(x) : r > p
  /\ x.worker.pc \in Before => x.worker.prompt > p
  /\ x.follow.pc = "options" => x.follow.prompt > p
  /\ x.queue.state = "pending" => x.queue.prompt > p
  /\ x.task.run = "starting" /\ ~x.task.thread => x.queue.prompt > p

\* A coroutine that is to record its prompt is the first to do so.
First(x) ==
  /\ x.worker.pc \in Before => x.worker.prompt \notin InJournal(x)
  /\ x.follow.pc = "options" => x.follow.prompt \notin InJournal(x)
  /\ x.worker.pc \in Before \cup {"turn"} /\ x.follow.pc # "none"
       => x.worker.prompt # x.follow.prompt

\* What waits in the queue cannot be claimed, or is nowhere else.
Fresh(x) ==
  /\ x.queue.prompt \notin InJournal(x)
  /\ x.worker.pc \in Before => x.worker.prompt # x.queue.prompt
  /\ x.follow.pc = "options" => x.follow.prompt # x.queue.prompt
Ready(x) == x.queue.state = "pending" => (Busy(x) /\ ~Pausing(x)) \/ Fresh(x)

\* Before there is a thread nothing was recorded; what begins again is not claimed too.
Threadless(x) ==
  ~x.task.thread =>
    /\ x.ops = <<>> /\ x.follow.pc = "none" /\ x.stop.pc = "none"
    /\ x.worker.pc \notin {"resume", "options", "turn"}
    /\ /\ x.task.status = "in_progress" /\ x.task.run = "starting"
       /\ x.queue.state = "pending"
       => x.lease

Ordered(x, p) == Numbered(x, p) /\ First(x) /\ Ready(x) /\ Threadless(x)

\* The turns of prompts were recorded; a start that Codex has not carried out has
\* no turn, whether the board waits for it or has given it up.
Underway(x, c) ==
  /\ InTurns(c) \subseteq InJournal(x)
  /\ \A h \in {"worker", "follow"} : x[h].pc = "turn" =>
       /\ x[h].prompt \in InJournal(x)
       /\ c.calls[h] = 0 => x[h].prompt \notin InTurns(c) \cup c.late
  /\ c.late \subseteq InJournal(x) /\ c.late \cap InTurns(c) = {}

\* Starts are given up when their coroutine goes elsewhere.
Loosed(x, c, y) ==
  {x[h].prompt : h \in {h \in {"worker", "follow"} :
                          x[h].pc = "turn" /\ c.calls[h] = 0 /\ y[h].pc # "turn"}}
LateFrom(x, c, y, d) == d.late \subseteq c.late \cup Loosed(x, c, y)

\* What was never asked for does not exist, and is not asked for twice.
Created(x, c) ==
  x.managed =>
    /\ c.trees <= 1 /\ c.threads <= 1
    /\ x.treeOp = "none" => c.trees = 0 /\ x.worker.pc # "tree"
    /\ x.threadOp = "none" => c.threads = 0 /\ x.worker.pc # "thread"
    /\ x.worker.pc = "tree" => c.trees = 0
    /\ x.worker.pc = "thread" => c.threads = 0

\* Calm, but for a worker on its way to the start, the thread, and a new stop.
Steady(x, y) ==
  /\ SamePrompts(x, y)
  /\ y.managed = x.managed /\ (x.task.thread => y.task.thread)
  /\ \/ y.worker = x.worker
     \/ y.worker.pc \in Without
     \/ /\ x.worker.pc \in Before /\ y.worker.pc \in Before
        /\ y.worker.prompt = x.worker.prompt
        /\ y.worker.pc \in {"resume", "options"} => y.task.thread
  /\ y.follow = x.follow \/ y.follow.pc = "none"
  /\ \/ y.stop = x.stop
     \/ y.stop.pc = "none"
     \/ x.stop.pc # "none" /\ y.stop.kind = x.stop.kind
     \/ y.task.thread /\ (y.stop.kind = "pause" => y.queue.state # "pending")
  /\ y.task.run = "starting" => y.task.thread \/ Keeps(x, y.task)
  /\ Waits(x, y)

LEMMA CalmSteady ==
  ASSUME NEW x, NEW y, Calm(x, y)
  PROVE  Steady(x, y)
BY DEF Calm, Still, Steady, Keeps

LEMMA SteadySame ==
  ASSUME NEW x
  PROVE  Steady(x, x)
BY CalmSame, CalmSteady

LEMMA SteadyThrough ==
  ASSUME NEW x, NEW y, NEW z, Steady(x, y), Steady(y, z)
  PROVE  Steady(x, z)
<1>1. SamePrompts(x, z)
  BY DEF Steady, SamePrompts
<1>2. Waits(x, z)
  BY DEF Steady, Waits, Pausing
<1>3. z.task.run = "starting" => z.task.thread \/ Keeps(x, z.task)
  BY DEF Steady, Keeps
<1>4. \/ z.stop = x.stop
      \/ z.stop.pc = "none"
      \/ x.stop.pc # "none" /\ z.stop.kind = x.stop.kind
      \/ z.task.thread /\ (z.stop.kind = "pause" => z.queue.state # "pending")
  BY DEF Steady, Waits
<1>5. \/ z.worker = x.worker
      \/ z.worker.pc \in Without
      \/ /\ x.worker.pc \in Before /\ z.worker.pc \in Before
         /\ z.worker.prompt = x.worker.prompt
         /\ z.worker.pc \in {"resume", "options"} => z.task.thread
  BY DEF Steady, Before, Without
<1>6. /\ z.managed = x.managed /\ (x.task.thread => z.task.thread)
      /\ z.follow = x.follow \/ z.follow.pc = "none"
  BY DEF Steady
<1> QED BY <1>1, <1>2, <1>3, <1>4, <1>5, <1>6 DEF Steady

LEMMA JournalSame ==
  ASSUME NEW n, NEW m, NEW x, NEW y, Typed(x, n), Typed(y, m), SamePrompts(x, y)
  PROVE  InJournal(y) = InJournal(x) /\ (x.ops = <<>> => y.ops = <<>>)
<1> DEFINE q == x.ops
           r == y.ops
<1>1. q \in Seq(OpRec) /\ r \in Seq(OpRec) /\ Len(q) = Len(r)
      /\ \A i \in 1..Len(q) : r[i].prompt = q[i].prompt
  BY DEF Typed, States, SamePrompts
<1>2. InJournal(x) = {q[i].prompt : i \in DOMAIN q} /\ InJournal(y) = {r[i].prompt : i \in DOMAIN r}
  BY DEF InJournal
<1> HIDE DEF q, r
<1>3. DOMAIN q = 1..Len(q) /\ DOMAIN r = DOMAIN q
  BY <1>1
<1>4. q = <<>> => r = <<>>
  BY <1>1
<1> QED BY <1>1, <1>2, <1>3, <1>4 DEF q, r

LEMMA SteadyOrdered ==
  ASSUME NEW n, NEW m, NEW x, NEW y, Typed(x, n), Typed(y, m), Steady(x, y),
         NEW p \in Nat, NEW r \in Nat, r <= p, Ordered(x, p)
  PROVE  Ordered(y, r)
<1>1. InJournal(y) = InJournal(x) /\ (x.ops = <<>> => y.ops = <<>>)
  BY JournalSame DEF Steady
<1>2. /\ x.worker.prompt \in Nat /\ x.follow.prompt \in Nat /\ x.queue.prompt \in Nat
      /\ \A i \in InJournal(x) : i \in Nat
  <2>1. \A i \in InJournal(x) : i \in Nat
    <3> DEFINE q == x.ops
               S == OpRec
    <3>1. q \in Seq(S) /\ InJournal(x) = {q[i].prompt : i \in DOMAIN q}
      BY DEF Typed, States, InJournal
    <3>2. \A i \in DOMAIN q : q[i] \in S
      <4> HIDE DEF q, S
      <4> QED BY <3>1
    <3> QED BY <3>1, <3>2 DEF OpRec
  <2> QED BY <2>1 DEF Typed, States, WorkerRec, FollowRec, QueueRec
<1>3. Numbered(y, r)
  <2>1. /\ y.worker.pc \in Before => x.worker.pc \in Before /\ y.worker.prompt = x.worker.prompt
        /\ y.follow.pc = "options" => x.follow.pc = "options" /\ y.follow.prompt = x.follow.prompt
        /\ y.queue.prompt = x.queue.prompt
        /\ y.queue.state = "pending" => x.queue.state = "pending"
        /\ y.task.run = "starting" /\ ~y.task.thread => x.task.run = "starting" /\ ~x.task.thread
    BY DEF Steady, Keeps, Waits, Before, Without
  <2> QED BY <1>1, <1>2, <2>1 DEF Ordered, Numbered
<1>4. First(y)
  BY <1>1 DEF Ordered, First, Steady, Before, Without
<1>5. Ready(y)
  <2> SUFFICES ASSUME y.queue.state = "pending" PROVE (Busy(y) /\ ~Pausing(y)) \/ Fresh(y)
    BY DEF Ready
  <2>1. x.queue.state = "pending" /\ y.queue.prompt = x.queue.prompt
        /\ ((Busy(x) => Busy(y)) \/ Pausing(x))
    BY DEF Steady, Waits
  <2>2. CASE Busy(x) /\ ~Pausing(x)
    <3>1. ~Pausing(y)
      BY <2>2 DEF Steady, Pausing
    <3> QED BY <2>1, <2>2, <3>1
  <2>3. CASE Fresh(x)
    BY <1>1, <2>1, <2>3 DEF Fresh, Steady, Before, Without
  <2> QED BY <2>1, <2>2, <2>3 DEF Ordered, Ready
<1>6. Threadless(y)
  <2> SUFFICES ASSUME ~y.task.thread PROVE Threadless(y)
    BY DEF Threadless
  <2>1. ~x.task.thread /\ Threadless(x)
    BY DEF Steady, Ordered
  <2>2. y.ops = <<>> /\ y.follow.pc = "none" /\ y.stop.pc = "none"
    BY <1>1, <2>1 DEF Threadless, Steady
  <2>3. y.worker.pc \notin {"resume", "options", "turn"}
    BY <2>1 DEF Threadless, Steady, Before, Without
  <2>4. ASSUME y.task.status = "in_progress", y.task.run = "starting", y.queue.state = "pending"
        PROVE  y.lease
    <3>1. x.task.status = "in_progress" /\ x.task.run = "starting"
      BY <2>1, <2>4 DEF Steady, Keeps
    <3>2. x.queue.state = "pending" /\ ((Busy(x) => Busy(y)) \/ Pausing(x))
      BY <2>4 DEF Steady, Waits
    <3>3. x.lease /\ ~Pausing(x)
      BY <2>1, <3>1, <3>2 DEF Threadless, Pausing
    <3> QED BY <3>1, <3>2, <3>3 DEF Busy
  <2> QED BY <2>2, <2>3, <2>4 DEF Threadless
<1> QED BY <1>3, <1>4, <1>5, <1>6 DEF Ordered

LEMMA SteadyUnderway ==
  ASSUME NEW n, NEW m, NEW x, NEW y, Typed(x, n), Typed(y, m), Steady(x, y),
         NEW c, NEW d, Underway(x, c), InTurns(d) = InTurns(c),
         y.worker.pc = "turn" => d.calls.worker = c.calls.worker,
         y.follow.pc = "turn" => d.calls.follow = c.calls.follow,
         First(x), LateFrom(x, c, y, d)
  PROVE  Underway(y, d)
<1>1. InJournal(y) = InJournal(x)
  BY JournalSame DEF Steady
<1>2. y.worker.pc = "turn" => y.worker = x.worker
  BY DEF Steady, Before, Without
<1>3. y.follow.pc = "turn" => y.follow = x.follow
  BY DEF Steady
<1>4. \A r \in Loosed(x, c, y) : r \in InJournal(x) /\ r \notin InTurns(c)
  BY DEF Loosed, Underway
<1>5. d.late \subseteq InJournal(y) /\ d.late \cap InTurns(d) = {}
  BY <1>1, <1>4 DEF LateFrom, Underway
<1>6. ASSUME NEW h \in {"worker", "follow"}, y[h].pc = "turn", d.calls[h] = 0
      PROVE  y[h].prompt \notin InTurns(d) \cup d.late
  <2>1. y[h] = x[h] /\ c.calls[h] = 0
    BY <1>2, <1>3, <1>6
  <2>2. y[h].prompt \notin InTurns(c) \cup c.late
    BY <1>6, <2>1 DEF Underway
  <2>3. ASSUME NEW g \in {"worker", "follow"}, x[g].pc = "turn", y[g].pc # "turn"
        PROVE  x[g].prompt # x[h].prompt
    BY <1>6, <2>1, <2>3 DEF First
  <2>4. y[h].prompt \notin Loosed(x, c, y)
    BY <2>1, <2>3 DEF Loosed
  <2> QED BY <2>2, <2>4 DEF LateFrom
<1>7. \A h \in {"worker", "follow"} : y[h].pc = "turn" => y[h].prompt \in InJournal(y)
  BY <1>1, <1>2, <1>3 DEF Underway
<1> QED BY <1>1, <1>5, <1>6, <1>7 DEF Underway

\* What Codex keeps is the same, but for what may still come.
LEMMA AbandonedIs ==
  ASSUME NEW n, Typed(s, n), Shown(codex), Underway(s, codex), NEW d, d = Abandoned(codex)
  PROVE  /\ Shown(d) /\ d.threads = codex.threads /\ d.trees = codex.trees
         /\ d.turns = codex.turns /\ d.calls = codex.calls /\ d.inbox = codex.inbox
         /\ DOMAIN d = DOMAIN codex /\ LateFrom(s, codex, s', d)
<1> DEFINE open == {h \in {"worker", "follow"} :
                      s[h].pc = "turn" /\ codex.calls[h] = 0 /\ s'[h].pc # "turn"}
           more == IF May("late") THEN {s[h].prompt : h \in open} ELSE {}
           all == codex.late \cup more
<1>1. d = [codex EXCEPT !.late = all]
  BY DEF Abandoned
<1>2. DOMAIN codex = {"threads", "trees", "turns", "calls", "late", "inbox"} /\ codex.late \subseteq Nat
  BY DEF Shown, CodexRec
<1>3. more \subseteq Loosed(s, codex, s')
  BY DEF Loosed
<1>4. more \subseteq Nat
  <2>1. s.worker.prompt \in Nat /\ s.follow.prompt \in Nat
    BY DEF Typed, States, WorkerRec, FollowRec
  <2> QED BY <2>1
<1> HIDE DEF open, more
<1>5. all \subseteq Nat
  BY <1>2, <1>4
<1>6. d.late = all /\ d.turns = codex.turns /\ d.calls = codex.calls /\ d.inbox = codex.inbox
      /\ d.trees = codex.trees /\ d.threads = codex.threads /\ DOMAIN d = DOMAIN codex
  BY <1>1, <1>2
<1>7. LateFrom(s, codex, s', d)
  BY <1>3, <1>6 DEF LateFrom
<1>8. Shown(d)
  <2>1. /\ codex.threads \in Nat /\ codex.trees \in Nat /\ codex.turns \in Seq(TurnRec)
        /\ codex.calls \in CallRec(Len(codex.turns)) /\ codex.inbox \in Seq(InboxRec(Len(codex.turns)))
    BY DEF Shown, CodexRec
  <2> HIDE DEF all
  <2> QED BY <1>1, <1>2, <1>5, <1>6, <2>1 DEF Shown, CodexRec
<1> QED BY <1>6, <1>7, <1>8

-----------------------------------------------------------------------------
(* Steps.                                                                   *)

LeftRec == [managed : BOOLEAN, can : SUBSET Operation, prompts : Nat, stops : Nat,
            native : Nat, faults : Nat]

Good(x, c, p) ==
  /\ Shown(c) /\ Typed(x, Len(c.turns)) /\ p \in Nat
  /\ Ordered(x, p) /\ Underway(x, c) /\ Created(x, c)

IInv == left \in LeftRec /\ Good(s, codex, left.prompts)

\* The turns are still those of the same prompts.
SameTurns(c, d) ==
  /\ Len(d.turns) = Len(c.turns)
  /\ \A i \in 1..Len(c.turns) : d.turns[i].prompt = c.turns[i].prompt

Starts(c) == [i \in {i \in DOMAIN c.turns : c.turns[i].prompt # 0} |-> c.turns[i].prompt]

\* A function with one more entry.
Extended(f, t, r) == [i \in DOMAIN f \cup {t} |-> IF i = t THEN r ELSE f[i]]

\* Nothing is recorded or started, a prompt is recorded, or one is started.
Moves(x, c, y, d) ==
  \/ InJournal(y) = InJournal(x) /\ Starts(d) = Starts(c)
  \/ \E r \in InJournal(y) : InJournal(y) = InJournal(x) \cup {r} /\ Starts(d) = Starts(c)
  \/ /\ InJournal(y) = InJournal(x)
     /\ \E r \in InJournal(x) :
          /\ r \notin Range(Starts(c))
          /\ \E turn \in DOMAIN Starts(d) \ DOMAIN Starts(c) :
               Starts(d) = Extended(Starts(c), turn, r)
Step == IInv' /\ Moves(s, codex, s', codex')

LEMMA TurnsOf ==
  ASSUME NEW c, Shown(c)
  PROVE  /\ c.turns \in Seq(TurnRec) /\ Len(c.turns) \in Nat /\ DOMAIN c.turns = 1..Len(c.turns)
         /\ \A i \in DOMAIN c.turns : c.turns[i].prompt \in Nat /\ c.turns[i].state \in TurnState
<1> DEFINE q == c.turns
           S == TurnRec
<1>1. q \in Seq(S)
  BY DEF Shown, CodexRec
<1>2. Len(q) \in Nat /\ DOMAIN q = 1..Len(q) /\ \A i \in DOMAIN q : q[i] \in S
  <2> HIDE DEF q, S
  <2> QED BY <1>1
<1> QED BY <1>1, <1>2 DEF TurnRec

LEMMA TurnsSame ==
  ASSUME NEW c, NEW d, Shown(c), Shown(d), SameTurns(c, d)
  PROVE  InTurns(d) = InTurns(c) /\ Starts(d) = Starts(c)
<1>1. DOMAIN d.turns = DOMAIN c.turns /\ \A i \in DOMAIN c.turns : d.turns[i].prompt = c.turns[i].prompt
  BY TurnsOf DEF SameTurns
<1> QED BY <1>1 DEF InTurns, Starts

LEMMA LeftStep ==
  ASSUME left \in LeftRec,
         \/ Unspent \/ Fault \/ Ask
         \/ left.stops > 0 /\ left' = [left EXCEPT !.stops = @ - 1]
         \/ left.native > 0 /\ left' = [left EXCEPT !.native = @ - 1]
  PROVE  left' \in LeftRec /\ left'.prompts \in Nat /\ left'.prompts <= left.prompts
<1>1. CASE Unspent
  BY <1>1 DEF Unspent, LeftRec
<1>2. CASE Fault
  BY <1>2 DEF Fault, LeftRec
<1>3. CASE Ask
  BY <1>3 DEF Ask, LeftRec
<1>4. CASE left.stops > 0 /\ left' = [left EXCEPT !.stops = @ - 1]
  BY <1>4 DEF LeftRec
<1>5. CASE left.native > 0 /\ left' = [left EXCEPT !.native = @ - 1]
  BY <1>5 DEF LeftRec
<1> QED BY <1>1, <1>2, <1>3, <1>4, <1>5

Spent == left' \in LeftRec /\ left'.prompts \in Nat /\ left'.prompts <= left.prompts

LEMMA SteadyStep ==
  ASSUME IInv, Spent, Steady(s, s'), Typed(s', Latest), Shown(codex'), SameTurns(codex, codex'),
         s'.worker.pc = "turn" => codex'.calls.worker = codex.calls.worker,
         s'.follow.pc = "turn" => codex'.calls.follow = codex.calls.follow,
         Created(s', codex'), LateFrom(s, codex, s', codex')
  PROVE  Step
<1> DEFINE x == s
           y == s'
           c == codex
           d == codex'
           p == left.prompts
           r == left'.prompts
           n == Len(c.turns)
<1>1. Good(x, c, p) /\ r \in Nat /\ r <= p /\ p \in Nat
  BY DEF IInv, Spent, Good
<1>2. Shown(c) /\ Typed(x, n) /\ Ordered(x, p) /\ Underway(x, c)
  BY <1>1 DEF Good
<1>3. Typed(y, n) /\ Steady(x, y) /\ Len(d.turns) = n
  BY DEF Latest, SameTurns
<1>4. InTurns(d) = InTurns(c) /\ Starts(d) = Starts(c)
  BY <1>2, TurnsSame
<1>5. y.worker.pc = "turn" => d.calls.worker = c.calls.worker
  OBVIOUS
<1>6. y.follow.pc = "turn" => d.calls.follow = c.calls.follow
  OBVIOUS
<1>7. Shown(d) /\ Created(y, d) /\ LateFrom(x, c, y, d)
  OBVIOUS
<1> HIDE DEF x, y, c, d, p, r, n
<1>8. InJournal(y) = InJournal(x)
  BY <1>2, <1>3, JournalSame DEF Steady
<1>9. Ordered(y, r)
  BY <1>1, <1>2, <1>3, SteadyOrdered
<1>10. Underway(y, d)
  BY <1>2, <1>3, <1>4, <1>5, <1>6, <1>7, SteadyUnderway DEF Ordered
<1>11. Good(y, d, r)
  BY <1>1, <1>3, <1>7, <1>9, <1>10 DEF Good
<1>12. Moves(x, c, y, d)
  BY <1>4, <1>8 DEF Moves
<1> QED BY <1>11, <1>12 DEF Step, IInv, Spent, x, y, c, d, p, r

LEMMA SaneStep ==
  ASSUME IInv, Spent, Sane(s, s', Latest), Shown(codex'), SameTurns(codex, codex'),
         codex'.trees = codex.trees, codex'.threads = codex.threads,
         s'.worker.pc = "turn" => codex'.calls.worker = codex.calls.worker,
         s'.follow.pc = "turn" => codex'.calls.follow = codex.calls.follow,
         LateFrom(s, codex, s', codex')
  PROVE  Step
<1>1. Typed(s', Latest) /\ Calm(s, s') /\ Steady(s, s')
  BY CalmSteady DEF Sane
<1>2. Created(s, codex)
  BY DEF IInv, Good
<1>3. s'.managed = s.managed /\ s'.treeOp = s.treeOp /\ s'.threadOp = s.threadOp
      /\ (s'.worker = s.worker \/ s'.worker.pc \in Without)
  BY <1>1 DEF Calm, Still
<1>4. Created(s', codex')
  BY <1>2, <1>3 DEF Created, Without
<1> QED BY <1>1, <1>4, SteadyStep

LEMMA SaneOnly ==
  ASSUME IInv, Spent, Sane(s, s', Latest), UNCHANGED codex
  PROVE  Step
<1>1. Shown(codex') /\ SameTurns(codex, codex') /\ LateFrom(s, codex, s', codex')
  BY DEF IInv, Good, SameTurns, LateFrom
<1> QED BY <1>1, SaneStep

LEMMA Facts ==
  ASSUME IInv
  PROVE  /\ Latest \in Nat /\ Typed(s, Latest) /\ s \in States(Latest) /\ DOMAIN s = Fields
         /\ Shown(codex) /\ codex.calls \in CallRec(Latest)
         /\ s.worker.op \in Nat /\ s.worker.op <= Len(s.ops)
         /\ s.follow.op \in Nat /\ s.follow.op <= Len(s.ops)
         /\ left \in LeftRec /\ Ordered(s, left.prompts) /\ left.prompts \in Nat
<1>1. Shown(codex) /\ Typed(s, Latest) /\ left \in LeftRec /\ Ordered(s, left.prompts)
      /\ left.prompts \in Nat
  BY DEF IInv, Good, Latest
<1>2. Latest \in Nat
  BY <1>1, TurnsOf DEF Latest
<1>3. codex.calls \in CallRec(Latest)
  BY <1>1 DEF Shown, CodexRec, Latest
<1>4. s \in States(Latest) /\ s.worker.op <= Len(s.ops) /\ s.follow.op <= Len(s.ops)
  BY <1>1 DEF Typed
<1>5. s.worker.op \in Nat /\ s.follow.op \in Nat /\ DOMAIN s = Fields
  BY <1>4 DEF States, WorkerRec, FollowRec, Fields
<1> QED BY <1>1, <1>2, <1>3, <1>4, <1>5

LEMMA CallReset ==
  ASSUME NEW c, Shown(c), NEW d, NEW k \in 0..Len(c.turns),
         \/ d = [c EXCEPT !.calls.worker = k] /\ (k # 0 => k = c.calls.worker)
         \/ d = [c EXCEPT !.calls.follow = 0]
  PROVE  /\ Shown(d) /\ SameTurns(c, d) /\ d.trees = c.trees /\ d.threads = c.threads
         /\ d.late = c.late
         /\ d = [c EXCEPT !.calls.worker = k] => d.calls.follow = c.calls.follow
         /\ d = [c EXCEPT !.calls.follow = 0] => d.calls.worker = c.calls.worker
<1>1. /\ c.calls \in CallRec(Len(c.turns)) /\ Len(c.turns) \in Nat
      /\ DOMAIN c = {"threads", "trees", "turns", "calls", "late", "inbox"}
  BY TurnsOf DEF Shown, CodexRec
<1>2. DOMAIN c.calls = {"worker", "follow"}
  BY <1>1 DEF CallRec
<1>3. CASE d = [c EXCEPT !.calls.worker = k]
  <2> DEFINE l == [c.calls EXCEPT !.worker = k]
  <2>1. l \in CallRec(Len(c.turns)) /\ l.follow = c.calls.follow
    BY <1>1, <1>2 DEF CallRec
  <2>2. d = [c EXCEPT !.calls = l]
    BY <1>1, <1>3
  <2> HIDE DEF l
  <2>3. d.turns = c.turns /\ d.trees = c.trees /\ d.threads = c.threads /\ d.calls = l /\ d.late = c.late
    BY <1>1, <2>2
  <2>4. Shown(d)
    BY <2>1, <2>2, <2>3 DEF Shown, CodexRec
  <2>5. d = [c EXCEPT !.calls.follow = 0] => d.calls.worker = c.calls.worker
    BY <1>1, <1>2
  <2> QED BY <2>1, <2>3, <2>4, <2>5 DEF SameTurns
<1>4. CASE d = [c EXCEPT !.calls.follow = 0]
  <2> DEFINE l == [c.calls EXCEPT !.follow = 0]
  <2>1. l \in CallRec(Len(c.turns)) /\ l.worker = c.calls.worker
    BY <1>1, <1>2 DEF CallRec
  <2>2. d = [c EXCEPT !.calls = l]
    BY <1>1, <1>4
  <2> HIDE DEF l
  <2>3. d.turns = c.turns /\ d.trees = c.trees /\ d.threads = c.threads /\ d.calls = l /\ d.late = c.late
    BY <1>1, <2>2
  <2>4. Shown(d)
    BY <2>1, <2>2, <2>3 DEF Shown, CodexRec
  <2>5. d = [c EXCEPT !.calls.worker = k] => d.calls.follow = c.calls.follow
    BY <1>1, <1>2
  <2> QED BY <2>1, <2>3, <2>4, <2>5 DEF SameTurns
<1> QED BY <1>3, <1>4

LEMMA LimitsSane ==
  ASSUME NEW n \in Nat, NEW x, Typed(x, n), NEW y, y = Go(x, "limits")
  PROVE  Sane(x, y, n)
<1> DEFINE w == [x.worker EXCEPT !.pc = "limits"]
<1>1. DOMAIN x = Fields /\ x.worker \in WorkerRec(n)
  BY DEF Typed, States, Fields
<1>2. w \in WorkerRec(n) /\ w.pc \in Without /\ w.op = x.worker.op
  BY <1>1 DEF WorkerRec, Without
<1>3. y = [x EXCEPT !.worker = w]
  BY <1>1 DEF Go, Fields, WorkerRec
<1> HIDE DEF w
<1>4. Beside(x, y, {"worker"}) /\ y.worker = w
  BY <1>1, <1>3 DEF Beside, Fields
<1>5. y \in States(n)
  BY <1>2, <1>3 DEF Typed, States
<1>6. Beside(x, y, Side \cup {"worker", "follow", "stop"}) /\ y.follow = x.follow /\ y.stop = x.stop
  BY <1>4 DEF Beside, Fields
<1> QED BY <1>2, <1>4, <1>5, <1>6, EndSane

\* Nothing more may come late.
LEMMA LateSame ==
  ASSUME NEW x, NEW c, NEW y, NEW d, d.late = c.late
  PROVE  LateFrom(x, c, y, d)
BY DEF LateFrom

\* The start is answered.
LEMMA TurnStartedStep ==
  ASSUME IInv, TurnStarted
  PROVE  Step
<1> DEFINE n == Latest
           id == codex.calls.worker
           z == Accepted("worker", id)
           S == RunRec
           e == [turn |-> id, state |-> "running"]
           w == [s.worker EXCEPT !.pc = "wait", !.turn = id]
           r == IF LastRun(s).turn = id THEN z.runs ELSE Append(z.runs, e)
<1>1. id \in 0..n /\ n \in Nat /\ Typed(s, n) /\ Shown(codex)
  BY Facts DEF CallRec
<1>2. z = SetOp(s, s.worker.op, "agent_running", id)
  BY DEF Accepted
<1>3. s' = [z EXCEPT !.turn = id, !.runs = r, !.starting = FALSE, !.worker = w]
  <2> DEFINE known == [z EXCEPT !.turn = id]
             run == IF LastRun(s).turn = id THEN known ELSE [known EXCEPT !.runs = Append(@, e)]
  <2>2. DOMAIN z = Fields /\ z.worker = s.worker
    BY <1>1, <1>2 DEF SetOp, Typed, States, Fields
  <2>0. run.worker = s.worker
    BY <2>2 DEF Fields
  <2>1. s' = [run EXCEPT !.starting = FALSE, !.worker = w]
    BY <2>0 DEF TurnStarted
  <2> HIDE DEF z, e, w
  <2>3. run = [z EXCEPT !.turn = id, !.runs = r]
    BY <2>2 DEF Fields
  <2> HIDE DEF run
  <2> QED BY <2>1, <2>3
<1> HIDE DEF z, r
<1>4. Sane(s, z, n)
  <2>1. id \in Nat
    BY <1>1
  <2> QED BY <1>1, <1>2, <2>1, SetOpSane DEF OpState
<1>5. DOMAIN z = Fields /\ z.runs \in Seq(S) /\ e \in S
  BY <1>1, <1>4 DEF Sane, Typed, States, Fields, RunRec
<1>6. r \in Seq(S)
  <2> HIDE DEF S, e
  <2> QED BY <1>5, Appended DEF r
<1>7. w \in WorkerRec(n) /\ w.pc = "wait" /\ w.pc \in Without /\ w.op = z.worker.op
  <2>1. s.worker \in WorkerRec(n)
    BY <1>1 DEF Typed, States
  <2>2. z.worker = s.worker
    BY <1>1, <1>2 DEF SetOp, Typed, States, Fields
  <2> QED BY <1>1, <2>1, <2>2 DEF Without, WorkerRec
<1> HIDE DEF w, e
<1>8. s' \in States(n)
  BY <1>1, <1>3, <1>4, <1>6, <1>7 DEF Sane, Typed, States
<1>9. Beside(z, s', {"turn", "runs", "starting", "worker"}) /\ s'.worker = w
  BY <1>3, <1>5 DEF Beside, Fields
<1>10. Beside(z, s', Side \cup {"worker", "follow", "stop"}) /\ s'.follow = z.follow /\ s'.stop = z.stop
  BY <1>9 DEF Beside, Fields, Side
<1>11. Sane(z, s', n)
  BY <1>1, <1>4, <1>7, <1>8, <1>9, <1>10, EndSane DEF Sane
<1>12. Sane(s, s', Latest)
  BY <1>4, <1>11, SaneThrough
<1>13. codex' = [codex EXCEPT !.calls.worker = 0] /\ Unspent
  BY DEF TurnStarted
<1>14. Spent
  BY <1>13, Facts, LeftStep DEF Spent
<1>15. 0 \in 0..Len(codex.turns)
  BY <1>1 DEF Latest
<1>16. s'.worker.pc # "turn"
  BY <1>7, <1>9
<1> QED BY <1>1, <1>12, <1>13, <1>14, <1>15, <1>16, CallReset, LateSame, SaneStep

LEMMA EndedFailedSane ==
  ASSUME NEW n \in Nat, NEW x, Typed(x, n), NEW lost \in BOOLEAN, NEW y, y = Ended(FailedWith(x, lost))
  PROVE  Sane(x, y, n) /\ y.worker.pc = "none"
<1> DEFINE z == FailedWith(x, lost)
<1>1. z = FailedWith(x, lost) /\ y = Ended(z)
  OBVIOUS
<1> HIDE DEF z
<1>2. Sane(x, z, n)
  BY <1>1, FailedWithSane
<1>3. Sane(z, y, n) /\ y.worker.pc = "none"
  BY <1>1, <1>2, EndedSane DEF Sane
<1> QED BY <1>2, <1>3, SaneThrough

LEMMA RefusedSane ==
  ASSUME IInv, NEW h \in {"worker", "follow"}, NEW y, y = Refused(h)
  PROVE  Sane(s, y, Latest) /\ Beside(s, y, {"ops"})
<1>1. y = SetOp(s, s[h].op, "blocked", 0)
  BY DEF Refused
<1>2. "blocked" \in OpState /\ 0 \in Nat
  BY DEF OpState
<1> QED BY <1>1, <1>2, Facts, SetOpSane

LEMMA LostStep ==
  ASSUME IInv, NEW h \in {"worker", "follow"}, NEW y, y = Lost(h)
  PROVE  Sane(s, y, Latest) /\ Beside(s, y, {"ops", "task"})
<1>1. y = LostOf(s, s[h].op)
  BY DEF Lost, LostOf
<1>2. s[h].op \in Nat /\ s[h].op <= Len(s.ops)
  <2>1. h = "worker" \/ h = "follow"
    OBVIOUS
  <2> QED BY <2>1, Facts
<1> QED BY <1>1, <1>2, Facts, LostSane

LEMMA UnknownSane ==
  ASSUME IInv, NEW h \in {"worker", "follow"}, NEW broken \in BOOLEAN, NEW y, y = Unknown(h, broken)
  PROVE  Sane(s, y, Latest) /\ Beside(s, y, {"ops", "task"})
<1>1. CASE y = Lost(h)
  BY <1>1, LostStep
<1>2. CASE y = Refused(h)
  BY <1>2, RefusedSane DEF Beside
<1> QED BY <1>1, <1>2 DEF Unknown

LEMMA GoodAbandoned ==
  ASSUME IInv, NEW d, d = Abandoned(codex)
  PROVE  /\ Shown(d) /\ d.threads = codex.threads /\ d.trees = codex.trees
         /\ d.turns = codex.turns /\ d.calls = codex.calls /\ d.inbox = codex.inbox
         /\ DOMAIN d = DOMAIN codex /\ LateFrom(s, codex, s', d)
<1>1. Typed(s, Latest) /\ Shown(codex) /\ Underway(s, codex)
  BY Facts DEF IInv, Good
<1> QED BY <1>1, AbandonedIs

LEMMA TurnRefusedStep ==
  ASSUME IInv, TurnRefused
  PROVE  Step
<1> DEFINE n == Latest
           z == Refused("worker")
           a == AskLimits(z, "worker", 0)
<1>1. Spent /\ UNCHANGED codex
  BY Facts, LeftStep DEF TurnRefused, Spent
<1>2. s' = Ended(FailedWith(z, FALSE)) \/ s' = Ended(z) \/ s' = Go(a, "limits")
  BY DEF TurnRefused
<1>3. z = Refused("worker") /\ a = AskLimits(z, "worker", 0) /\ n \in Nat /\ 0 \in 0..n
  BY Facts
<1> HIDE DEF z, a, n
<1>4. Sane(s, z, n)
  BY <1>3, RefusedSane DEF n
<1>5. Sane(z, a, n)
  BY <1>3, <1>4, AskLimitsSane DEF Sane
<1>6. CASE s' = Go(a, "limits")
  <2>1. Sane(a, s', n)
    BY <1>3, <1>5, <1>6, LimitsSane DEF Sane
  <2>2. Sane(s, a, n)
    BY <1>4, <1>5, SaneThrough
  <2>3. Sane(s, s', n)
    BY <2>1, <2>2, SaneThrough
  <2> QED BY <1>1, <2>3, SaneOnly DEF n
<1>7. CASE s' = Ended(FailedWith(z, FALSE)) \/ s' = Ended(z)
  <2>1. Sane(z, s', n)
    BY <1>3, <1>4, <1>7, EndedFailedSane, EndedSane DEF Sane
  <2>2. Sane(s, s', n)
    BY <1>4, <2>1, SaneThrough
  <2> QED BY <1>1, <2>2, SaneOnly DEF n
<1> QED BY <1>2, <1>6, <1>7

LEMMA TurnLostStep ==
  ASSUME IInv, TurnLost
  PROVE  Step
<1>0. PICK broken \in BOOLEAN :
        /\ GivesUp(broken)
        /\ s' = Ended(FailedWith(Unknown("worker", broken), broken))
        /\ codex' = [Abandoned(codex) EXCEPT !.calls.worker = 0]
  BY DEF TurnLost
<1> DEFINE n == Latest
           z == Unknown("worker", broken)
           c == Abandoned(codex)
<1>1. Spent /\ codex' = [c EXCEPT !.calls.worker = 0] /\ s' = Ended(FailedWith(z, broken))
  BY <1>0, Facts, LeftStep DEF GivesUp, Spent
<1>2. z = Unknown("worker", broken) /\ n \in Nat /\ 0 \in 0..n /\ c = Abandoned(codex)
  BY Facts
<1> HIDE DEF z, n, c
<1>2a. /\ Shown(c) /\ c.threads = codex.threads /\ c.trees = codex.trees
       /\ c.turns = codex.turns /\ c.calls = codex.calls /\ LateFrom(s, codex, s', c)
  BY <1>2, GoodAbandoned
<1>3. Sane(s, z, n)
  BY <1>2, UnknownSane DEF n
<1>4. Sane(z, s', n) /\ s'.worker.pc = "none"
  BY <1>1, <1>2, <1>3, EndedFailedSane DEF Sane
<1>5. Sane(s, s', n)
  BY <1>3, <1>4, SaneThrough
<1>6. Shown(codex') /\ SameTurns(codex, codex') /\ codex'.trees = codex.trees
      /\ codex'.threads = codex.threads /\ codex'.calls.follow = codex.calls.follow
      /\ LateFrom(s, codex, s', codex')
  <2>1. 0 \in 0..Len(c.turns)
    BY <1>2, <1>2a DEF n, Latest
  <2>2. /\ Shown(codex') /\ SameTurns(c, codex') /\ codex'.trees = c.trees
        /\ codex'.threads = c.threads /\ codex'.calls.follow = c.calls.follow
        /\ codex'.late = c.late
    BY <1>1, <1>2a, <2>1, CallReset
  <2> QED BY <1>2a, <2>2 DEF SameTurns, LateFrom
<1> QED BY <1>1, <1>4, <1>5, <1>6, SaneStep DEF n

LEMMA StateTyped ==
  ASSUME IInv, NEW i \in 0..Latest
  PROVE  StateOf(i) \in TurnState \cup {"none"}
<1>1. i = 0 \/ i \in DOMAIN codex.turns
  BY Facts, TurnsOf DEF Latest
<1> QED BY <1>1, Facts, TurnsOf DEF StateOf

\* Forgetting the end of a turn, or a look-up of limits.
LEMMA DropSane ==
  ASSUME NEW n \in Nat, NEW x, Typed(x, n), NEW y,
         \/ \E e : e \subseteq x.ended /\ y = [x EXCEPT !.ended = e]
         \/ \E l : l \subseteq x.limits /\ y = [x EXCEPT !.limits = l]
  PROVE  Sane(x, y, n)
<1>1. DOMAIN x = Fields
  BY DEF Typed, States, Fields
<1>2. Beside(x, y, Side)
  BY <1>1 DEF Beside, Fields, Side
<1>3. y \in States(n)
  BY DEF Typed, States
<1> QED BY <1>2, <1>3, SideSane

\* The worker's turn is over.
LEMMA TurnEndedStep ==
  ASSUME IInv, TurnEnded
  PROVE  Step
<1> DEFINE n == Latest
           id == s.worker.turn
<1>1. Spent /\ UNCHANGED codex
  BY Facts, LeftStep DEF TurnEnded, Spent
<1>2. PICK ok \in BOOLEAN :
        LET r == [Result(s, id, StateOf(id), ok, "worker") EXCEPT !.ended = @ \ {id}] IN
        s' = IF r.limits = s.limits THEN Ended(r) ELSE Go(r, "limits")
  BY DEF TurnEnded
<1> DEFINE z == Result(s, id, StateOf(id), ok, "worker")
           r == [z EXCEPT !.ended = @ \ {id}]
<1>3. s' = Ended(r) \/ s' = Go(r, "limits")
  BY <1>2
<1>4. n \in Nat /\ id \in 0..n /\ Typed(s, n)
  BY Facts DEF States, WorkerRec
<1>5. z = Result(s, id, StateOf(id), ok, "worker")
  OBVIOUS
<1> HIDE DEF z, n
<1>6. Sane(s, z, n)
  BY <1>4, <1>5, ResultSane
<1>7. r = [z EXCEPT !.ended = z.ended \ {id}]
  BY <1>6 DEF Sane, Typed, States
<1> HIDE DEF r
<1>8. Sane(z, r, n)
  BY <1>4, <1>6, <1>7, DropSane DEF Sane
<1>9. Sane(r, s', n)
  BY <1>3, <1>4, <1>8, EndedSane, LimitsSane DEF Sane
<1>10. Sane(s, r, n)
  BY <1>6, <1>8, SaneThrough
<1>11. Sane(s, s', n)
  BY <1>9, <1>10, SaneThrough
<1> QED BY <1>1, <1>11, SaneOnly DEF n

\* The loop goes on.
LEMMA LoopSane ==
  ASSUME NEW n \in Nat, NEW x, Typed(x, n), NEW y, NEW l \in LoopRec(n), y = [x EXCEPT !.loop = l]
  PROVE  Sane(x, y, n)
<1>1. DOMAIN x = Fields
  BY DEF Typed, States, Fields
<1>2. Beside(x, y, Side)
  BY <1>1 DEF Beside, Fields, Side
<1>3. y \in States(n)
  BY DEF Typed, States
<1> QED BY <1>2, <1>3, SideSane

LEMMA LoopTo ==
  ASSUME NEW n \in Nat, NEW x, Typed(x, n), NEW y, NEW pc \in {"idle", "limits", "reconcile", "recover"},
         y = [x EXCEPT !.loop.pc = pc] \/ y = [x EXCEPT !.loop = NoLoop]
         \/ y = [x EXCEPT !.loop = [NoLoop EXCEPT !.pc = pc]]
  PROVE  Sane(x, y, n)
<1> DEFINE l == [x.loop EXCEPT !.pc = pc]
           k == [NoLoop EXCEPT !.pc = pc]
<1>1. DOMAIN x = Fields /\ x.loop \in LoopRec(n)
  BY DEF Typed, States, Fields
<1>2. l \in LoopRec(n) /\ k \in LoopRec(n) /\ NoLoop \in LoopRec(n)
  BY <1>1 DEF LoopRec, NoLoop
<1>3. \/ y = [x EXCEPT !.loop = l]
      \/ y = [x EXCEPT !.loop = k]
      \/ y = [x EXCEPT !.loop = NoLoop]
  BY <1>1 DEF Fields
<1> HIDE DEF l, k
<1> QED BY <1>2, <1>3, LoopSane

LEMMA QuotaWaitStep ==
  ASSUME IInv, QuotaWait
  PROVE  Step
<1> DEFINE n == Latest
<1>1. PICK l \in s.limits :
        /\ s' = LET x == Forget(Exhausted([s EXCEPT !.limits = @ \ {l}]), l.turn) IN
                CASE l.by = "worker" -> Ended(x)
                  [] l.by = "loop" -> [x EXCEPT !.loop.pc = "reconcile"]
                  [] l.by = "notice" -> x
        /\ Unseen /\ Unspent /\ UNCHANGED codex
  BY DEF QuotaWait
<1>2. Spent /\ UNCHANGED codex
  BY <1>1, Facts, LeftStep DEF Spent
<1> DEFINE u == [s EXCEPT !.limits = s.limits \ {l}]
           v == Exhausted(u)
           x == Forget(v, l.turn)
<1>3. n \in Nat /\ Typed(s, n) /\ l.by \in {"worker", "loop", "notice"}
  <2>1. l \in LimitRec(n)
    BY <1>1, Facts DEF States
  <2> QED BY <2>1, Facts DEF LimitRec
<1>4. s' = Ended(x) \/ s' = [x EXCEPT !.loop.pc = "reconcile"] \/ s' = x
  BY <1>1, <1>3
<1>5. u = [s EXCEPT !.limits = s.limits \ {l}] /\ v = Exhausted(u) /\ x = Forget(v, l.turn)
  OBVIOUS
<1> HIDE DEF u, v, x, n
<1>6. Sane(s, u, n)
  BY <1>3, <1>5, DropSane
<1>7. Sane(u, v, n)
  BY <1>3, <1>5, <1>6, ExhaustedSane DEF Sane
<1>8. Sane(v, x, n)
  BY <1>3, <1>5, <1>7, ForgetSane DEF Sane
<1>9. Sane(s, v, n)
  BY <1>6, <1>7, SaneThrough
<1>10. Sane(s, x, n)
  BY <1>8, <1>9, SaneThrough
<1>11. Sane(x, s', n)
  BY <1>3, <1>4, <1>10, EndedSane, LoopTo, CalmSame DEF Sane
<1>12. Sane(s, s', n)
  BY <1>10, <1>11, SaneThrough
<1> QED BY <1>2, <1>12, SaneOnly DEF n

LEMMA NotReadiedStep ==
  ASSUME IInv, NotReadied
  PROVE  Step
<1>1. Spent /\ UNCHANGED codex
  BY Facts, LeftStep DEF NotReadied, GivesUp, Spent
<1>2. PICK broken \in BOOLEAN : s' = Ended(FailedWith(s, broken))
  BY DEF NotReadied
<1>3. Sane(s, s', Latest)
  BY <1>2, Facts, EndedFailedSane
<1> QED BY <1>1, <1>3, SaneOnly

\* A follow-up is over.
LEMMA FollowedSane ==
  ASSUME NEW n \in Nat, NEW x, Typed(x, n), NEW y, y = [x EXCEPT !.starting = FALSE, !.follow = NoFollow]
  PROVE  Sane(x, y, n) /\ y.follow.pc = "none"
<1>1. DOMAIN x = Fields
  BY DEF Typed, States, Fields
<1>2. Beside(x, y, Side \cup {"worker", "follow", "stop"}) /\ y.worker = x.worker
      /\ y.follow = NoFollow /\ y.stop = x.stop
  BY <1>1 DEF Beside, Fields, Side
<1>3. NoFollow \in FollowRec
  BY DEF NoFollow, FollowRec
<1>4. y \in States(n)
  BY <1>3 DEF Typed, States
<1>5. y.follow.pc = "none"
  BY <1>2 DEF NoFollow
<1> QED BY <1>2, <1>4, <1>5, EndSane

LEMMA FollowUpStartedStep ==
  ASSUME IInv, FollowUpStarted
  PROVE  Step
<1> DEFINE n == Latest
           id == codex.calls.follow
           z == Accepted("follow", id)
           a == Adopted(z, id, TRUE)
           w == Watch(a, id)
<1>1. id \in 0..n /\ n \in Nat /\ Typed(s, n) /\ Shown(codex) /\ 0 \in 0..n
  BY Facts DEF CallRec
<1>2. z = SetOp(s, s.follow.op, "agent_running", id) /\ a = Adopted(z, id, TRUE) /\ w = Watch(a, id)
  BY DEF Accepted
<1>3. s' = [w EXCEPT !.starting = FALSE, !.follow = NoFollow]
  BY DEF FollowUpStarted
<1>4. codex' = [codex EXCEPT !.calls.follow = 0] /\ Spent
  BY Facts, LeftStep DEF FollowUpStarted, Spent
<1> HIDE DEF z, a, w, n, id
<1>5. Sane(s, z, n)
  <2>1. id \in Nat /\ "agent_running" \in OpState
    BY <1>1 DEF OpState
  <2> QED BY <1>1, <1>2, <2>1, SetOpSane
<1>6. Sane(z, a, n)
  BY <1>1, <1>2, <1>5, AdoptedSane DEF Sane
<1>7. Sane(a, w, n)
  BY <1>1, <1>2, <1>6, WatchSane DEF Sane
<1>8. Sane(w, s', n) /\ s'.follow.pc = "none"
  BY <1>1, <1>3, <1>7, FollowedSane DEF Sane
<1>9. Sane(s, a, n)
  BY <1>5, <1>6, SaneThrough
<1>10. Sane(s, w, n)
  BY <1>7, <1>9, SaneThrough
<1>11. Sane(s, s', n)
  BY <1>8, <1>10, SaneThrough
<1>12. Shown(codex') /\ SameTurns(codex, codex') /\ codex'.trees = codex.trees
       /\ codex'.threads = codex.threads /\ codex'.calls.worker = codex.calls.worker
       /\ codex'.late = codex.late
  BY <1>1, <1>4, CallReset DEF n, Latest
<1> QED BY <1>4, <1>8, <1>11, <1>12, LateSame, SaneStep DEF n

LEMMA FollowUpNotStartedStep ==
  ASSUME IInv, FollowUpNotStarted
  PROVE  Step
<1> DEFINE n == Latest
           z == IF s.follow.pc = "turn" THEN Refused("follow") ELSE s
           v(broken) == IF s.follow.pc = "turn" THEN Unknown("follow", broken) ELSE s
           c == Abandoned(codex)
<1>1. n \in Nat /\ Typed(s, n) /\ Shown(codex) /\ 0 \in 0..n
  BY Facts
<1>2. s' = Restored(z) \/ \E broken \in BOOLEAN : s' = Restored(v(broken))
  BY DEF FollowUpNotStarted
<1>3. Spent /\ (UNCHANGED codex \/ codex' = [c EXCEPT !.calls.follow = 0])
  BY Facts, LeftStep DEF FollowUpNotStarted, GivesUp, Spent
<1>4. s.follow.pc # "none" /\ s.task.thread
  BY Facts DEF FollowUpNotStarted, Ordered, Threadless
<1>5. Sane(s, z, n) /\ z.follow = s.follow
  BY <1>1, RefusedSane, CalmSame DEF Sane, Beside, Fields
<1>6. ASSUME NEW broken \in BOOLEAN
      PROVE  Sane(s, v(broken), n) /\ v(broken).follow = s.follow
  BY <1>1, UnknownSane, CalmSame DEF Sane, Beside, Fields
<1>6a. c = Abandoned(codex)
  OBVIOUS
<1> HIDE DEF z, v, n, c
<1>7. PICK u : Sane(s, u, n) /\ u.follow = s.follow /\ s' = Restored(u)
  BY <1>2, <1>5, <1>6
<1>8. u.follow.pc # "none" /\ u.task.thread
  BY <1>4, <1>7 DEF Sane, Calm, Still
<1>9. Sane(u, s', n) /\ s'.follow.pc = "none"
  BY <1>1, <1>7, <1>8, RestoredSane DEF Sane
<1>10. Sane(s, s', n)
  BY <1>7, <1>9, SaneThrough
<1>11. Shown(codex') /\ SameTurns(codex, codex') /\ codex'.trees = codex.trees
       /\ codex'.threads = codex.threads /\ codex'.calls.worker = codex.calls.worker
       /\ LateFrom(s, codex, s', codex')
  <2>1. CASE UNCHANGED codex
    BY <1>1, <2>1 DEF SameTurns, LateFrom
  <2>2. CASE codex' = [c EXCEPT !.calls.follow = 0]
    <3>1. /\ Shown(c) /\ c.threads = codex.threads /\ c.trees = codex.trees
          /\ c.turns = codex.turns /\ c.calls = codex.calls /\ LateFrom(s, codex, s', c)
      BY <1>6a, GoodAbandoned
    <3>2. 0 \in 0..Len(c.turns)
      BY <1>1, <3>1 DEF n, Latest
    <3>3. /\ Shown(codex') /\ SameTurns(c, codex') /\ codex'.trees = c.trees
          /\ codex'.threads = c.threads /\ codex'.calls.worker = c.calls.worker
          /\ codex'.late = c.late
      BY <2>2, <3>1, <3>2, CallReset
    <3> QED BY <3>1, <3>3 DEF SameTurns, LateFrom
  <2> QED BY <1>3, <2>1, <2>2
<1> QED BY <1>3, <1>9, <1>10, <1>11, SaneStep DEF n

LEMMA GivenUpSane ==
  ASSUME NEW n \in Nat, NEW x, Typed(x, n), NEW y, y = GivenUp(x)
  PROVE  Sane(x, y, n) /\ Beside(x, y, {"stop", "override"})
<1>1. DOMAIN x = Fields
  BY DEF Typed, States, Fields
<1>2. Beside(x, y, {"stop", "override"}) /\ y.stop = NoStop
  BY <1>1 DEF Beside, Fields, GivenUp
<1>3. NoStop \in StopRec
  BY DEF NoStop, StopRec
<1>4. y \in States(n)
  BY <1>3 DEF Typed, States, GivenUp
<1>5. Beside(x, y, Side \cup {"worker", "follow", "stop"}) /\ y.worker = x.worker /\ y.follow = x.follow
  BY <1>2 DEF Beside, Fields, Side
<1> QED BY <1>2, <1>4, <1>5, EndSane

\* A stop goes on.
LEMMA StoppingSane ==
  ASSUME NEW n \in Nat, NEW x, Typed(x, n), x.stop.pc # "none", NEW pc \in {"ask", "check", "apply"},
         NEW y, y = [x EXCEPT !.stop.pc = pc]
  PROVE  Sane(x, y, n)
<1> DEFINE k == [x.stop EXCEPT !.pc = pc]
<1>1. DOMAIN x = Fields /\ x.stop \in StopRec
  BY DEF Typed, States, Fields
<1>2. k \in StopRec /\ k.kind = x.stop.kind /\ k.pc = pc
  BY <1>1 DEF StopRec
<1>3. y = [x EXCEPT !.stop = k]
  BY <1>1 DEF Fields
<1> HIDE DEF k
<1>4. Beside(x, y, {"stop"}) /\ y.stop = k
  BY <1>1, <1>3 DEF Beside, Fields
<1>5. y \in States(n)
  BY <1>2, <1>3 DEF Typed, States
<1>6. Typed(y, n)
  BY <1>2, <1>4, <1>5 DEF Typed, Beside, Fields
<1>7. Calm(x, y)
  BY <1>2, <1>4 DEF Calm, Still, Keeps, Waits, SamePrompts, Busy, Beside, Fields
<1> QED BY <1>6, <1>7 DEF Sane

\* A turn ends, and is notified.
Marked(c, i, state) ==
  [c EXCEPT !.turns[i].state = state, !.inbox = Append(@, [turn |-> i, what |-> "ended"])]

LEMMA TurnMarked ==
  ASSUME NEW c, Shown(c), NEW i \in 1..Len(c.turns), NEW state \in TurnState, NEW d,
         d = Marked(c, i, state)
  PROVE  /\ Shown(d) /\ SameTurns(c, d) /\ d.trees = c.trees /\ d.threads = c.threads
         /\ d.calls = c.calls /\ d.late = c.late
<1> DEFINE S == TurnRec
           M == InboxRec(Len(c.turns))
           q == c.turns
           e == [q[i] EXCEPT !.state = state]
           u == [q EXCEPT ![i] = e]
           b == Append(c.inbox, [turn |-> i, what |-> "ended"])
<1>1. /\ DOMAIN c = {"threads", "trees", "turns", "calls", "late", "inbox"} /\ q \in Seq(S)
      /\ c.inbox \in Seq(M)
  BY DEF Shown, CodexRec
<1>2. d = [c EXCEPT !.turns = u, !.inbox = b]
  BY <1>1 DEF Marked
<1>3. q[i] \in S
  <2> HIDE DEF S, q
  <2>1. i \in 1..Len(q)
    BY DEF q
  <2> QED BY <1>1, <2>1
<1>4. e \in S
  BY <1>3 DEF TurnRec
<1>5. e.prompt = q[i].prompt
  BY <1>3 DEF TurnRec
<1>6. [turn |-> i, what |-> "ended"] \in M
  BY DEF InboxRec
<1>7. b \in Seq(M)
  <2> DEFINE m == [turn |-> i, what |-> "ended"]
  <2>1. m \in M
    BY <1>6
  <2> HIDE DEF M, m
  <2> QED BY <1>1, <2>1, Appended DEF m
<1>8. SameBut(S, q, i, e, u)
  <2>1. u = [q EXCEPT ![i] = e]
    OBVIOUS
  <2> HIDE DEF S, q, e, u
  <2> QED BY <1>1, <1>4, <2>1, SeqExcept
<1> HIDE DEF u, b, e
<1>9. d.late = c.late /\ d.turns = u /\ d.inbox = b /\ d.calls = c.calls /\ d.trees = c.trees /\ d.threads = c.threads
  BY <1>1, <1>2
<1>10. Len(u) = Len(q) /\ u \in Seq(S)
  BY <1>8 DEF SameBut
<1>11. SameTurns(c, d)
  BY <1>5, <1>8, <1>9 DEF SameTurns, SameBut
<1>12. Shown(d)
  BY <1>2, <1>7, <1>9, <1>10 DEF Shown, CodexRec
<1> QED BY <1>9, <1>11, <1>12

LEMMA ActiveTurn ==
  ASSUME IInv, NEW i \in 0..Latest, StateOf(i) = "active"
  PROVE  i \in 1..Len(codex.turns)
<1>1. i # 0
  BY DEF StateOf
<1> QED BY <1>1, Facts DEF Latest

LEMMA StopAskStep ==
  ASSUME IInv, StopAsk
  PROVE  Step
<1> DEFINE id == IF s.turn # 0 THEN s.turn ELSE IF Active THEN Latest ELSE 0
           asked == [s EXCEPT !.stop.pc = "check"]
<1>1. s' = asked \/ s' = GivenUp(s)
  BY DEF StopAsk
<1>2. Spent
  <2>1. Unspent \/ Fault
    BY DEF StopAsk, GivesUp
  <2> QED BY <2>1, Facts, LeftStep DEF Spent
<1>3. Sane(s, s', Latest)
  <2>1. s.stop.pc # "none"
    BY DEF StopAsk
  <2>2. CASE s' = asked
    BY <2>1, <2>2, Facts, StoppingSane
  <2>3. CASE s' = GivenUp(s)
    BY <2>3, Facts, GivenUpSane
  <2> QED BY <1>1, <2>2, <2>3
<1>4. CASE UNCHANGED codex
  BY <1>2, <1>3, <1>4, SaneOnly
<1>5. CASE /\ StateOf(id) = "active"
           /\ codex' = [codex EXCEPT !.turns[id].state = "interrupted",
                                     !.inbox = Append(@, [turn |-> id, what |-> "ended"])]
  <2>1. id \in 0..Latest
    BY Facts DEF States
  <2> HIDE DEF id
  <2>2. id \in 1..Len(codex.turns)
    BY <1>5, <2>1, ActiveTurn
  <2>3. Shown(codex) /\ "interrupted" \in TurnState
    BY Facts DEF TurnState
  <2>4. /\ Shown(codex') /\ SameTurns(codex, codex') /\ codex'.trees = codex.trees
        /\ codex'.threads = codex.threads /\ codex'.calls = codex.calls
        /\ codex'.late = codex.late
    <3>1. codex' = Marked(codex, id, "interrupted")
      BY <1>5 DEF Marked
    <3> QED BY <2>2, <2>3, <3>1, TurnMarked
  <2> QED BY <1>2, <1>3, <2>4, LateSame, SaneStep
<1> QED BY <1>4, <1>5 DEF StopAsk

LEMMA StopCheckStep ==
  ASSUME IInv, StopCheck
  PROVE  Step
<1>1. Spent /\ UNCHANGED codex /\ s.stop.pc # "none"
  BY Facts, LeftStep DEF StopCheck, Spent
<1>2. s' = GivenUp(s) \/ s' = [s EXCEPT !.stop.pc = "apply"]
  BY DEF StopCheck
<1>3. Sane(s, s', Latest)
  BY <1>1, <1>2, Facts, GivenUpSane, StoppingSane
<1> QED BY <1>1, <1>3, SaneOnly

LEMMA StoppedStill ==
  ASSUME NEW n \in Nat, NEW x, Typed(x, n), NEW kind \in {"pause", "cancel", "requeue"},
         NEW current \in BOOLEAN, NEW y, y = StoppedBy(x, kind, current)
  PROVE  /\ Typed(y, n) /\ Still(x, y)
         /\ \/ Waits(x, y)
            \/ kind = "pause" /\ y.queue = x.queue
<1>0. x.managed \in BOOLEAN
  BY DEF Typed, States
<1>1. CASE kind = "pause"
  <2>1. y = Paused(x)
    BY <1>1 DEF StoppedBy
  <2> QED BY <1>1, <2>1, PausedStill
<1>2. CASE kind = "cancel" /\ x.managed
  <2> DEFINE z == Paused(x)
  <2>1. z = Paused(x) /\ y = Moved(z, "canceled", "none")
    BY <1>2 DEF StoppedBy
  <2> HIDE DEF z
  <2>2. Typed(z, n) /\ Still(x, z) /\ z.queue = x.queue
    BY <2>1, PausedStill
  <2>3. Sane(z, y, n) /\ y.queue.state # "pending"
    BY <2>1, <2>2, MovedSane
  <2>4. Sane(x, y, n)
    BY <2>2, <2>3, Ending
  <2> QED BY <2>4 DEF Sane, Calm
<1>3. CASE kind = "cancel" /\ ~x.managed
  <2> DEFINE z == Moved(x, "canceled", "none")
  <2>1. y = Canceled(z) \/ y = x
    BY <1>3 DEF StoppedBy
  <2>2. z = Moved(x, "canceled", "none")
    OBVIOUS
  <2> HIDE DEF z
  <2>3. Sane(x, z, n)
    BY <2>2, MovedSane
  <2>4. CASE y = Canceled(z)
    <3>1. Sane(z, y, n)
      BY <2>3, <2>4, CanceledSane DEF Sane
    <3>2. Sane(x, y, n)
      BY <2>3, <3>1, SaneThrough
    <3> QED BY <3>2 DEF Sane, Calm
  <2> QED BY <2>1, <2>4, CalmSame DEF Calm
<1>4. CASE kind = "requeue"
  <2> DEFINE z == Moved(x, "todo", "none")
             u == Updated(z, "interrupted")
  <2>1. y = Canceled(u)
    BY <1>4 DEF StoppedBy
  <2>2. z = Moved(x, "todo", "none") /\ u = Updated(z, "interrupted") /\ "interrupted" \in RunState
    BY DEF RunState
  <2> HIDE DEF z, u
  <2>3. Sane(x, z, n)
    BY <2>2, MovedSane
  <2>4. Sane(z, u, n)
    BY <2>2, <2>3, UpdatedSane DEF Sane
  <2>5. Sane(u, y, n)
    BY <2>1, <2>4, CanceledSane DEF Sane
  <2>6. Sane(x, u, n)
    BY <2>3, <2>4, SaneThrough
  <2>7. Sane(x, y, n)
    BY <2>5, <2>6, SaneThrough
  <2> QED BY <2>7 DEF Sane, Calm
<1> QED BY <1>0, <1>1, <1>2, <1>3, <1>4

LEMMA StopApplyStep ==
  ASSUME IInv, StopApply
  PROVE  Step
<1> DEFINE n == Latest
           kind == s.stop.kind
           current == "stop" \in seen
           z == StoppedBy(s, kind, current)
           c == Abandoned(codex)
           k == IF s'.worker.pc = "none" THEN 0 ELSE c.calls.worker
<1>0. /\ Shown(c) /\ c.threads = codex.threads /\ c.trees = codex.trees
      /\ c.turns = codex.turns /\ c.calls = codex.calls /\ LateFrom(s, codex, s', c)
      /\ DOMAIN c = DOMAIN codex
  <2>1. c = Abandoned(codex)
    OBVIOUS
  <2> HIDE DEF c
  <2> QED BY <2>1, GoodAbandoned
<1> HIDE DEF c
<1>1. n \in Nat /\ Typed(s, n) /\ Shown(codex) /\ k \in 0..n /\ DOMAIN c.calls = {"worker", "follow"}
      /\ DOMAIN c = {"threads", "trees", "turns", "calls", "late", "inbox"}
  BY <1>0, Facts DEF CallRec, Shown, CodexRec
<1>2. s.stop.pc = "apply" /\ s' = GivenUp(z) /\ Spent
      /\ codex' = [c EXCEPT !.calls.worker = k]
  BY <1>1, Facts, LeftStep DEF StopApply, Spent, c
<1>3. kind \in {"pause", "cancel", "requeue"} /\ current \in BOOLEAN
  BY <1>1, <1>2 DEF Typed, States, StopRec
<1>4. z = StoppedBy(s, kind, current)
  OBVIOUS
<1>5. k # 0 => k = c.calls.worker
  OBVIOUS
<1>6. s'.worker.pc = "turn" => k = codex.calls.worker
  BY <1>0
<1> HIDE DEF z, n, current, k
<1>7. Typed(z, n) /\ Still(s, z) /\ (Waits(s, z) \/ (kind = "pause" /\ z.queue = s.queue))
  BY <1>1, <1>3, <1>4, StoppedStill
<1>8. Sane(z, s', n) /\ Beside(z, s', {"stop", "override"})
  BY <1>1, <1>2, <1>7, GivenUpSane
<1>9. Sane(s, s', n)
  <2>1. CASE Waits(s, z)
    <3>1. Sane(s, z, n)
      BY <1>7, <2>1 DEF Sane, Calm
    <3> QED BY <1>8, <3>1, SaneThrough
  <2>2. CASE kind = "pause" /\ z.queue = s.queue
    <3>1. Pausing(s)
      BY <1>2, <2>2 DEF Pausing
    <3>2. s'.queue = s.queue
      BY <1>8, <2>2 DEF Beside, Fields
    <3>3. Waits(s, s')
      BY <3>1, <3>2 DEF Waits
    <3>4. Still(s, s')
      BY <1>7, <1>8 DEF Sane, Calm, Still, Keeps, SamePrompts
    <3> QED BY <1>8, <3>3, <3>4 DEF Sane, Calm
  <2> QED BY <1>7, <2>1, <2>2
<1>10. /\ Shown(codex') /\ SameTurns(codex, codex') /\ codex'.trees = codex.trees
       /\ codex'.threads = codex.threads /\ codex'.calls.follow = codex.calls.follow
       /\ LateFrom(s, codex, s', codex')
  <2>1. k \in 0..Len(c.turns)
    BY <1>0, <1>1 DEF n, Latest
  <2>2. /\ Shown(codex') /\ SameTurns(c, codex') /\ codex'.trees = c.trees
        /\ codex'.threads = c.threads /\ codex'.calls.follow = c.calls.follow
        /\ codex'.late = c.late
    BY <1>0, <1>2, <1>5, <2>1, CallReset
  <2> QED BY <1>0, <2>2 DEF SameTurns, LateFrom
<1>11. codex'.calls.worker = k
  BY <1>1, <1>2
<1> QED BY <1>2, <1>6, <1>9, <1>10, <1>11, SaneStep DEF n

LEMMA SyncReadStep ==
  ASSUME IInv, SyncRead
  PROVE  Step
<1> DEFINE l == [pc |-> "sync", latest |-> Latest, state |-> StateOf(Latest), op |-> 0]
<1>1. s' = [s EXCEPT !.loop = l] /\ UNCHANGED codex /\ Spent
  BY Facts, LeftStep DEF SyncRead, Spent
<1>2. l \in LoopRec(Latest)
  <2>1. Latest \in 0..Latest
    BY Facts
  <2> QED BY <2>1, StateTyped DEF LoopRec
<1> HIDE DEF l
<1>3. Sane(s, s', Latest)
  BY <1>1, <1>2, Facts, LoopSane
<1> QED BY <1>1, <1>3, SaneOnly

LEMMA SyncApplyStep ==
  ASSUME IInv, SyncApply
  PROVE  Step
<1> DEFINE n == Latest
           l == s.loop
           r == IF "loop" \in seen /\ ~s.starting /\ l.latest # 0
                  THEN Synced(s, l.latest, l.state) ELSE s
           pc == IF r.limits = s.limits THEN "reconcile" ELSE "limits"
<1>1. s' = [r EXCEPT !.loop.pc = pc] /\ UNCHANGED codex /\ Spent
  BY Facts, LeftStep DEF SyncApply, Spent
<1>2. n \in Nat /\ Typed(s, n) /\ l.latest \in 0..n
  BY Facts DEF States, LoopRec
<1>3. r = Synced(s, l.latest, l.state) \/ r = s
  OBVIOUS
<1>4. pc \in {"idle", "limits", "reconcile", "recover"}
  OBVIOUS
<1> HIDE DEF n, r, pc
<1>5. Sane(s, r, n)
  BY <1>2, <1>3, SyncedSane, CalmSame DEF Sane
<1>6. Sane(r, s', n)
  BY <1>1, <1>2, <1>4, <1>5, LoopTo DEF Sane
<1>7. Sane(s, s', n)
  BY <1>5, <1>6, SaneThrough
<1> QED BY <1>1, <1>7, SaneOnly DEF n

LEMMA RecoverStep ==
  ASSUME IInv, Recover
  PROVE  Step
<1> DEFINE n == Latest
           r == Recovered(s, s.loop)
<1>1. s' = [r EXCEPT !.loop = NoLoop] \/ s' = [r EXCEPT !.loop = [NoLoop EXCEPT !.pc = "limits"]]
  BY DEF Recover
<1>2. UNCHANGED codex /\ Spent
  BY Facts, LeftStep DEF Recover, Spent
<1>3. n \in Nat /\ Typed(s, n) /\ s.loop.latest \in 0..n
  BY Facts DEF States, LoopRec
<1>4. r = Recovered(s, s.loop)
  OBVIOUS
<1> HIDE DEF n, r
<1>5. Sane(s, r, n)
  BY <1>3, <1>4, RecoveredSane
<1>6. Sane(r, s', n)
  BY <1>1, <1>3, <1>5, LoopTo DEF Sane
<1>7. Sane(s, s', n)
  BY <1>5, <1>6, SaneThrough
<1> QED BY <1>2, <1>7, SaneOnly DEF n

\* A notification is taken.
LEMMA Taken ==
  ASSUME NEW c, Shown(c), c.inbox # <<>>, NEW d, d = [c EXCEPT !.inbox = Tail(@)]
  PROVE  /\ Shown(d) /\ SameTurns(c, d) /\ d.trees = c.trees /\ d.threads = c.threads
         /\ d.calls = c.calls /\ d.late = c.late /\ Head(c.inbox) \in InboxRec(Len(c.turns))
<1> DEFINE M == InboxRec(Len(c.turns))
           q == c.inbox
           t == Tail(q)
<1>1. /\ DOMAIN c = {"threads", "trees", "turns", "calls", "late", "inbox"}
      /\ q \in Seq(M) /\ q # <<>> /\ d = [c EXCEPT !.inbox = t]
  BY DEF Shown, CodexRec
<1>2. t \in Seq(M) /\ Head(q) \in M
  <2> HIDE DEF M, q
  <2> QED BY <1>1
<1> HIDE DEF t
<1>3. d.late = c.late /\ d.turns = c.turns /\ d.inbox = t /\ d.calls = c.calls /\ d.trees = c.trees /\ d.threads = c.threads
  BY <1>1
<1>4. Shown(d)
  BY <1>1, <1>2, <1>3 DEF Shown, CodexRec
<1> QED BY <1>2, <1>3, <1>4 DEF SameTurns

LEMMA MissedStep ==
  ASSUME IInv, Missed
  PROVE  Step
<1>1. Spent /\ s' = s /\ codex.inbox # <<>> /\ codex' = [codex EXCEPT !.inbox = Tail(@)]
  BY Facts, LeftStep DEF Missed, Spent
<1>2. Sane(s, s', Latest)
  BY <1>1, Facts, CalmSame DEF Sane
<1>3. /\ Shown(codex') /\ SameTurns(codex, codex') /\ codex'.trees = codex.trees
      /\ codex'.threads = codex.threads /\ codex'.calls = codex.calls /\ codex'.late = codex.late
  BY <1>1, Facts, Taken
<1> QED BY <1>1, <1>2, <1>3, LateSame, SaneStep

LEMMA NotifiedStep ==
  ASSUME IInv, Notified
  PROVE  Step
<1> DEFINE n == Latest
           m == Head(codex.inbox)
           e == [s EXCEPT !.ended = @ \cup {m.turn}]
<1>1. Spent /\ codex.inbox # <<>> /\ codex' = [codex EXCEPT !.inbox = Tail(@)]
  BY Facts, LeftStep DEF Notified, Spent
<1>2. s' = Adopted(s, m.turn, TRUE) \/ s' = Result(e, m.turn, StateOf(m.turn), TRUE, "notice")
  BY DEF Notified
<1>3. /\ Shown(codex') /\ SameTurns(codex, codex') /\ codex'.trees = codex.trees
      /\ codex'.threads = codex.threads /\ codex'.calls = codex.calls /\ codex'.late = codex.late
      /\ m \in InboxRec(Len(codex.turns))
  BY <1>1, Facts, Taken
<1>4. n \in Nat /\ Typed(s, n) /\ m.turn \in 0..n
  BY <1>3, Facts DEF InboxRec, Latest
<1> HIDE DEF n, m
<1>5. Sane(s, e, n)
  <2>1. DOMAIN s = Fields
    BY <1>4 DEF Typed, States, Fields
  <2>2. Beside(s, e, Side)
    BY <2>1 DEF Beside, Fields, Side
  <2>3. e \in States(n)
    BY <1>4 DEF Typed, States
  <2> QED BY <1>4, <2>2, <2>3, SideSane
<1> HIDE DEF e
<1>6. Sane(s, s', n)
  <2>1. CASE s' = Adopted(s, m.turn, TRUE)
    BY <1>4, <2>1, AdoptedSane
  <2>2. CASE s' = Result(e, m.turn, StateOf(m.turn), TRUE, "notice")
    <3>1. Sane(e, s', n)
      BY <1>4, <1>5, <2>2, ResultSane DEF Sane
    <3> QED BY <1>5, <3>1, SaneThrough
  <2> QED BY <1>2, <2>1, <2>2
<1> QED BY <1>1, <1>3, <1>6, LateSame, SaneStep DEF n

LEMMA CodexEndsStep ==
  ASSUME IInv, CodexEnds
  PROVE  Step
<1>1. PICK state \in TurnState : codex' = Marked(codex, Latest, state)
  BY DEF CodexEnds, TurnState, Marked
<1>2. Latest \in 1..Len(codex.turns)
  <2>1. Latest \in 0..Latest /\ StateOf(Latest) = "active"
    BY Facts DEF CodexEnds, Active
  <2> QED BY <2>1, ActiveTurn
<1>3. Spent /\ s' = s
  BY Facts, LeftStep DEF CodexEnds, Spent, Unspent
<1>4. /\ Shown(codex') /\ SameTurns(codex, codex') /\ codex'.trees = codex.trees
      /\ codex'.threads = codex.threads /\ codex'.calls = codex.calls /\ codex'.late = codex.late
  BY <1>1, <1>2, Facts, TurnMarked
<1>5. Sane(s, s', Latest)
  BY <1>3, Facts, CalmSame DEF Sane
<1> QED BY <1>3, <1>4, <1>5, LateSame, SaneStep

-----------------------------------------------------------------------------
(* On the way to the start.                                                 *)

\* A worktree or a thread is asked for, flagged or there.
LEMMA MadeSteady ==
  ASSUME NEW n \in Nat, NEW x, Typed(x, n), NEW y, y \in States(n),
         Beside(x, y, {"treeOp", "threadOp", "task"}),
         \/ y.task = x.task
         \/ y.task = [x.task EXCEPT !.tree = TRUE]
         \/ y.task = [x.task EXCEPT !.thread = TRUE]
  PROVE  Typed(y, n) /\ Steady(x, y)
<1>1. x.task \in TaskRec
  BY DEF Typed, States
<1>2. /\ y.task.uncertain = x.task.uncertain /\ y.task.run = x.task.run
      /\ y.task.status = x.task.status /\ (x.task.thread => y.task.thread)
      /\ y.task.thread \/ (y.task.thread = x.task.thread)
  BY <1>1 DEF TaskRec
<1>3. \A f \in Fields \ {"treeOp", "threadOp", "task"} : y[f] = x[f]
  BY DEF Beside
<1>4. /\ y.managed = x.managed /\ y.queue = x.queue /\ y.lease = x.lease /\ y.ops = x.ops
      /\ y.worker = x.worker /\ y.follow = x.follow /\ y.stop = x.stop
  BY <1>3 DEF Fields
<1>5. Typed(y, n)
  BY <1>2, <1>4 DEF Typed
<1>6. Steady(x, y)
  BY <1>2, <1>4 DEF Steady, Keeps, Waits, SamePrompts, Busy
<1> QED BY <1>5, <1>6

\* The worker goes on.
LEMMA GoSteady ==
  ASSUME NEW n \in Nat, NEW x, Typed(x, n), x.worker.pc \in Before, NEW pc \in Before,
         pc \in {"resume", "options"} => x.task.thread, NEW y, y = Go(x, pc)
  PROVE  Typed(y, n) /\ Steady(x, y) /\ Beside(x, y, {"worker"}) /\ y.worker.pc = pc
<1> DEFINE w == [x.worker EXCEPT !.pc = pc]
<1>1. DOMAIN x = Fields /\ x.worker \in WorkerRec(n) /\ x.worker.op <= Len(x.ops)
  BY DEF Typed, States, Fields
<1>2. w \in WorkerRec(n) /\ w.pc = pc /\ w.op = x.worker.op /\ w.prompt = x.worker.prompt
  BY <1>1 DEF WorkerRec
<1>3. y = [x EXCEPT !.worker = w]
  BY <1>1 DEF Go, Fields, WorkerRec
<1> HIDE DEF w
<1>4. Beside(x, y, {"worker"}) /\ y.worker = w
  BY <1>1, <1>3 DEF Beside, Fields
<1>5. y \in States(n)
  BY <1>2, <1>3 DEF Typed, States
<1>6. Typed(y, n)
  BY <1>1, <1>2, <1>4, <1>5 DEF Typed, Beside, Fields
<1>7. Steady(x, y)
  BY <1>2, <1>4 DEF Steady, Keeps, Waits, SamePrompts, Busy, Beside, Fields
<1> QED BY <1>2, <1>4, <1>6, <1>7

\* How TowardsThread leaves what is created.
Towards(x, y) ==
  /\ y.managed = x.managed /\ y.treeOp = x.treeOp /\ y.worker.pc # "tree"
  /\ x.managed =>
       /\ y.threadOp = "none" => x.threadOp = "none" /\ y.worker.pc # "thread"
       /\ y.worker.pc = "thread" => x.threadOp = "none"

LEMMA TowardsSteady ==
  ASSUME NEW n \in Nat, NEW x, Typed(x, n), x.worker.pc \in Before, NEW y, y = TowardsThread(x)
  PROVE  Typed(y, n) /\ Steady(x, y) /\ Towards(x, y)
<1>0. DOMAIN x = Fields /\ x \in States(n)
  BY DEF Typed, States, Fields
<1>1. CASE y = Ended(x)
  BY <1>1, EndedSane, CalmSteady DEF Sane, Calm, Still, Towards
<1>2. CASE x.task.thread /\ y = Go(x, "resume")
  <2>1. "resume" \in Before
    BY DEF Before
  <2>2. Typed(y, n) /\ Steady(x, y) /\ Beside(x, y, {"worker"}) /\ y.worker.pc = "resume"
    BY <1>2, <2>1, GoSteady
  <2> QED BY <2>2 DEF Towards, Beside, Fields
<1>3. CASE ~x.managed /\ y = Go(x, "thread")
  <2>1. "thread" \in Before
    BY DEF Before
  <2>2. Typed(y, n) /\ Steady(x, y) /\ Beside(x, y, {"worker"}) /\ y.worker.pc = "thread"
    BY <1>3, <2>1, GoSteady
  <2> QED BY <1>3, <2>2 DEF Towards, Beside, Fields
<1>4. CASE x.threadOp = "none" /\ y = Go([x EXCEPT !.threadOp = "asked"], "thread")
  <2> DEFINE z == [x EXCEPT !.threadOp = "asked"]
  <2>1. Beside(x, z, {"threadOp"}) /\ z.threadOp = "asked" /\ z \in States(n)
    BY <1>0 DEF Beside, Fields, States, Creation
  <2>2. y = Go(z, "thread") /\ "thread" \in Before
    BY <1>4 DEF Before
  <2> HIDE DEF z
  <2>3. Beside(x, z, {"treeOp", "threadOp", "task"}) /\ z.task = x.task /\ z.worker = x.worker
    BY <2>1 DEF Beside, Fields
  <2>4. Typed(z, n) /\ Steady(x, z)
    BY <2>1, <2>3, MadeSteady
  <2>5. Typed(y, n) /\ Steady(z, y) /\ Beside(z, y, {"worker"}) /\ y.worker.pc = "thread"
    BY <2>2, <2>3, <2>4, GoSteady
  <2>6. Steady(x, y)
    BY <2>4, <2>5, SteadyThrough
  <2>7. y.threadOp = "asked" /\ y.treeOp = x.treeOp /\ y.managed = x.managed
    BY <2>1, <2>5 DEF Beside, Fields
  <2> QED BY <1>4, <2>5, <2>6, <2>7 DEF Towards
<1>5. CASE y = Ended(FailedWith([x EXCEPT !.threadOp = "flagged"], FALSE))
  <2> DEFINE z == [x EXCEPT !.threadOp = "flagged"]
  <2>1. Beside(x, z, {"threadOp"}) /\ z.threadOp = "flagged" /\ z \in States(n)
    BY <1>0 DEF Beside, Fields, States, Creation
  <2>2. y = Ended(FailedWith(z, FALSE))
    BY <1>5
  <2> HIDE DEF z
  <2>3. Beside(x, z, {"treeOp", "threadOp", "task"}) /\ z.task = x.task
    BY <2>1 DEF Beside, Fields
  <2>4. Typed(z, n) /\ Steady(x, z)
    BY <2>1, <2>3, MadeSteady
  <2>5. Sane(z, y, n) /\ y.worker.pc = "none"
    BY <2>2, <2>4, EndedFailedSane
  <2>6. Steady(x, y)
    BY <2>4, <2>5, CalmSteady, SteadyThrough DEF Sane
  <2>7. y.threadOp = "flagged" /\ y.treeOp = x.treeOp /\ y.managed = x.managed
    BY <2>1, <2>5 DEF Sane, Calm, Still, Beside, Fields
  <2> QED BY <2>5, <2>6, <2>7 DEF Towards, Sane
<1> QED BY <1>1, <1>2, <1>3, <1>4, <1>5 DEF TowardsThread

LEMMA BeginStep ==
  ASSUME IInv, Begin
  PROVE  Step
<1> DEFINE n == Latest
           made == [s EXCEPT !.task.tree = TRUE]
           asked == [s EXCEPT !.treeOp = "asked"]
           flagged == [s EXCEPT !.treeOp = "flagged"]
<1>1. n \in Nat /\ Typed(s, n) /\ s \in States(n) /\ DOMAIN s = Fields /\ Shown(codex)
  BY Facts
<1>2. Spent /\ UNCHANGED codex /\ s.worker.pc = "begin" /\ s.worker.pc \in Before /\ "tree" \in Before
  BY Facts, LeftStep DEF Begin, Spent, At, Before
<1>3. Created(s, codex) /\ SameTurns(codex, codex') /\ codex'.late = codex.late
  BY <1>2 DEF IInv, Good, SameTurns
<1>4. ASSUME NEW x, Typed(x, n), Steady(s, x), x.worker = s.worker, x.treeOp = s.treeOp,
             x.threadOp = s.threadOp, s' = TowardsThread(x)
      PROVE  Step
  <2>1. Typed(s', n) /\ Steady(x, s') /\ Towards(x, s')
    BY <1>1, <1>2, <1>4, TowardsSteady
  <2>2. Steady(s, s')
    BY <1>4, <2>1, SteadyThrough
  <2>3. Created(s', codex')
    BY <1>2, <1>3, <1>4, <2>1 DEF Created, Towards, Steady
  <2> QED BY <1>1, <1>2, <1>3, <2>1, <2>2, <2>3, LateSame, SteadyStep
<1>5. CASE s' = Ended(s)
  BY <1>1, <1>2, <1>5, EndedSane, SaneOnly
<1>6. CASE s' = TowardsThread(s)
  BY <1>1, <1>4, <1>6, SteadySame
<1>7. CASE s' = TowardsThread(made)
  <2>1. Beside(s, made, {"task"}) /\ made.task = [s.task EXCEPT !.tree = TRUE] /\ made \in States(n)
    BY <1>1 DEF Beside, Fields, States, TaskRec
  <2> HIDE DEF made
  <2>2. /\ Beside(s, made, {"treeOp", "threadOp", "task"}) /\ made.worker = s.worker
        /\ made.treeOp = s.treeOp /\ made.threadOp = s.threadOp
    BY <2>1 DEF Beside, Fields
  <2>3. Typed(made, n) /\ Steady(s, made)
    BY <1>1, <2>1, <2>2, MadeSteady
  <2> QED BY <1>4, <1>7, <2>2, <2>3
<1>8. CASE ~s.managed /\ s' = Go(s, "tree")
  <2>1. Typed(s', n) /\ Steady(s, s') /\ s'.worker.pc = "tree"
    BY <1>1, <1>2, <1>8, GoSteady
  <2>2. Created(s', codex')
    BY <1>8, <2>1 DEF Created, Steady
  <2> QED BY <1>1, <1>2, <1>3, <2>1, <2>2, LateSame, SteadyStep
<1>9. CASE s.treeOp = "none" /\ s' = Go(asked, "tree")
  <2>1. Beside(s, asked, {"treeOp"}) /\ asked.treeOp = "asked" /\ asked \in States(n)
    BY <1>1 DEF Beside, Fields, States, Creation
  <2> HIDE DEF asked
  <2>2. Beside(s, asked, {"treeOp", "threadOp", "task"}) /\ asked.worker = s.worker /\ asked.task = s.task
    BY <2>1 DEF Beside, Fields
  <2>3. Typed(asked, n) /\ Steady(s, asked)
    BY <1>1, <2>1, <2>2, MadeSteady
  <2>4. Typed(s', n) /\ Steady(asked, s') /\ Beside(asked, s', {"worker"}) /\ s'.worker.pc = "tree"
    BY <1>1, <1>2, <1>9, <2>2, <2>3, GoSteady
  <2>5. Steady(s, s')
    BY <2>3, <2>4, SteadyThrough
  <2>6. s'.treeOp = "asked" /\ s'.threadOp = s.threadOp /\ s'.managed = s.managed
    BY <2>1, <2>4 DEF Beside, Fields
  <2>7. Created(s', codex')
    BY <1>2, <1>3, <1>9, <2>4, <2>6 DEF Created
  <2> QED BY <1>1, <1>2, <1>3, <2>4, <2>5, <2>7, LateSame, SteadyStep
<1>10. CASE s' = Ended(FailedWith(flagged, FALSE))
  <2>1. Beside(s, flagged, {"treeOp"}) /\ flagged.treeOp = "flagged" /\ flagged \in States(n)
    BY <1>1 DEF Beside, Fields, States, Creation
  <2> HIDE DEF flagged
  <2>2. Beside(s, flagged, {"treeOp", "threadOp", "task"}) /\ flagged.task = s.task
    BY <2>1 DEF Beside, Fields
  <2>3. Typed(flagged, n) /\ Steady(s, flagged)
    BY <1>1, <2>1, <2>2, MadeSteady
  <2>4. Sane(flagged, s', n) /\ s'.worker.pc = "none"
    BY <1>1, <1>10, <2>3, EndedFailedSane
  <2>5. Typed(s', n) /\ Steady(s, s')
    BY <2>3, <2>4, CalmSteady, SteadyThrough DEF Sane
  <2>6. s'.treeOp = "flagged" /\ s'.threadOp = s.threadOp /\ s'.managed = s.managed
    BY <2>1, <2>4 DEF Sane, Calm, Still, Beside, Fields
  <2>7. Created(s', codex')
    BY <1>2, <1>3, <2>4, <2>6 DEF Created
  <2> QED BY <1>1, <1>2, <1>3, <2>4, <2>5, <2>7, LateSame, SteadyStep
<1> QED BY <1>5, <1>6, <1>7, <1>8, <1>9, <1>10 DEF Begin

\* Codex has created something, or nothing.
LEMMA MadeShown ==
  ASSUME NEW c, Shown(c), NEW d, NEW k \in Nat,
         d = [c EXCEPT !.trees = @ + k] \/ d = [c EXCEPT !.threads = @ + k]
  PROVE  /\ Shown(d) /\ SameTurns(c, d) /\ d.calls = c.calls /\ d.late = c.late /\ c.trees \in Nat /\ c.threads \in Nat
         /\ d = [c EXCEPT !.trees = @ + k] => d.trees = c.trees + k /\ d.threads = c.threads
         /\ d = [c EXCEPT !.threads = @ + k] => d.threads = c.threads + k /\ d.trees = c.trees
<1>1. /\ DOMAIN c = {"threads", "trees", "turns", "calls", "late", "inbox"}
      /\ c.trees \in Nat /\ c.threads \in Nat
  BY DEF Shown, CodexRec
<1>2. d.turns = c.turns /\ d.calls = c.calls /\ d.late = c.late
  BY <1>1
<1>3. d \in CodexRec(Len(c.turns))
  BY <1>1 DEF Shown, CodexRec
<1>4. Shown(d) /\ SameTurns(c, d)
  BY <1>2, <1>3 DEF Shown, SameTurns
<1>5. /\ d = [c EXCEPT !.trees = @ + k] => d.trees = c.trees + k /\ d.threads = c.threads
      /\ d = [c EXCEPT !.threads = @ + k] => d.threads = c.threads + k /\ d.trees = c.trees
  BY <1>1
<1> QED BY <1>1, <1>2, <1>4, <1>5

LEMMA TreeCreatedStep ==
  ASSUME IInv, TreeCreated
  PROVE  Step
<1> DEFINE n == Latest
           v == IF s.managed THEN "ready" ELSE s.treeOp
           x == [s EXCEPT !.task.tree = TRUE, !.treeOp = v]
<1>1. n \in Nat /\ Typed(s, n) /\ s \in States(n) /\ DOMAIN s = Fields /\ Shown(codex)
      /\ v \in Creation
  BY Facts DEF States, Creation
<1>2. Spent /\ codex' = [codex EXCEPT !.trees = @ + 1] /\ s.worker.pc = "tree" /\ s.worker.pc \in Before
  BY Facts, LeftStep DEF TreeCreated, Spent, At, Before
<1>3. s' = TowardsThread(x)
  BY <1>1 DEF TreeCreated, Fields
<1>4. Beside(s, x, {"treeOp", "task"}) /\ x.task = [s.task EXCEPT !.tree = TRUE] /\ x.treeOp = v
      /\ x \in States(n)
  BY <1>1 DEF Beside, Fields, States, TaskRec
<1> HIDE DEF x, n
<1>5. /\ Beside(s, x, {"treeOp", "threadOp", "task"}) /\ x.worker = s.worker
      /\ x.threadOp = s.threadOp /\ x.managed = s.managed
  BY <1>4 DEF Beside, Fields
<1>6. Typed(x, n) /\ Steady(s, x)
  BY <1>1, <1>4, <1>5, MadeSteady
<1>7. Typed(s', n) /\ Steady(x, s') /\ Towards(x, s')
  BY <1>1, <1>2, <1>3, <1>5, <1>6, TowardsSteady
<1>8. Steady(s, s')
  BY <1>6, <1>7, SteadyThrough
<1>9. /\ Shown(codex') /\ SameTurns(codex, codex') /\ codex'.calls = codex.calls
      /\ codex'.late = codex.late
      /\ codex'.trees = codex.trees + 1 /\ codex'.threads = codex.threads
  BY <1>1, <1>2, MadeShown
<1>10. Created(s, codex)
  BY DEF IInv, Good
<1>11. Created(s', codex')
  BY <1>2, <1>4, <1>5, <1>7, <1>9, <1>10 DEF Created, Towards
<1> QED BY <1>2, <1>7, <1>8, <1>9, <1>11, LateSame, SteadyStep DEF n

LEMMA TreeLostStep ==
  ASSUME IInv, TreeLost
  PROVE  Step
<1> DEFINE n == Latest
           v == IF s.managed THEN "flagged" ELSE s.treeOp
           x == [s EXCEPT !.treeOp = v]
<1>1. n \in Nat /\ Typed(s, n) /\ s \in States(n) /\ DOMAIN s = Fields /\ Shown(codex)
      /\ v \in Creation
  BY Facts DEF States, Creation
<1>2. PICK broken \in BOOLEAN, made \in {0, 1} :
        GivesUp(broken) /\ s' = Ended(FailedWith(x, broken)) /\ codex' = [codex EXCEPT !.trees = @ + made]
  BY <1>1 DEF TreeLost, Fields
<1>3. Spent /\ s.worker.pc = "tree" /\ s' = Ended(FailedWith(x, broken))
  BY <1>2, Facts, LeftStep DEF TreeLost, GivesUp, Spent, At
<1>4. Beside(s, x, {"treeOp"}) /\ x.treeOp = v /\ x \in States(n)
  BY <1>1 DEF Beside, Fields, States
<1> HIDE DEF x, n
<1>5. Beside(s, x, {"treeOp", "threadOp", "task"}) /\ x.task = s.task
  BY <1>4 DEF Beside, Fields
<1>6. Typed(x, n) /\ Steady(s, x)
  BY <1>1, <1>4, <1>5, MadeSteady
<1>7. Sane(x, s', n) /\ s'.worker.pc = "none"
  BY <1>1, <1>3, <1>6, EndedFailedSane
<1>8. Typed(s', n) /\ Steady(s, s')
  BY <1>6, <1>7, CalmSteady, SteadyThrough DEF Sane
<1>9. /\ Shown(codex') /\ SameTurns(codex, codex') /\ codex'.calls = codex.calls
      /\ codex'.late = codex.late
      /\ codex'.trees = codex.trees + made /\ codex'.threads = codex.threads /\ codex.trees \in Nat
  <2>1. made \in Nat
    BY <1>2, SMT
  <2>2. codex' = [codex EXCEPT !.trees = @ + made]
    BY <1>2
  <2>3. ASSUME NEW d, d = [codex EXCEPT !.trees = @ + made]
        PROVE  /\ Shown(d) /\ SameTurns(codex, d) /\ d.calls = codex.calls
               /\ d.late = codex.late /\ codex.trees \in Nat
               /\ d.trees = codex.trees + made /\ d.threads = codex.threads
    <3>1. Shown(codex)
      BY <1>1
    <3>2. \/ d = [codex EXCEPT !.trees = @ + made]
          \/ d = [codex EXCEPT !.threads = @ + made]
      BY <2>3
    <3>3. /\ Shown(d) /\ SameTurns(codex, d) /\ d.calls = codex.calls
          /\ d.late = codex.late /\ codex.trees \in Nat
          /\ d = [codex EXCEPT !.trees = @ + made]
               => d.trees = codex.trees + made /\ d.threads = codex.threads
      BY ONLY <3>1, <3>2, <2>1, MadeShown
    <3> QED BY ONLY <2>3, <3>3
  <2> QED BY <2>2, <2>3
<1>10. Created(s, codex)
  BY DEF IInv, Good
<1>11. s'.treeOp = v /\ s'.threadOp = s.threadOp /\ s'.managed = s.managed
  BY <1>4, <1>7 DEF Sane, Calm, Still, Beside, Fields
<1>12. Created(s', codex')
  <2> SUFFICES ASSUME s'.managed PROVE Created(s', codex')
    BY DEF Created
  <2>1. s.managed /\ v = "flagged"
    BY <1>11
  <2>2. codex.trees = 0 /\ codex.threads <= 1 /\ (s.threadOp = "none" => codex.threads = 0)
    BY <1>3, <1>10, <2>1 DEF Created
  <2>3. codex'.trees <= 1 /\ codex'.threads = codex.threads
    BY <1>9, <2>2
  <2> QED BY <1>7, <1>11, <2>1, <2>2, <2>3 DEF Created
<1> QED BY <1>3, <1>8, <1>9, <1>12, LateSame, SteadyStep DEF n

LEMMA RunningSane ==
  ASSUME NEW n \in Nat, NEW x, Typed(x, n), NEW y, y = [x EXCEPT !.task.run = "running"]
  PROVE  Sane(x, y, n) /\ y.task.thread = x.task.thread /\ Beside(x, y, {"task"})
<1> DEFINE k == [x.task EXCEPT !.run = "running"]
<1>1. DOMAIN x = Fields /\ x.task \in TaskRec /\ x.task.uncertain <= Len(x.ops)
  BY DEF Typed, States, Fields
<1>2. k \in TaskRec /\ k.run = "running" /\ k.thread = x.task.thread /\ k.uncertain <= Len(x.ops)
  BY <1>1 DEF TaskRec
<1>3. y = [x EXCEPT !.task = k]
  BY <1>1 DEF Fields
<1> HIDE DEF k
<1>4. Sane(x, y, n) /\ y.task = k /\ Beside(x, y, {"task"})
  BY <1>2, <1>3, RowSane
<1> QED BY <1>2, <1>4

\* The worker has a thread.
LEMMA ReadiedSteady ==
  ASSUME NEW n \in Nat, NEW x, Typed(x, n), x.worker.pc \in Before, x.task.thread,
         NEW y, y = Readied(x)
  PROVE  /\ Typed(y, n) /\ Steady(x, y) /\ y.worker.pc \notin {"tree", "thread"}
         /\ y.treeOp = x.treeOp /\ y.threadOp = x.threadOp /\ y.managed = x.managed
<1>1. CASE y = Ended(x)
  BY <1>1, EndedSane, CalmSteady DEF Sane, Calm, Still
<1>2. CASE y = Go([x EXCEPT !.task.run = "running"], "options")
  <2> DEFINE z == [x EXCEPT !.task.run = "running"]
  <2>0. z = [x EXCEPT !.task.run = "running"]
    OBVIOUS
  <2>1. y = Go(z, "options") /\ "options" \in Before
    BY <1>2 DEF Before
  <2> HIDE DEF z
  <2>2. Sane(x, z, n) /\ z.task.thread = x.task.thread /\ Beside(x, z, {"task"})
    BY <2>0, RunningSane
  <2>3. z.worker = x.worker /\ Typed(z, n)
    BY <2>2 DEF Beside, Fields, Sane
  <2>4. z.task.thread
    BY <2>2
  <2>5. Typed(y, n) /\ Steady(z, y) /\ Beside(z, y, {"worker"}) /\ y.worker.pc = "options"
    <3>1. "options" \in {"resume", "options"} => z.task.thread
      BY <2>4
    <3>2. z.worker.pc \in Before /\ Typed(z, n)
      BY <2>3
    <3> QED BY <2>1, <3>1, <3>2, GoSteady
  <2>6. Steady(x, y)
    BY <2>2, <2>5, CalmSteady, SteadyThrough DEF Sane
  <2> QED BY <2>2, <2>5, <2>6 DEF Beside, Fields
<1> QED BY <1>1, <1>2 DEF Readied

LEMMA ThreadCreatedStep ==
  ASSUME IInv, ThreadCreated
  PROVE  Step
<1> DEFINE n == Latest
           v == IF s.managed THEN "ready" ELSE s.threadOp
           x == [s EXCEPT !.task.thread = TRUE, !.threadOp = v]
<1>1. n \in Nat /\ Typed(s, n) /\ s \in States(n) /\ DOMAIN s = Fields /\ Shown(codex)
      /\ v \in Creation
  BY Facts DEF States, Creation
<1>2. Spent /\ codex' = [codex EXCEPT !.threads = @ + 1] /\ s.worker.pc = "thread"
      /\ s.worker.pc \in Before
  BY Facts, LeftStep DEF ThreadCreated, Spent, At, Before
<1>3. s' = Readied(x)
  BY <1>1 DEF ThreadCreated, Fields
<1>4. Beside(s, x, {"threadOp", "task"}) /\ x.task = [s.task EXCEPT !.thread = TRUE] /\ x.threadOp = v
      /\ x \in States(n)
  BY <1>1 DEF Beside, Fields, States, TaskRec
<1>4a. x.task.thread
  BY <1>1 DEF Fields, States, TaskRec
<1> HIDE DEF x, n
<1>5. /\ Beside(s, x, {"treeOp", "threadOp", "task"}) /\ x.worker = s.worker
      /\ x.treeOp = s.treeOp /\ x.managed = s.managed
  BY <1>4 DEF Beside, Fields
<1>6. Typed(x, n) /\ Steady(s, x)
  BY <1>1, <1>4, <1>5, MadeSteady
<1>7. /\ Typed(s', n) /\ Steady(x, s') /\ s'.worker.pc \notin {"tree", "thread"}
      /\ s'.treeOp = x.treeOp /\ s'.threadOp = x.threadOp /\ s'.managed = x.managed
  BY <1>1, <1>2, <1>3, <1>4a, <1>5, <1>6, ReadiedSteady
<1>8. Steady(s, s')
  BY <1>6, <1>7, SteadyThrough
<1>9. /\ Shown(codex') /\ SameTurns(codex, codex') /\ codex'.calls = codex.calls
      /\ codex'.late = codex.late
      /\ codex'.threads = codex.threads + 1 /\ codex'.trees = codex.trees
  BY <1>1, <1>2, MadeShown
<1>10. Created(s, codex)
  BY DEF IInv, Good
<1>11. Created(s', codex')
  BY <1>2, <1>4, <1>5, <1>7, <1>9, <1>10 DEF Created
<1> QED BY <1>2, <1>7, <1>8, <1>9, <1>11, LateSame, SteadyStep DEF n

LEMMA ThreadLostStep ==
  ASSUME IInv, ThreadLost
  PROVE  Step
<1> DEFINE n == Latest
           v == IF s.managed THEN "flagged" ELSE s.threadOp
           x == [s EXCEPT !.threadOp = v]
<1>1. n \in Nat /\ Typed(s, n) /\ s \in States(n) /\ DOMAIN s = Fields /\ Shown(codex)
      /\ v \in Creation
  BY Facts DEF States, Creation
<1>2. PICK broken \in BOOLEAN, made \in {0, 1} :
        GivesUp(broken) /\ s' = Ended(FailedWith(x, broken)) /\ codex' = [codex EXCEPT !.threads = @ + made]
  BY <1>1 DEF ThreadLost, Fields
<1>3. Spent /\ s.worker.pc = "thread" /\ s' = Ended(FailedWith(x, broken))
  BY <1>2, Facts, LeftStep DEF ThreadLost, GivesUp, Spent, At
<1>4. Beside(s, x, {"threadOp"}) /\ x.threadOp = v /\ x \in States(n)
  BY <1>1 DEF Beside, Fields, States
<1> HIDE DEF x, n
<1>5. Beside(s, x, {"treeOp", "threadOp", "task"}) /\ x.task = s.task
  BY <1>4 DEF Beside, Fields
<1>6. Typed(x, n) /\ Steady(s, x)
  BY <1>1, <1>4, <1>5, MadeSteady
<1>7. Sane(x, s', n) /\ s'.worker.pc = "none"
  BY <1>1, <1>3, <1>6, EndedFailedSane
<1>8. Typed(s', n) /\ Steady(s, s')
  BY <1>6, <1>7, CalmSteady, SteadyThrough DEF Sane
<1>9. /\ Shown(codex') /\ SameTurns(codex, codex') /\ codex'.calls = codex.calls
      /\ codex'.late = codex.late
      /\ codex'.threads = codex.threads + made /\ codex'.trees = codex.trees /\ codex.threads \in Nat
  <2>1. made \in Nat
    BY <1>2, SMT
  <2>2. codex' = [codex EXCEPT !.threads = @ + made]
    BY <1>2
  <2>3. ASSUME NEW d, d = [codex EXCEPT !.threads = @ + made]
        PROVE  /\ Shown(d) /\ SameTurns(codex, d) /\ d.calls = codex.calls
               /\ d.late = codex.late /\ codex.threads \in Nat
               /\ d.threads = codex.threads + made /\ d.trees = codex.trees
    <3>1. Shown(codex)
      BY <1>1
    <3>2. \/ d = [codex EXCEPT !.trees = @ + made]
          \/ d = [codex EXCEPT !.threads = @ + made]
      BY <2>3
    <3>3. /\ Shown(d) /\ SameTurns(codex, d) /\ d.calls = codex.calls
          /\ d.late = codex.late /\ codex.threads \in Nat
          /\ d = [codex EXCEPT !.threads = @ + made]
               => d.threads = codex.threads + made /\ d.trees = codex.trees
      BY ONLY <3>1, <3>2, <2>1, MadeShown
    <3> QED BY ONLY <2>3, <3>3
  <2> QED BY <2>2, <2>3
<1>10. Created(s, codex)
  BY DEF IInv, Good
<1>11. s'.threadOp = v /\ s'.treeOp = s.treeOp /\ s'.managed = s.managed
  BY <1>4, <1>7 DEF Sane, Calm, Still, Beside, Fields
<1>12. Created(s', codex')
  <2> SUFFICES ASSUME s'.managed PROVE Created(s', codex')
    BY DEF Created
  <2>1. s.managed /\ v = "flagged"
    BY <1>11
  <2>2. codex.threads = 0 /\ codex.trees <= 1 /\ (s.treeOp = "none" => codex.trees = 0)
    BY <1>3, <1>10, <2>1 DEF Created
  <2>3. codex'.threads <= 1 /\ codex'.trees = codex.trees
    BY <1>9, <2>2
  <2> QED BY <1>7, <1>11, <2>1, <2>2, <2>3 DEF Created
<1> QED BY <1>3, <1>8, <1>9, <1>12, LateSame, SteadyStep DEF n

LEMMA ResumedStep ==
  ASSUME IInv, Resumed
  PROVE  Step
<1>1. Spent /\ UNCHANGED codex /\ s.worker.pc = "resume" /\ s.worker.pc \in Before /\ s' = Readied(s)
  BY Facts, LeftStep DEF Resumed, Spent, At, Before
<1>2. s.task.thread
  BY <1>1, Facts DEF Ordered, Threadless
<1>3. /\ Typed(s', Latest) /\ Steady(s, s') /\ s'.worker.pc \notin {"tree", "thread"}
      /\ s'.treeOp = s.treeOp /\ s'.threadOp = s.threadOp /\ s'.managed = s.managed
  BY <1>1, <1>2, Facts, ReadiedSteady
<1>4. Created(s, codex) /\ Shown(codex') /\ SameTurns(codex, codex') /\ codex'.late = codex.late
  BY <1>1, Facts DEF IInv, Good, SameTurns
<1>5. Created(s', codex')
  BY <1>1, <1>3, <1>4 DEF Created
<1> QED BY <1>1, <1>3, <1>4, <1>5, LateSame, SteadyStep

LEMMA AttachStep ==
  ASSUME IInv, AttachThread \/ AttachTree
  PROVE  Step
<1> DEFINE n == Latest
<1>1. n \in Nat /\ Typed(s, n) /\ s \in States(n) /\ DOMAIN s = Fields /\ Shown(codex)
  BY Facts
<1>2. Spent /\ UNCHANGED codex
  BY Facts, LeftStep DEF AttachThread, AttachTree, Spent
<1>3. /\ Beside(s, s', {"treeOp", "threadOp", "task"}) /\ s' \in States(n)
      /\ s'.task = s.task \/ s'.task = [s.task EXCEPT !.thread = TRUE]
      /\ s'.treeOp = s.treeOp \/ (s'.treeOp = "ready" /\ s.treeOp = "flagged")
      /\ s'.threadOp = s.threadOp \/ (s'.threadOp = "ready" /\ s.threadOp = "flagged")
  <2>1. CASE AttachThread
    <3>1. s' = [s EXCEPT !.threadOp = "ready", !.task.thread = TRUE] /\ s.threadOp = "flagged"
      BY <2>1 DEF AttachThread
    <3> QED BY <1>1, <3>1 DEF Beside, Fields, States, TaskRec, Creation
  <2>2. CASE AttachTree
    <3>1. s' = [s EXCEPT !.treeOp = "ready"] /\ s.treeOp = "flagged"
      BY <2>2 DEF AttachTree
    <3> QED BY <1>1, <3>1 DEF Beside, Fields, States, Creation
  <2> QED BY <2>1, <2>2
<1>4. Typed(s', n) /\ Steady(s, s')
  BY <1>1, <1>3, MadeSteady
<1>5. s'.worker = s.worker /\ s'.managed = s.managed
  BY <1>3 DEF Beside, Fields
<1>6. Created(s, codex) /\ Shown(codex') /\ SameTurns(codex, codex') /\ codex'.late = codex.late
  BY <1>1, <1>2 DEF IInv, Good, SameTurns
<1>7. Created(s', codex')
  BY <1>2, <1>3, <1>5, <1>6 DEF Created
<1> QED BY <1>2, <1>4, <1>6, <1>7, LateSame, SteadyStep

-----------------------------------------------------------------------------
(* A prompt is recorded.                                                    *)

LEMMA JournalGrows ==
  ASSUME NEW q \in Seq(OpRec), NEW e \in OpRec, NEW x, x.ops = q, NEW y, y.ops = Append(q, e)
  PROVE  /\ Append(q, e) \in Seq(OpRec) /\ Len(Append(q, e)) = Len(q) + 1
         /\ InJournal(y) = InJournal(x) \cup {e.prompt}
<1> DEFINE S == OpRec
           r == Append(q, e)
<1>1. InJournal(x) = {q[i].prompt : i \in DOMAIN q} /\ InJournal(y) = {r[i].prompt : i \in DOMAIN r}
  BY DEF InJournal
<1> HIDE DEF S
<1>2. q \in Seq(S) /\ e \in S
  BY DEF S
<1>3. r \in Seq(S) /\ Len(r) = Len(q) + 1 /\ DOMAIN q = 1..Len(q) /\ DOMAIN r = 1..(Len(q) + 1)
      /\ Len(q) \in Nat
  BY <1>2
<1>4. (\A i \in 1..Len(q) : r[i] = q[i]) /\ r[Len(q) + 1] = e
  BY <1>2
<1> HIDE DEF r
<1>5. 1..(Len(q) + 1) = 1..Len(q) \cup {Len(q) + 1}
  BY <1>3
<1>6. {r[i].prompt : i \in DOMAIN r} = {q[i].prompt : i \in DOMAIN q} \cup {e.prompt}
  BY <1>3, <1>4, <1>5
<1> QED BY <1>1, <1>3, <1>6 DEF S, r

LEMMA RunTurn ==
  ASSUME NEW n \in Nat, NEW x, Typed(x, n)
  PROVE  LastRun(x).turn \in Nat
<1> DEFINE S == RunRec
           q == x.runs
<1>1. q \in Seq(S)
  BY DEF Typed, States
<1>2. q # <<>> => Last(q) \in S
  <2> HIDE DEF S, q
  <2> QED BY <1>1, LastIn
<1> QED BY <1>2 DEF LastRun, RunRec

LEMMA SubmitStep ==
  ASSUME IInv, Spent, UNCHANGED codex, s.task.thread,
         NEW h \in {"worker", "follow"}, s[h].pc = "options", s' = SubmitBy(h)
  PROVE  Step
<1> DEFINE n == Latest
           prompt == s[h].prompt
           e == [prompt |-> prompt, state |-> "uncertain", turn |-> 0, prev |-> LastRun(s).turn]
           q == s.ops
           o == Append(q, e)
           k == [s[h] EXCEPT !.pc = "turn", !.op = Len(q) + 1]
           p == left.prompts
           r == left'.prompts
<1>1. n \in Nat /\ Typed(s, n) /\ s \in States(n) /\ DOMAIN s = Fields /\ q \in Seq(OpRec)
  BY Facts DEF States
<1>2. /\ Good(s, codex, p) /\ Ordered(s, p) /\ Underway(s, codex) /\ Created(s, codex)
      /\ r \in Nat /\ p \in Nat /\ r <= p /\ Len(q) \in Nat
  <2>1. Len(q) \in Nat
    BY <1>1
  <2> QED BY <2>1 DEF IInv, Good, Spent
<1>3. s' = [s EXCEPT !.ops = o, ![h] = k]
  BY <1>1 DEF SubmitBy, Journalled, Fields
<1>4. e \in OpRec /\ e.prompt = prompt
  <2>1. prompt \in Nat
    BY <1>1 DEF States, WorkerRec, FollowRec
  <2> QED BY <1>1, <2>1, RunTurn DEF OpRec
<1>5. /\ k.pc = "turn" /\ k.prompt = prompt /\ k.op = Len(q) + 1
      /\ h = "worker" => k \in WorkerRec(n)
      /\ h = "follow" => k \in FollowRec /\ k.row = s.follow.row
  <2>1. s.worker \in WorkerRec(n) /\ s.follow \in FollowRec /\ Len(q) + 1 \in Nat
    BY <1>1, <1>2 DEF States
  <2> HIDE DEF q, n
  <2>2. CASE h = "worker"
    BY <2>1, <2>2 DEF WorkerRec
  <2>3. CASE h = "follow"
    BY <2>1, <2>3 DEF FollowRec
  <2> QED BY <2>2, <2>3
<1>6. q = s.ops /\ o = Append(q, e) /\ s[h].prompt = prompt
  OBVIOUS
<1> HIDE DEF prompt, e, q, o, k, p, r, n
<1>7. Beside(s, s', {"ops", h}) /\ s'.ops = o /\ s'[h] = k
  BY <1>1, <1>3 DEF Beside, Fields
<1>8. /\ o \in Seq(OpRec) /\ Len(o) = Len(q) + 1
      /\ InJournal(s') = InJournal(s) \cup {prompt}
  BY <1>1, <1>4, <1>6, <1>7, JournalGrows
<1>9. s' \in States(n)
  BY <1>1, <1>3, <1>5, <1>8 DEF States
<1>10. /\ s'.task = s.task /\ s'.queue = s.queue /\ s'.lease = s.lease /\ s'.stop = s.stop
       /\ s'.managed = s.managed /\ s'.treeOp = s.treeOp /\ s'.threadOp = s.threadOp
       /\ h = "worker" => s'.follow = s.follow /\ s'.worker = k
       /\ h = "follow" => s'.worker = s.worker /\ s'.follow = k
  BY <1>7 DEF Beside, Fields
<1>11. Typed(s', n)
  <2>1. /\ s.task.uncertain <= Len(q) /\ s.worker.op <= Len(q) /\ s.follow.op <= Len(q)
        /\ s.task.uncertain \in Nat /\ s.worker.op \in Nat /\ s.follow.op \in Nat
        /\ s.follow.pc # "none" => s.follow.row \in TaskRec
        /\ s.stop.pc # "none" => s.stop.kind # "none"
    BY <1>1, <1>6 DEF Typed, States, TaskRec, WorkerRec, FollowRec
  <2>2. s'.task.uncertain <= Len(s'.ops)
    BY <1>2, <1>7, <1>8, <1>10, <2>1
  <2>3. s'.worker.op <= Len(s'.ops) /\ s'.follow.op <= Len(s'.ops)
    BY <1>2, <1>5, <1>7, <1>8, <1>10, <2>1
  <2>4. s'.follow.pc # "none" => s'.follow.row \in TaskRec
    <3>1. h = "follow" => s.follow.pc # "none"
      OBVIOUS
    <3> QED BY <1>5, <1>10, <2>1, <3>1
  <2> QED BY <1>9, <1>10, <2>1, <2>2, <2>3, <2>4 DEF Typed
<1>12. "options" \in Before /\ "turn" \notin Before
  BY DEF Before
<1>13. prompt > p /\ prompt \notin InJournal(s) /\ prompt \in Nat
  <2>1. prompt \in Nat
    BY <1>4 DEF OpRec
  <2> QED BY <1>2, <1>6, <1>12, <2>1 DEF Ordered, Numbered, First
<1>14. /\ s'.worker.pc \in Before => /\ s.worker.pc \in Before /\ s'.worker.prompt = s.worker.prompt
                                     /\ s'.worker.prompt # prompt
       /\ s'.follow.pc = "options" => /\ s.follow.pc = "options" /\ s'.follow.prompt = s.follow.prompt
                                      /\ s'.follow.prompt # prompt
  <2>1. CASE h = "worker"
    BY <1>2, <1>5, <1>6, <1>10, <1>12, <2>1 DEF Ordered, First
  <2>2. CASE h = "follow"
    BY <1>2, <1>5, <1>6, <1>10, <1>12, <2>2 DEF Ordered, First
  <2> QED BY <2>1, <2>2
<1>15. Numbered(s', r)
  <2>1. /\ s.worker.prompt \in Nat /\ s.follow.prompt \in Nat /\ s.queue.prompt \in Nat
        /\ \A i \in InJournal(s) : i \in Nat
    <3> DEFINE S == OpRec
    <3>1. q \in Seq(S) /\ InJournal(s) = {q[i].prompt : i \in DOMAIN q}
      BY <1>1, <1>6 DEF InJournal
    <3>2. \A i \in DOMAIN q : q[i] \in S
      <4> HIDE DEF S
      <4> QED BY <3>1
    <3>3. \A i \in InJournal(s) : i \in Nat
      BY <3>1, <3>2 DEF OpRec
    <3> QED BY <1>1, <3>3 DEF States, WorkerRec, FollowRec, QueueRec
  <2> QED BY <1>2, <1>8, <1>10, <1>13, <1>14, <2>1 DEF Ordered, Numbered
<1>16. First(s')
  <2>1. /\ s'.worker.pc \in Before => s'.worker.prompt \notin InJournal(s')
        /\ s'.follow.pc = "options" => s'.follow.prompt \notin InJournal(s')
    BY <1>2, <1>8, <1>14 DEF Ordered, First
  <2>2. s'.worker.pc \in Before \cup {"turn"} /\ s'.follow.pc # "none"
          => s'.worker.prompt # s'.follow.prompt
    <3>1. CASE h = "worker"
      BY <1>2, <1>5, <1>6, <1>10, <1>12, <3>1 DEF Ordered, First
    <3>2. CASE h = "follow"
      BY <1>2, <1>5, <1>6, <1>10, <1>12, <3>2 DEF Ordered, First
    <3> QED BY <3>1, <3>2
  <2> QED BY <2>1, <2>2 DEF First
<1>17. Ready(s')
  <2>1. Fresh(s) => Fresh(s')
    <3>1. Fresh(s) => prompt # s.queue.prompt
      <4>1. CASE h = "worker"
        BY <1>6, <1>12, <4>1 DEF Fresh
      <4>2. CASE h = "follow"
        BY <1>6, <4>2 DEF Fresh
      <4> QED BY <4>1, <4>2
    <3> QED BY <1>8, <1>10, <1>14, <3>1 DEF Fresh
  <2> QED BY <1>2, <1>10, <2>1 DEF Ordered, Ready, Busy, Pausing
<1>18. Threadless(s')
  BY <1>10 DEF Threadless
<1>19. Underway(s', codex)
  <2>1. /\ InTurns(codex) \subseteq InJournal(s) /\ codex.late \subseteq InJournal(s)
        /\ codex.late \cap InTurns(codex) = {}
    BY <1>2 DEF Underway
  <2>2. ASSUME NEW g \in {"worker", "follow"}, s'[g].pc = "turn"
        PROVE  /\ s'[g].prompt \in InJournal(s')
               /\ codex.calls[g] = 0 => s'[g].prompt \notin InTurns(codex) \cup codex.late
    <3>1. CASE g = h
      BY <1>5, <1>7, <1>8, <1>13, <2>1, <3>1
    <3>2. CASE g # h
      <4>1. s'[g] = s[g]
        BY <1>7, <3>2 DEF Beside, Fields
      <4> QED BY <1>2, <1>8, <2>2, <4>1 DEF Underway
    <3> QED BY <3>1, <3>2
  <2> QED BY <1>8, <2>1, <2>2 DEF Underway
<1>20. Created(s', codex)
  <2>1. s'.worker.pc \notin {"tree", "thread"} \/ s'.worker = s.worker
    BY <1>5, <1>10
  <2> QED BY <1>2, <1>10, <2>1 DEF Created
<1>21. Good(s', codex', r)
  BY <1>2, <1>11, <1>15, <1>16, <1>17, <1>18, <1>19, <1>20 DEF Good, Ordered, n, Latest
<1>22. Moves(s, codex, s', codex')
  <2>1. prompt \in InJournal(s') /\ Starts(codex') = Starts(codex)
    BY <1>8
  <2> QED BY <1>8, <2>1 DEF Moves
<1> QED BY <1>21, <1>22 DEF Step, IInv, Spent, r

LEMMA SubmitStepWorker ==
  ASSUME IInv, Submit
  PROVE  Step
<1> DEFINE n == Latest
           b == Blocked(s)
<1>1. n \in Nat /\ Typed(s, n) /\ Spent /\ UNCHANGED codex /\ s.worker.pc = "options"
  BY Facts, LeftStep DEF Submit, Spent, At
<1>2. s.task.thread
  BY <1>1, Facts DEF Ordered, Threadless
<1>3. b = Blocked(s)
  OBVIOUS
<1>4. s' = Ended(s) \/ s' = Ended(FailedWith(b, FALSE)) \/ s' = SubmitBy("worker")
  BY DEF Submit
<1> HIDE DEF n, b
<1>5. CASE s' = Ended(s)
  <2>1. Sane(s, s', n)
    BY <1>1, <1>5, EndedSane
  <2> QED BY <1>1, <2>1, SaneOnly DEF n
<1>6. CASE s' = Ended(FailedWith(b, FALSE))
  <2>1. Sane(s, b, n)
    BY <1>1, <1>3, BlockedSane
  <2>2. Sane(b, s', n)
    BY <1>1, <1>6, <2>1, EndedFailedSane DEF Sane
  <2>3. Sane(s, s', n)
    BY <2>1, <2>2, SaneThrough
  <2> QED BY <1>1, <2>3, SaneOnly DEF n
<1>7. CASE s' = SubmitBy("worker")
  <2>1. s["worker"].pc = "options"
    BY <1>1
  <2> QED BY <1>1, <1>2, <1>7, <2>1, SubmitStep
<1> QED BY <1>4, <1>5, <1>6, <1>7

LEMMA FollowUpSubmitStep ==
  ASSUME IInv, FollowUpSubmit
  PROVE  Step
<1> DEFINE n == Latest
           b == Blocked(s)
<1>1. n \in Nat /\ Typed(s, n) /\ Spent /\ UNCHANGED codex /\ s.follow.pc = "options"
  BY Facts, LeftStep DEF FollowUpSubmit, Spent
<1>2. s.task.thread
  BY <1>1, Facts DEF Ordered, Threadless
<1>3. b = Blocked(s)
  OBVIOUS
<1>4. s' = Restored(s) \/ s' = Restored(b) \/ s' = SubmitBy("follow")
  BY DEF FollowUpSubmit
<1> HIDE DEF n, b
<1>5. CASE s' = Restored(s)
  <2>1. Sane(s, s', n)
    BY <1>1, <1>2, <1>5, RestoredSane
  <2> QED BY <1>1, <2>1, SaneOnly DEF n
<1>6. CASE s' = Restored(b)
  <2>1. Sane(s, b, n) /\ Beside(s, b, {"task"})
    BY <1>1, <1>3, BlockedSane
  <2>2. b.follow = s.follow
    BY <2>1 DEF Beside, Fields
  <2>3. b.task.thread = s.task.thread
    BY <2>1 DEF Sane, Calm, Still
  <2>4. Typed(b, n) /\ b.follow.pc # "none"
    BY <1>1, <2>1, <2>2 DEF Sane
  <2>5. b.task.thread
    BY <1>2, <2>3
  <2>6. Sane(b, s', n)
    BY <1>1, <1>6, <2>4, <2>5, RestoredSane
  <2>7. Sane(s, s', n)
    BY <2>1, <2>6, SaneThrough
  <2> QED BY <1>1, <2>7, SaneOnly DEF n
<1>7. CASE s' = SubmitBy("follow")
  <2>1. s["follow"].pc = "options"
    BY <1>1
  <2> QED BY <1>1, <1>2, <1>7, <2>1, SubmitStep
<1> QED BY <1>4, <1>5, <1>6, <1>7

-----------------------------------------------------------------------------
(* Stops are asked for.                                                     *)

\* The writes of a stop that is to be confirmed.
PauseMark(x, b) == [x EXCEPT !.task.paused = @ \/ b]

LEMMA PauseMarked ==
  ASSUME NEW n \in Nat, NEW x, Typed(x, n), NEW b \in BOOLEAN,
         NEW y, y = PauseMark(x, b)
  PROVE  Sane(x, y, n) /\ y.queue = x.queue /\ y.task.thread = x.task.thread
<1> DEFINE k == [x.task EXCEPT !.paused = @ \/ b]
<1>1. x.task \in TaskRec /\ x.task.uncertain <= Len(x.ops) /\ DOMAIN x = Fields
  BY DEF Typed, States, Fields
<1>2. k \in TaskRec /\ k.uncertain = x.task.uncertain /\ k.thread = x.task.thread
      /\ k.run = x.task.run /\ k.status = x.task.status
  BY <1>1 DEF TaskRec
<1>3. y = [x EXCEPT !.task = k]
  BY <1>1 DEF PauseMark, Fields, TaskRec
<1> HIDE DEF k
<1>4. Sane(x, y, n) /\ y.task = k /\ Beside(x, y, {"task"})
  BY <1>1, <1>2, <1>3, RowSane
<1> QED BY <1>2, <1>4 DEF Beside, Fields

\* The writes of a stop that is to ask Codex.
Stopping(x, kind) == [x EXCEPT !.stop = [pc |-> "ask", kind |-> kind], !.override = TRUE]

LEMMA StoppingSteady ==
  ASSUME NEW n \in Nat, NEW x, Typed(x, n), x.task.thread, NEW kind \in {"pause", "cancel", "requeue"},
         kind = "pause" => x.queue.state # "pending",
         NEW y, y = Stopping(x, kind)
  PROVE  /\ Typed(y, n) /\ Steady(x, y)
         /\ Beside(x, y, {"stop", "override"})
<1>1. DOMAIN x = Fields
  BY DEF Typed, States, Fields
<1>2. Beside(x, y, {"stop", "override"}) /\ y.stop = [pc |-> "ask", kind |-> kind]
  BY <1>1 DEF Stopping, Beside, Fields
<1>3. y \in States(n)
  BY DEF Typed, States, Stopping, StopRec
<1>4. /\ \A f \in Fields \ {"stop", "override"} : y[f] = x[f]
      /\ y.stop.pc = "ask" /\ y.stop.kind = kind
  BY <1>2 DEF Beside
<1>5. /\ y.managed = x.managed /\ y.task = x.task /\ y.queue = x.queue /\ y.lease = x.lease
      /\ y.ops = x.ops /\ y.worker = x.worker /\ y.follow = x.follow
  BY <1>4 DEF Fields
<1>6. Typed(y, n)
  BY <1>3, <1>4, <1>5 DEF Typed
<1>7. y.task.thread
  BY <1>5
<1>8. Waits(x, y) /\ SamePrompts(x, y)
  BY <1>5 DEF Waits, SamePrompts, Busy
<1>9. Steady(x, y)
  BY <1>4, <1>5, <1>7, <1>8 DEF Steady
<1> QED BY <1>2, <1>6, <1>9

LEMMA StopStep ==
  ASSUME IInv, NEW kind, Stop(kind)
  PROVE  Step
<1> DEFINE n == Latest
           c == Confirmed(kind)
           m == [s EXCEPT !.task.paused = @ \/ Confirmed(kind)]
           x == IF Confirmed(kind) THEN Finished(m) ELSE m
<1>1. n \in Nat /\ Typed(s, n) /\ Spent /\ UNCHANGED codex
  BY Facts, LeftStep DEF Stop, Spent
<1>2. kind \in {"pause", "cancel", "requeue"}
  BY DEF Stop, Kinds
<1>3. Confirmed(kind) \in BOOLEAN /\ (kind = "pause" => Confirmed(kind))
  BY <1>1 DEF Confirmed, Typed, States
<1>4. \/ s' = x
      \/ s.task.thread /\ s' = Stopping(x, kind)
      \/ s' = StoppedBy(x, kind, TRUE)
  BY DEF Stop, Stopping
<1>5. m = PauseMark(s, c) /\ x = (IF c THEN Finished(m) ELSE m) /\ c = Confirmed(kind)
  BY DEF PauseMark
<1> HIDE DEF n, m, x, c
<1>6. Sane(s, m, n) /\ m.queue = s.queue /\ m.task.thread = s.task.thread
  <2>1. c \in BOOLEAN /\ m = PauseMark(s, c)
    BY <1>3, <1>5
  <2> QED BY <1>1, <2>1, PauseMarked
<1>7. Typed(m, n)
  BY <1>6 DEF Sane
<1>8. Sane(m, x, n) /\ (Confirmed(kind) => x.queue.state # "pending")
  <2>1. CASE Confirmed(kind)
    BY <1>5, <1>7, <2>1, FinishedSane
  <2>2. CASE ~Confirmed(kind)
    BY <1>5, <1>7, <2>2, CalmSame DEF Sane
  <2> QED BY <2>1, <2>2
<1>9. Sane(s, x, n) /\ Typed(x, n)
  BY <1>6, <1>8, SaneThrough DEF Sane
<1>10. kind = "pause" => x.queue.state # "pending"
  BY <1>3, <1>8
<1>11. x.task.thread = s.task.thread
  BY <1>9 DEF Sane, Calm, Still
<1>12. CASE s' = x
  BY <1>1, <1>9, <1>12, SaneOnly DEF n
<1>13. CASE s.task.thread /\ s' = Stopping(x, kind)
  <2>1. Typed(s', n) /\ Steady(x, s') /\ Beside(x, s', {"stop", "override"})
    BY <1>1, <1>2, <1>9, <1>10, <1>11, <1>13, StoppingSteady
  <2>2. Steady(s, x)
    BY <1>9, CalmSteady DEF Sane
  <2>3. Steady(s, s')
    BY <2>1, <2>2, SteadyThrough
  <2>4. s'.worker = x.worker /\ s'.managed = x.managed /\ s'.treeOp = x.treeOp /\ s'.threadOp = x.threadOp
    BY <2>1 DEF Beside, Fields
  <2>5. /\ x.managed = s.managed /\ x.treeOp = s.treeOp /\ x.threadOp = s.threadOp
        /\ x.worker = s.worker \/ x.worker.pc \in Without
    BY <1>9 DEF Sane, Calm, Still
  <2>6. Created(s, codex) /\ Shown(codex') /\ SameTurns(codex, codex') /\ codex'.late = codex.late
    BY <1>1 DEF IInv, Good, SameTurns
  <2>7. Created(s', codex')
    BY <1>1, <2>4, <2>5, <2>6 DEF Created, Without
  <2> QED BY <1>1, <2>1, <2>3, <2>6, <2>7, LateSame, SteadyStep DEF n
<1>14. CASE s' = StoppedBy(x, kind, TRUE)
  <2>1. /\ Typed(s', n) /\ Still(x, s')
        /\ \/ Waits(x, s')
           \/ kind = "pause" /\ s'.queue = x.queue
    BY <1>1, <1>2, <1>9, <1>14, StoppedStill
  <2>2. Waits(x, s')
    BY <1>10, <2>1 DEF Waits
  <2>3. Sane(x, s', n)
    BY <2>1, <2>2 DEF Sane, Calm
  <2>4. Sane(s, s', n)
    BY <1>9, <2>3, SaneThrough
  <2> QED BY <1>1, <2>4, SaneOnly DEF n
<1> QED BY <1>4, <1>12, <1>13, <1>14

-----------------------------------------------------------------------------
(* Users ask for a turn, and prompts reach the worker.                      *)

LEMMA PromptNats ==
  ASSUME NEW n, NEW x, Typed(x, n)
  PROVE  /\ x.worker.prompt \in Nat /\ x.follow.prompt \in Nat /\ x.queue.prompt \in Nat
         /\ \A i \in InJournal(x) : i \in Nat
<1> DEFINE S == OpRec
           q == x.ops
<1>1. q \in Seq(S) /\ InJournal(x) = {q[i].prompt : i \in DOMAIN q}
  BY DEF InJournal, Typed, States
<1>2. \A i \in DOMAIN q : q[i] \in S
  <2> HIDE DEF S
  <2> QED BY <1>1
<1>3. \A i \in InJournal(x) : i \in Nat
  BY <1>1, <1>2 DEF OpRec
<1> QED BY <1>3 DEF Typed, States, WorkerRec, FollowRec, QueueRec

Bare(x) ==
  ~x.task.thread =>
    /\ x.ops = <<>> /\ x.follow.pc = "none" /\ x.stop.pc = "none"
    /\ x.worker.pc \notin {"resume", "options", "turn"}

\* The invariant but for what it says of a prompt in the queue.
Prepared(x, c, q) == Numbered(x, q) /\ First(x) /\ Bare(x) /\ Underway(x, c) /\ Created(x, c)

Asking(x) == x.task.status = "in_progress" /\ x.task.run = "starting" /\ ~x.task.thread

LEMMA PreparedOrdered ==
  ASSUME NEW x, NEW c, NEW q, Prepared(x, c, q), Ready(x),
         Asking(x) /\ x.queue.state = "pending" => x.lease
  PROVE  Ordered(x, q) /\ Underway(x, c) /\ Created(x, c)
BY DEF Prepared, Ordered, Threadless, Bare, Asking

LEMMA GoodPrepared ==
  ASSUME IInv
  PROVE  /\ Prepared(s, codex, left.prompts) /\ Ready(s) /\ left.prompts \in Nat
         /\ Asking(s) /\ s.queue.state = "pending" => s.lease
BY DEF IInv, Good, Prepared, Ordered, Threadless, Bare, Asking

\* The row, the queue and the lease are written; prompts stay where they are.
LEMMA StillPrepared ==
  ASSUME NEW n, NEW x, Typed(x, n), NEW y, Beside(x, y, {"task", "queue", "lease"}),
         y.task.thread = x.task.thread,
         NEW c, NEW p \in Nat, NEW q \in Nat, q <= p, Prepared(x, c, p),
         y.queue.state = "pending" => y.queue.prompt > q,
         y.task.run = "starting" /\ ~y.task.thread => y.queue.prompt > q
  PROVE  Prepared(y, c, q) /\ InJournal(y) = InJournal(x)
<1>1. /\ y.ops = x.ops /\ y.worker = x.worker /\ y.follow = x.follow /\ y.stop = x.stop
      /\ y.managed = x.managed /\ y.treeOp = x.treeOp /\ y.threadOp = x.threadOp
  BY DEF Beside, Fields
<1>2. InJournal(y) = InJournal(x)
  BY <1>1 DEF InJournal
<1>3. Numbered(y, q)
  BY <1>1, <1>2, PromptNats DEF Prepared, Numbered
<1>4. First(y) /\ Bare(y)
  BY <1>1, <1>2 DEF Prepared, First, Bare
<1>5. \A h \in {"worker", "follow"} : y[h] = x[h]
  BY <1>1
<1>6. Underway(y, c)
  BY <1>2, <1>5 DEF Prepared, Underway
<1>7. Created(y, c)
  BY <1>1 DEF Prepared, Created
<1> QED BY <1>2, <1>3, <1>4, <1>6, <1>7 DEF Prepared

LEMMA EnqueuedPrepared ==
  ASSUME NEW n, NEW x, Typed(x, n), NEW c, NEW p \in Nat, p > 0, Prepared(x, c, p),
         NEW y, y = Enqueued(x, p)
  PROVE  /\ Typed(y, n) /\ Prepared(y, c, p - 1) /\ Fresh(y)
         /\ y.queue.prompt = p /\ y.queue.state = "pending" /\ y.lease = x.lease
         /\ y.follow = x.follow /\ y.worker = x.worker /\ y.task.thread = x.task.thread
         /\ y.task.conflict = x.task.conflict /\ y.task.run = x.task.run
         /\ y.task.status = x.task.status /\ ~y.task.paused
<1> DEFINE k == [x.task EXCEPT !.paused = FALSE]
           e == [state |-> "pending", prompt |-> p]
<1>1. DOMAIN x = Fields /\ x.task \in TaskRec
  BY DEF Typed, States, Fields
<1>2. k \in TaskRec /\ k.thread = x.task.thread /\ k.conflict = x.task.conflict
      /\ k.run = x.task.run /\ k.status = x.task.status /\ k.paused = FALSE
      /\ k.uncertain = x.task.uncertain
  BY <1>1 DEF TaskRec
<1>3. e \in QueueRec /\ e.state = "pending" /\ e.prompt = p
  BY DEF QueueRec
<1>4. y = [x EXCEPT !.queue = e, !.task = k]
  BY <1>1 DEF Enqueued, Fields, TaskRec
<1> HIDE DEF k, e
<1>5. Beside(x, y, {"task", "queue"}) /\ y.task = k /\ y.queue = e
  BY <1>1, <1>4 DEF Beside, Fields
<1>6. y \in States(n)
  BY <1>2, <1>3, <1>4 DEF Typed, States
<1>7. y.ops = x.ops /\ y.worker = x.worker /\ y.follow = x.follow /\ y.stop = x.stop /\ y.lease = x.lease
  BY <1>5 DEF Beside, Fields
<1>8. Typed(y, n)
  BY <1>2, <1>5, <1>6, <1>7 DEF Typed
<1>9. p - 1 \in Nat /\ p - 1 <= p /\ p > p - 1
  OBVIOUS
<1>10. Beside(x, y, {"task", "queue", "lease"}) /\ y.task.thread = x.task.thread /\ y.queue.prompt > p - 1
  BY <1>2, <1>3, <1>5, <1>9 DEF Beside
<1>11. Prepared(y, c, p - 1) /\ InJournal(y) = InJournal(x)
  BY <1>9, <1>10, StillPrepared
<1>12. Fresh(y)
  BY <1>3, <1>5, <1>7, <1>11, PromptNats DEF Prepared, Numbered, Fresh
<1> QED BY <1>2, <1>3, <1>5, <1>7, <1>8, <1>11, <1>12

LEMMA ClaimedPrepared ==
  ASSUME NEW n, NEW x, Typed(x, n), NEW c, NEW q \in Nat, Prepared(x, c, q), x.queue.prompt > q,
         NEW y, y = Claimed(x)
  PROVE  /\ Typed(y, n) /\ Prepared(y, c, q) /\ InJournal(y) = InJournal(x)
         /\ y.queue.prompt = x.queue.prompt /\ y.queue.state = "claimed"
         /\ y.follow = x.follow /\ y.worker = x.worker /\ y.task.thread = x.task.thread
<1> DEFINE k == [x.task EXCEPT !.status = "in_progress", !.run = "starting"]
           e == [x.queue EXCEPT !.state = "claimed"]
<1>1. DOMAIN x = Fields /\ x.task \in TaskRec /\ x.queue \in QueueRec
  BY DEF Typed, States, Fields
<1>2. k \in TaskRec /\ k.thread = x.task.thread /\ k.uncertain = x.task.uncertain
  BY <1>1 DEF TaskRec
<1>3. e \in QueueRec /\ e.state = "claimed" /\ e.prompt = x.queue.prompt
  BY <1>1 DEF QueueRec
<1>4. y = [x EXCEPT !.lease = TRUE, !.queue = e, !.task = k]
  BY <1>1 DEF Claimed, Fields, TaskRec, QueueRec
<1> HIDE DEF k, e
<1>5. Beside(x, y, {"task", "queue", "lease"}) /\ y.task = k /\ y.queue = e
  BY <1>1, <1>4 DEF Beside, Fields
<1>6. y \in States(n)
  BY <1>2, <1>3, <1>4 DEF Typed, States
<1>7. y.ops = x.ops /\ y.worker = x.worker /\ y.follow = x.follow /\ y.stop = x.stop
  BY <1>5 DEF Beside, Fields
<1>8. Typed(y, n)
  BY <1>2, <1>5, <1>6, <1>7 DEF Typed
<1>9. Prepared(y, c, q) /\ InJournal(y) = InJournal(x)
  BY <1>2, <1>3, <1>5, StillPrepared
<1> QED BY <1>2, <1>3, <1>5, <1>7, <1>8, <1>9

LEMMA SpawnPrepared ==
  ASSUME NEW n \in Nat, NEW x, Typed(x, n), NEW c, NEW q \in Nat, Prepared(x, c, q),
         NEW r \in Nat, r > q, r \notin InJournal(x),
         x.follow.pc = "options" => x.follow.prompt # r,
         NEW y, y = Spawn(x, r)
  PROVE  Typed(y, n) /\ Prepared(y, c, q) /\ Beside(x, y, {"worker", "starting"})
         /\ InJournal(y) = InJournal(x)
<1> DEFINE w == [NoWorker EXCEPT !.pc = "begin", !.prompt = r]
<1>1. DOMAIN x = Fields
  BY DEF Typed, States, Fields
<1>2. w \in WorkerRec(n) /\ w.pc = "begin" /\ w.prompt = r /\ w.op = 0
  <2>1. w = [pc |-> "begin", prompt |-> r, op |-> 0, turn |-> 0]
    <3> DEFINE v == [NoWorker EXCEPT !.pc = "begin"]
    <3>1. v = [pc |-> "begin", prompt |-> 0, op |-> 0, turn |-> 0]
      BY DEF NoWorker
    <3>2. w = [v EXCEPT !.prompt = r]
      BY DEF NoWorker
    <3> HIDE DEF v
    <3> QED BY <3>1, <3>2
  <2>2. 0 \in 0..n
    OBVIOUS
  <2> HIDE DEF w
  <2> QED BY <2>1, <2>2 DEF WorkerRec, Before
<1>3. CASE x.worker.pc # "none"
  <2>1. y = x
    BY <1>3 DEF Spawn
  <2> QED BY <1>1, <2>1 DEF Beside
<1>4. CASE x.worker.pc = "none"
  <2>1. y = [x EXCEPT !.worker = w, !.starting = TRUE]
    BY <1>4 DEF Spawn
  <2> HIDE DEF w
  <2>2. Beside(x, y, {"worker", "starting"}) /\ y.worker = w
    BY <1>1, <2>1 DEF Beside, Fields
  <2>3. y \in States(n)
    BY <1>2, <2>1 DEF Typed, States
  <2>4. /\ y.ops = x.ops /\ y.follow = x.follow /\ y.stop = x.stop /\ y.task = x.task
        /\ y.queue = x.queue
        /\ y.managed = x.managed /\ y.treeOp = x.treeOp /\ y.threadOp = x.threadOp
    BY <2>2 DEF Beside, Fields
  <2>5. Typed(y, n)
    BY <1>2, <2>2, <2>3, <2>4 DEF Typed, States
  <2>6. InJournal(y) = InJournal(x)
    BY <2>4 DEF InJournal
  <2>7. Numbered(y, q)
    BY <1>2, <2>2, <2>4, <2>6 DEF Prepared, Numbered
  <2>8. x.follow.pc # "none" => x.follow.prompt # r
    <3>1. x.follow.pc \in {"none", "options", "turn"}
      BY DEF Typed, States, FollowRec
    <3>2. x.follow.pc = "turn" => x.follow.prompt \in InJournal(x)
      BY DEF Prepared, Underway
    <3> QED BY <3>1, <3>2
  <2>9. First(y)
    BY <1>2, <2>2, <2>4, <2>6, <2>8 DEF Prepared, First
  <2>10. Bare(y)
    BY <1>2, <2>2, <2>4 DEF Prepared, Bare
  <2>11. \A h \in {"worker", "follow"} : y[h].pc = "turn" => y[h] = x[h]
    BY <1>2, <2>2, <2>4
  <2>12. Underway(y, c)
    BY <2>6, <2>11 DEF Prepared, Underway
  <2>13. Created(y, c)
    BY <1>2, <2>2, <2>4 DEF Prepared, Created
  <2> QED BY <2>2, <2>5, <2>6, <2>7, <2>9, <2>10, <2>12, <2>13 DEF Prepared
<1> QED BY <1>3, <1>4

LEMMA PreparedStep ==
  ASSUME IInv, Spent, UNCHANGED codex, Typed(s', Latest), Prepared(s', codex, left'.prompts),
         Ready(s'), Asking(s') /\ s'.queue.state = "pending" => s'.lease,
         InJournal(s') = InJournal(s)
  PROVE  Step
<1>1. Ordered(s', left'.prompts) /\ Underway(s', codex) /\ Created(s', codex)
  BY PreparedOrdered
<1>2. IInv'
  BY <1>1 DEF IInv, Good, Spent, Latest
<1> QED BY <1>2 DEF Step, Moves

LEMMA AskSpends ==
  ASSUME IInv, Ask
  PROVE  /\ Spent /\ left.prompts \in Nat /\ left.prompts > 0 /\ left'.prompts = left.prompts - 1
<1>1. left \in LeftRec
  BY DEF IInv
<1>2. left.prompts > 0 /\ left.prompts \in Nat /\ left' = [left EXCEPT !.prompts = @ - 1]
  BY <1>1 DEF Ask, LeftRec
<1>3. left'.prompts = left.prompts - 1
  BY <1>1, <1>2 DEF LeftRec
<1> QED BY <1>1, <1>2, <1>3, LeftStep DEF Spent

LEMMA TryClaimStep ==
  ASSUME IInv, Ask, UNCHANGED codex, NEW x, Typed(x, Latest), Prepared(x, codex, left.prompts),
         InJournal(x) = InJournal(s), Asking(x) => ~x.task.conflict,
         s' = TryClaim(Enqueued(x, NextPrompt), NextPrompt)
  PROVE  Step
<1> DEFINE n == Latest
           p == left.prompts
           e == Enqueued(x, p)
           k == Claimed(e)
<1>1. n \in Nat /\ Spent /\ p \in Nat /\ p > 0 /\ left'.prompts = p - 1
  BY Facts, AskSpends
<1>2. e = Enqueued(x, p) /\ k = Claimed(e) /\ p = left.prompts
  OBVIOUS
<1>3. s' = IF Claimable(e) THEN Spawn(k, p) ELSE e
  BY DEF TryClaim, NextPrompt
<1> HIDE DEF n, p, e, k
<1>4. /\ Typed(e, n) /\ Prepared(e, codex, p - 1) /\ Fresh(e)
      /\ e.queue.prompt = p /\ e.queue.state = "pending" /\ e.lease = x.lease
      /\ e.follow = x.follow /\ e.worker = x.worker /\ e.task.thread = x.task.thread
      /\ e.task.conflict = x.task.conflict /\ e.task.run = x.task.run
      /\ e.task.status = x.task.status /\ ~e.task.paused
  BY <1>1, <1>2, EnqueuedPrepared DEF n
<1>5. e.ops = x.ops
  <2>1. DOMAIN x = Fields
    BY DEF Typed, States, Fields
  <2> QED BY <1>2, <2>1 DEF Enqueued, Fields
<1>6. InJournal(e) = InJournal(s)
  BY <1>5 DEF InJournal
<1>7. p - 1 \in Nat /\ p > p - 1
  BY <1>1
<1>8. CASE ~Claimable(e)
  <2>1. s' = e
    BY <1>3, <1>8
  <2>2. Ready(e)
    BY <1>4 DEF Ready
  <2>3. Asking(e) => e.lease
    BY <1>4, <1>8 DEF Asking, Claimable
  <2> QED BY <1>1, <1>4, <1>6, <2>1, <2>2, <2>3, PreparedStep DEF n
<1>9. CASE Claimable(e)
  <2>1. s' = Spawn(k, p)
    BY <1>3, <1>9
  <2>2. /\ Typed(k, n) /\ Prepared(k, codex, p - 1) /\ InJournal(k) = InJournal(e)
        /\ k.queue.prompt = p /\ k.queue.state = "claimed" /\ k.follow = e.follow
    BY <1>2, <1>4, <1>7, ClaimedPrepared
  <2>3. p \notin InJournal(k) /\ (k.follow.pc = "options" => k.follow.prompt # p)
    BY <1>4, <2>2 DEF Fresh
  <2>4. /\ Typed(s', n) /\ Prepared(s', codex, p - 1) /\ Beside(k, s', {"worker", "starting"})
        /\ InJournal(s') = InJournal(k)
    BY <1>1, <1>7, <2>1, <2>2, <2>3, SpawnPrepared
  <2>5. s'.queue.state = "claimed"
    BY <2>2, <2>4 DEF Beside, Fields
  <2>6. Ready(s')
    BY <2>5 DEF Ready
  <2> QED BY <1>1, <1>6, <2>2, <2>4, <2>5, <2>6, PreparedStep DEF n
<1> QED BY <1>8, <1>9

LEMMA QueuedStep ==
  ASSUME IInv, Ask, UNCHANGED codex, NEW x, Sane(s, x, Latest), Prepared(x, codex, left.prompts),
         InJournal(x) = InJournal(s), Asking(x) => ~x.task.conflict,
         s' = Queued(x, NextPrompt)
  PROVE  Step
<1> DEFINE n == Latest
           a == Adopted(x, n, TRUE)
           b == [a EXCEPT !.task.status = "in_progress", !.task.run = "running"]
<1>1. n \in Nat /\ Spent /\ Typed(x, n)
  BY Facts, AskSpends DEF Sane
<1>2. \/ s' = Watch(b, n)
      \/ s' = TryClaim(Enqueued(x, NextPrompt), NextPrompt)
  BY DEF Queued
<1>3. CASE s' = TryClaim(Enqueued(x, NextPrompt), NextPrompt)
  BY <1>1, <1>3, TryClaimStep
<1>4. CASE s' = Watch(b, n)
  <2>1. a = Adopted(x, n, TRUE) /\ b = [a EXCEPT !.task.status = "in_progress", !.task.run = "running"]
    OBVIOUS
  <2> HIDE DEF n, a, b
  <2>2. n \in 0..n
    BY <1>1
  <2>3. Sane(x, a, n)
    BY <1>1, <2>1, <2>2, AdoptedSane
  <2>4. Sane(a, b, n)
    <3> DEFINE k == [a.task EXCEPT !.status = "in_progress", !.run = "running"]
    <3>1. a.task \in TaskRec /\ DOMAIN a = Fields /\ Typed(a, n) /\ a.task.uncertain <= Len(a.ops)
      BY <2>3 DEF Sane, Typed, States, Fields
    <3>2. k \in TaskRec /\ k.uncertain = a.task.uncertain /\ k.thread = a.task.thread /\ k.run = "running"
      BY <3>1 DEF TaskRec
    <3>3. b = [a EXCEPT !.task = k]
      BY <2>1, <3>1 DEF Fields, TaskRec
    <3> HIDE DEF k
    <3> QED BY <3>1, <3>2, <3>3, RowSane
  <2>5. Typed(b, n)
    BY <2>4 DEF Sane
  <2>6. Sane(b, s', n)
    BY <1>1, <1>4, <2>2, <2>5, WatchSane
  <2>7. Sane(s, s', n)
    BY <2>3, <2>4, <2>6, SaneThrough DEF n
  <2> QED BY <1>1, <2>7, SaneOnly DEF n
<1> QED BY <1>2, <1>3, <1>4

LEMMA RunStep ==
  ASSUME IInv, Run \/ Continue
  PROVE  Step
<1>1. Ask /\ UNCHANGED codex /\ s' = Queued(s, NextPrompt) /\ ~Asking(s)
  BY DEF Run, Continue, Asking
<1>2. Sane(s, s, Latest)
  BY Facts, CalmSame DEF Sane
<1> QED BY <1>1, <1>2, GoodPrepared, QueuedStep

LEMMA ResumeStep ==
  ASSUME IInv, Resume
  PROVE  Step
<1> DEFINE n == Latest
           k == [s.task EXCEPT !.paused = FALSE, !.conflict = FALSE]
           x == [s EXCEPT !.task = k]
<1>1. n \in Nat /\ Typed(s, n) /\ s.task \in TaskRec /\ DOMAIN s = Fields /\ s.task.uncertain <= Len(s.ops)
  BY Facts DEF Typed, States
<1>2. Ask /\ UNCHANGED codex /\ (s' = Queued(x, NextPrompt) \/ s' = x)
  BY <1>1 DEF Resume, Fields, TaskRec
<1>3. k \in TaskRec /\ k.uncertain = s.task.uncertain /\ k.thread = s.task.thread
      /\ k.run = s.task.run /\ k.status = s.task.status /\ ~k.conflict
  BY <1>1 DEF TaskRec
<1>4. x = [s EXCEPT !.task = k]
  OBVIOUS
<1> HIDE DEF n, x, k
<1>5. Sane(s, x, n) /\ x.task = k /\ Beside(s, x, {"task"})
  BY <1>1, <1>3, <1>4, RowSane
<1>6. x.queue = s.queue /\ Beside(s, x, {"task", "queue", "lease"})
  BY <1>5 DEF Beside, Fields
<1>7. Prepared(x, codex, left.prompts) /\ InJournal(x) = InJournal(s)
  <2>1. /\ x.task.thread = s.task.thread
        /\ x.queue.state = "pending" => x.queue.prompt > left.prompts
        /\ x.task.run = "starting" /\ ~x.task.thread => x.queue.prompt > left.prompts
    BY <1>3, <1>5, <1>6, GoodPrepared DEF Prepared, Numbered
  <2>2. left.prompts <= left.prompts
    BY GoodPrepared
  <2> QED BY <1>1, <1>6, <2>1, <2>2, GoodPrepared, StillPrepared
<1>8. CASE s' = x
  BY <1>2, <1>5, <1>8, AskSpends, SaneOnly DEF n
<1>9. CASE s' = Queued(x, NextPrompt)
  <2>1. ~x.task.conflict
    BY <1>3, <1>5
  <2> QED BY <1>2, <1>5, <1>7, <1>9, <2>1, QueuedStep DEF n
<1> QED BY <1>2, <1>8, <1>9

LEMMA DispatchStep ==
  ASSUME IInv, Dispatch
  PROVE  Step
<1> DEFINE n == Latest
           p == left.prompts
           q == left'.prompts
           k == Claimed(s)
           r == s.queue.prompt
<1>1. n \in Nat /\ Typed(s, n) /\ Spent /\ UNCHANGED codex /\ left' = left
      /\ s.queue.state = "pending" /\ Claimable(s) /\ s' = Spawn(k, r)
  BY Facts, LeftStep DEF Dispatch, Spent, Unspent
<1>2. Fresh(s)
  BY <1>1, GoodPrepared DEF Ready, Claimable, Busy
<1>3. Prepared(s, codex, p) /\ p \in Nat /\ r > p /\ r \in Nat /\ q = p
  BY <1>1, GoodPrepared, PromptNats DEF Prepared, Numbered
<1>4. k = Claimed(s) /\ r = s.queue.prompt
  OBVIOUS
<1> HIDE DEF n, p, q, k, r
<1>5. /\ Typed(k, n) /\ Prepared(k, codex, p) /\ InJournal(k) = InJournal(s)
      /\ k.queue.prompt = r /\ k.queue.state = "claimed" /\ k.follow = s.follow
  BY <1>1, <1>3, <1>4, ClaimedPrepared
<1>6. r \notin InJournal(k) /\ (k.follow.pc = "options" => k.follow.prompt # r)
  BY <1>2, <1>4, <1>5 DEF Fresh
<1>7. /\ Typed(s', n) /\ Prepared(s', codex, p) /\ Beside(k, s', {"worker", "starting"})
      /\ InJournal(s') = InJournal(k)
  BY <1>1, <1>3, <1>5, <1>6, SpawnPrepared
<1>8. s'.queue.state = "claimed"
  BY <1>5, <1>7 DEF Beside, Fields
<1>9. Ready(s')
  BY <1>8 DEF Ready
<1> QED BY <1>1, <1>3, <1>5, <1>7, <1>8, <1>9, PreparedStep DEF n, q

\* The writes of a follow-up that is to be sent.
Following(x, r, row) ==
  [x EXCEPT !.starting = TRUE,
            !.follow = [pc |-> "options", prompt |-> r, op |-> 0, row |-> row]]

LEMMA FollowingPrepared ==
  ASSUME NEW n \in Nat, NEW x, Typed(x, n), NEW c, NEW q \in Nat, Prepared(x, c, q),
         x.worker.pc = "none", x.task.thread,
         NEW r \in Nat, r > q, r \notin InJournal(x), NEW row \in TaskRec,
         NEW y, y = Following(x, r, row)
  PROVE  Typed(y, n) /\ Prepared(y, c, q) /\ y.queue = x.queue /\ y.task.thread
         /\ InJournal(y) = InJournal(x)
<1> DEFINE f == [pc |-> "options", prompt |-> r, op |-> 0, row |-> row]
<1>1. DOMAIN x = Fields
  BY DEF Typed, States, Fields
<1>2. f \in FollowRec /\ f.pc = "options" /\ f.prompt = r /\ f.op = 0 /\ f.row = row
  BY DEF FollowRec
<1>3. y = [x EXCEPT !.starting = TRUE, !.follow = f]
  BY DEF Following
<1> HIDE DEF f
<1>4. Beside(x, y, {"starting", "follow"}) /\ y.follow = f
  BY <1>1, <1>3 DEF Beside, Fields
<1>5. y \in States(n)
  BY <1>2, <1>3 DEF Typed, States
<1>6. /\ y.ops = x.ops /\ y.worker = x.worker /\ y.stop = x.stop /\ y.task = x.task
      /\ y.queue = x.queue
      /\ y.managed = x.managed /\ y.treeOp = x.treeOp /\ y.threadOp = x.threadOp
  BY <1>4 DEF Beside, Fields
<1>7. Len(x.ops) \in Nat
  BY DEF Typed, States
<1>8. Typed(y, n)
  BY <1>2, <1>4, <1>5, <1>6, <1>7 DEF Typed
<1>9. InJournal(y) = InJournal(x)
  BY <1>6 DEF InJournal
<1>10. Numbered(y, q) /\ First(y) /\ Bare(y)
  BY <1>2, <1>4, <1>6, <1>9 DEF Prepared, Numbered, First, Bare, Before
<1>11. \A h \in {"worker", "follow"} : y[h].pc # "turn"
  BY <1>2, <1>4, <1>6
<1>12. Underway(y, c)
  BY <1>9, <1>11 DEF Prepared, Underway
<1>13. Created(y, c)
  BY <1>6 DEF Prepared, Created
<1>14. y.task.thread
  BY <1>6
<1> QED BY <1>6, <1>8, <1>9, <1>10, <1>12, <1>13, <1>14 DEF Prepared

LEMMA FollowUpStep ==
  ASSUME IInv, FollowUp
  PROVE  Step
<1> DEFINE n == Latest
           p == left.prompts
           e == Enqueued(s, p)
           k == Claimed(e)
           row == s.task
<1>1. n \in Nat /\ Spent /\ p \in Nat /\ p > 0 /\ left'.prompts = p - 1 /\ UNCHANGED codex
      /\ Typed(s, n) /\ row \in TaskRec /\ DOMAIN s = Fields
  BY Facts, AskSpends DEF FollowUp, Typed, States
<1>2. s.task.thread /\ s.worker.pc = "none"
  BY DEF FollowUp
<1>3. e = Enqueued(s, p) /\ k = Claimed(e) /\ p = left.prompts
  OBVIOUS
<1>4. s' = IF ~Claimable(e) THEN e ELSE Following(k, p, row)
  BY DEF FollowUp, Following, NextPrompt
<1> HIDE DEF n, p, e, k, row
<1>5. /\ Typed(e, n) /\ Prepared(e, codex, p - 1) /\ Fresh(e)
      /\ e.queue.prompt = p /\ e.queue.state = "pending" /\ e.worker = s.worker
      /\ e.task.thread = s.task.thread
  BY <1>1, <1>3, GoodPrepared, EnqueuedPrepared
<1>6. e.ops = s.ops
  BY <1>1, <1>3 DEF Enqueued, Fields
<1>7. InJournal(e) = InJournal(s)
  BY <1>6 DEF InJournal
<1>8. p - 1 \in Nat /\ p > p - 1
  BY <1>1
<1>9. e.task.thread
  BY <1>2, <1>5
<1>10. CASE ~Claimable(e)
  <2>1. s' = e
    BY <1>4, <1>10
  <2>2. Ready(e) /\ ~Asking(e)
    BY <1>5, <1>9 DEF Ready, Asking
  <2> QED BY <1>1, <1>5, <1>7, <2>1, <2>2, PreparedStep DEF n
<1>11. CASE Claimable(e)
  <2>1. s' = Following(k, p, row)
    BY <1>4, <1>11
  <2>2. /\ Typed(k, n) /\ Prepared(k, codex, p - 1) /\ InJournal(k) = InJournal(e)
        /\ k.queue.prompt = p /\ k.queue.state = "claimed" /\ k.worker = e.worker
        /\ k.task.thread = e.task.thread
    BY <1>3, <1>5, <1>8, ClaimedPrepared
  <2>3. p \notin InJournal(k) /\ k.worker.pc = "none"
    BY <1>2, <1>5, <2>2 DEF Fresh
  <2>4. k.task.thread
    BY <1>9, <2>2
  <2>5. /\ Typed(s', n) /\ Prepared(s', codex, p - 1) /\ s'.queue = k.queue
        /\ InJournal(s') = InJournal(k)
    BY <1>1, <1>8, <2>1, <2>2, <2>3, <2>4, FollowingPrepared
  <2>6. s'.queue.state = "claimed" /\ Ready(s')
    BY <2>2, <2>5 DEF Ready
  <2> QED BY <1>1, <1>7, <2>2, <2>5, <2>6, PreparedStep DEF n
<1> QED BY <1>10, <1>11

\* A start without a thread begins again: nothing has been recorded for it.
LEMMA BegunAgain ==
  ASSUME IInv, Asking(s), NEW y, y = Spawn(s, s.queue.prompt)
  PROVE  /\ Typed(y, Latest) /\ Prepared(y, codex, left.prompts) /\ Ready(y)
         /\ Asking(y) /\ y.queue.state = "pending" => y.lease
         /\ InJournal(y) = InJournal(s)
<1> DEFINE n == Latest
           p == left.prompts
           r == s.queue.prompt
<1>1. n \in Nat /\ Typed(s, n) /\ p \in Nat /\ Prepared(s, codex, p) /\ r \in Nat
      /\ (s.queue.state = "pending" => s.lease)
  BY Facts, GoodPrepared, PromptNats
<1>2. /\ s.ops = <<>> /\ s.follow.pc = "none" /\ s.stop.pc = "none"
      /\ r > p /\ s.task.run = "starting"
  BY <1>1 DEF Asking, Prepared, Bare, Numbered
<1>3. InJournal(s) = {}
  BY <1>2 DEF InJournal
<1> HIDE DEF n, p, r
<1>4. /\ Typed(y, n) /\ Prepared(y, codex, p) /\ Beside(s, y, {"worker", "starting"})
      /\ InJournal(y) = InJournal(s)
  BY <1>1, <1>2, <1>3, SpawnPrepared DEF r
<1>5. y.queue = s.queue /\ y.lease = s.lease /\ y.task = s.task /\ y.stop = s.stop
  BY <1>4 DEF Beside, Fields
<1>6. Ready(y)
  BY <1>1, <1>2, <1>5 DEF Ready, Busy, Pausing
<1> QED BY <1>1, <1>4, <1>5, <1>6 DEF n, p

LEMMA ReconcileStep ==
  ASSUME IInv, Reconcile
  PROVE  Step
<1> DEFINE n == Latest
           again == Asking(s) /\ s.worker.pc = "none"
           x == IF again THEN Spawn(s, s.queue.prompt) ELSE s
           op == UncertainStart(x)
           rec == [pc |-> "recover", latest |-> n, state |-> StateOf(n), op |-> op]
<1>1. n \in Nat /\ Typed(s, n) /\ Spent /\ UNCHANGED codex /\ left' = left /\ left.prompts \in Nat
  BY Facts, LeftStep DEF Reconcile, Spent, Unspent
<1>2. x = IF again THEN Spawn(s, s.queue.prompt) ELSE s
  OBVIOUS
<1>3. \/ s' = [s EXCEPT !.loop = NoLoop]
      \/ s' = [x EXCEPT !.loop = NoLoop]
      \/ s' = [x EXCEPT !.loop = rec]
  BY DEF Reconcile, Asking
<1> HIDE DEF x
<1>4. /\ Typed(x, n) /\ Prepared(x, codex, left.prompts) /\ Ready(x)
      /\ Asking(x) /\ x.queue.state = "pending" => x.lease
      /\ InJournal(x) = InJournal(s)
  BY <1>1, <1>2, GoodPrepared, BegunAgain
<1>5. rec \in LoopRec(n) /\ NoLoop \in LoopRec(n)
  <2>1. n \in 0..n /\ 0 \in 0..n /\ StateOf(n) \in TurnState \cup {"none"}
    BY <1>1, StateTyped
  <2>2. op \in Nat
    <3>1. Len(x.ops) \in Nat /\ x.task.uncertain \in Nat
      BY <1>4 DEF Typed, States, TaskRec
    <3>2. FirstUncertain(x) \in 0..Len(x.ops)
      BY <1>4, UncertainFirst
    <3> QED BY <3>1, <3>2 DEF UncertainStart
  <2> HIDE DEF n, op
  <2> QED BY <2>1, <2>2 DEF LoopRec, NoLoop
<1> HIDE DEF n, rec
<1>6. CASE s' = [s EXCEPT !.loop = NoLoop]
  <2>1. Sane(s, s', n)
    BY <1>1, <1>5, <1>6, LoopSane
  <2> QED BY <1>1, <2>1, SaneOnly DEF n
<1>7. CASE s' # [s EXCEPT !.loop = NoLoop]
  <2>1. Sane(x, s', n)
    BY <1>1, <1>3, <1>4, <1>5, <1>7, LoopSane
  <2>2. Ordered(x, left.prompts) /\ Underway(x, codex) /\ Created(x, codex)
    BY <1>4, PreparedOrdered
  <2>3. Typed(s', n) /\ Steady(x, s') /\ Calm(x, s')
    BY <2>1, CalmSteady DEF Sane
  <2>4. Ordered(s', left.prompts)
    BY <1>1, <1>4, <2>2, <2>3, SteadyOrdered
  <2>5. Underway(s', codex)
    <3>1. LateFrom(x, codex, s', codex)
      BY DEF LateFrom
    <3> QED BY <1>4, <2>2, <2>3, <3>1, SteadyUnderway DEF Ordered
  <2>6. Created(s', codex)
    BY <2>2, <2>3 DEF Calm, Still, Created, Without
  <2>7. InJournal(s') = InJournal(s)
    BY <1>4, <2>3, JournalSame DEF Steady
  <2>8. IInv'
    BY <1>1, <2>3, <2>4, <2>5, <2>6 DEF IInv, Good, n, Latest
  <2> QED BY <1>1, <2>7, <2>8 DEF Step, Moves
<1> QED BY <1>6, <1>7

-----------------------------------------------------------------------------
(* The process is restarted; turns are started.                             *)

LEMMA ForgottenSane ==
  ASSUME NEW n \in Nat, NEW x, Typed(x, n), NEW y, y = Forgotten(x)
  PROVE  Sane(x, y, n) /\ y.worker.pc = "none" /\ y.follow.pc = "none"
<1>1. DOMAIN x = Fields /\ x \in States(n)
  BY DEF Typed, States, Fields
<1>2. 0 \in 0..n
  OBVIOUS
<1>3. NoWorker \in WorkerRec(n) /\ NoFollow \in FollowRec /\ NoStop \in StopRec /\ NoLoop \in LoopRec(n)
      /\ NoWorker.pc = "none" /\ NoWorker.op = 0 /\ NoFollow.pc = "none"
  BY <1>2 DEF NoWorker, NoFollow, NoStop, NoLoop, WorkerRec, FollowRec, StopRec, LoopRec, Without
<1> DEFINE W == NoWorker  F == NoFollow  S == NoStop  L == NoLoop
<1>4. y = [x EXCEPT !.turn = 0, !.starting = FALSE, !.override = FALSE,
                    !.worker = W, !.follow = F, !.stop = S,
                    !.loop = L, !.ended = {}, !.limits = {}]
  BY DEF Forgotten
<1>5. W \in WorkerRec(n) /\ F \in FollowRec /\ S \in StopRec /\ L \in LoopRec(n)
  BY <1>3
<1> HIDE DEF W, F, S, L
<1>6. Beside(x, y, Side \cup {"worker", "follow", "stop"})
      /\ y.worker = W /\ y.follow = F /\ y.stop = S
  BY <1>1, <1>4 DEF Beside, Fields, Side
<1>7. y \in States(n)
  <2>1. {} \in SUBSET (0..n) /\ {} \in SUBSET LimitRec(n)
    OBVIOUS
  <2> QED BY <1>1, <1>2, <1>4, <1>5, <2>1 DEF States
<1>8. Sane(x, y, n)
  <2>1. y.worker.pc \in Without /\ y.worker.op \in {0, x.worker.op}
    BY <1>3, <1>6 DEF W, Without
  <2> QED BY <1>6, <1>7, <2>1, EndSane DEF F, S
<1> QED BY <1>3, <1>6, <1>8 DEF W, F

LEMMA CrashStep ==
  ASSUME IInv, Crash
  PROVE  Step
<1> DEFINE n == Latest
           c == Abandoned(codex)
<1>1. n \in Nat /\ Typed(s, n) /\ Spent /\ s' = Forgotten(s)
  BY Facts, LeftStep DEF Crash, Spent
<1>2. PICK i \in IF At("tree") THEN {0, 1} ELSE {0}, j \in IF At("thread") THEN {0, 1} ELSE {0} :
        codex' = [c EXCEPT !.trees = @ + i, !.threads = @ + j,
                               !.calls = NoCalls, !.inbox = <<>>]
  BY DEF Crash
<1>3. /\ i \in Nat /\ j \in Nat /\ i <= 1 /\ j <= 1
      /\ (i # 0 => s.worker.pc = "tree") /\ (j # 0 => s.worker.pc = "thread")
  BY <1>2 DEF At
<1>3a. c = Abandoned(codex)
  OBVIOUS
<1> HIDE DEF n, c
<1>3b. /\ Shown(c) /\ c.threads = codex.threads /\ c.trees = codex.trees /\ c.turns = codex.turns
       /\ LateFrom(s, codex, s', c) /\ c \in CodexRec(n)
  BY <1>3a, GoodAbandoned DEF Shown, n, Latest
<1>4. /\ codex'.turns = codex.turns /\ codex'.trees = codex.trees + i
      /\ codex'.threads = codex.threads + j /\ codex.trees \in Nat /\ codex.threads \in Nat
      /\ codex.turns \in Seq(TurnRec) /\ codex'.late = c.late
  BY <1>2, <1>3b DEF CodexRec
<1>5. Shown(codex') /\ SameTurns(codex, codex')
  <2>1. NoCalls \in CallRec(n)
    BY <1>1 DEF NoCalls, CallRec
  <2> DEFINE I == InboxRec(n)
             T == TurnRec
             C == CallRec(n)
             K == NoCalls
             v == c.trees + i
             w == c.threads + j
  <2>2. <<>> \in Seq(I)
    OBVIOUS
  <2>3. c \in [threads : Nat, trees : Nat, turns : Seq(T), calls : C, late : SUBSET Nat, inbox : Seq(I)]
    BY <1>3b DEF CodexRec
  <2>4. /\ codex' = [c EXCEPT !.trees = v, !.threads = w, !.calls = K, !.inbox = <<>>]
        /\ K \in C /\ v \in Nat /\ w \in Nat
    BY <1>2, <1>3, <1>3b, <1>4, <2>1
  <2> HIDE DEF I, T, C, K, v, w
  <2>5. codex' \in [threads : Nat, trees : Nat, turns : Seq(T), calls : C, late : SUBSET Nat, inbox : Seq(I)]
    BY <2>2, <2>3, <2>4
  <2>6. codex' \in CodexRec(n)
    BY <2>5 DEF CodexRec, I, T, C
  <2> QED BY <1>4, <2>6 DEF Shown, SameTurns, n, Latest
<1>6. Sane(s, s', n) /\ s'.worker.pc = "none" /\ s'.follow.pc = "none"
  BY <1>1, ForgottenSane
<1>7. Created(s, codex)
  BY DEF IInv, Good
<1>8. Created(s', codex')
  <2>1. s'.managed = s.managed /\ s'.treeOp = s.treeOp /\ s'.threadOp = s.threadOp
    BY <1>6 DEF Sane, Calm, Still
  <2> QED BY <1>3, <1>4, <1>6, <1>7, <2>1 DEF Created
<1>9. Typed(s', n) /\ Steady(s, s')
  BY <1>6, CalmSteady DEF Sane
<1>10. LateFrom(s, codex, s', codex')
  BY <1>3b, <1>4 DEF LateFrom
<1> QED BY <1>1, <1>5, <1>6, <1>8, <1>9, <1>10, SteadyStep DEF n

\* The writes of a turn that starts.
Grown(c, prompt, k) ==
  [c EXCEPT !.turns = Append(@, [prompt |-> prompt, state |-> "active"]), !.calls = k,
            !.inbox = Append(@, [turn |-> Len(c.turns) + 1, what |-> "started"])]

\* d shows one turn more than c.
OneMore(c, d, prompt) ==
  /\ Len(d.turns) = Len(c.turns) + 1
  /\ \A i \in 1..Len(c.turns) : d.turns[i] = c.turns[i]
  /\ d.turns[Len(c.turns) + 1].prompt = prompt

LEMMA SeqMore ==
  ASSUME NEW S, NEW T, S \subseteq T, NEW q \in Seq(S)
  PROVE  q \in Seq(T)
OBVIOUS

LEMMA TurnGrown ==
  ASSUME NEW c, Shown(c), NEW prompt \in Nat, NEW k \in CallRec(Len(c.turns) + 1),
         NEW d, d = Grown(c, prompt, k)
  PROVE  /\ Shown(d) /\ d.calls = k /\ d.late = c.late /\ d.trees = c.trees /\ d.threads = c.threads
         /\ Len(c.turns) \in Nat /\ Len(d.turns) = Len(c.turns) + 1
         /\ OneMore(c, d, prompt)
<1> DEFINE n == Len(c.turns)
           t == [prompt |-> prompt, state |-> "active"]
           b == [turn |-> n + 1, what |-> "started"]
           T == TurnRec
           I == InboxRec(n)
           M == InboxRec(n + 1)
           C == CallRec(n)
           D == CallRec(n + 1)
<1>1. c \in [threads : Nat, trees : Nat, turns : Seq(T), calls : C, late : SUBSET Nat, inbox : Seq(I)]
  BY DEF Shown, CodexRec
<1>2. n \in Nat
  BY <1>1
<1>3. t \in T /\ t.prompt = prompt /\ b \in M /\ k \in D
  BY <1>2 DEF TurnRec, TurnState, InboxRec
<1>4. I \subseteq M
  BY <1>2 DEF InboxRec
<1>5. d = [c EXCEPT !.turns = Append(@, t), !.calls = k, !.inbox = Append(@, b)]
  BY DEF Grown
<1> HIDE DEF t, b, T, I, M, C, D
<1>6. c.inbox \in Seq(M) /\ c.turns \in Seq(T) /\ DOMAIN c = {"threads", "trees", "turns", "calls", "late", "inbox"}
  BY <1>1, <1>4, SeqMore
<1>7. Append(c.inbox, b) \in Seq(M) /\ Append(c.turns, t) \in Seq(T)
  BY <1>3, <1>6, Appended
<1>8. /\ d.late = c.late /\ d.turns = Append(c.turns, t) /\ d.calls = k /\ d.trees = c.trees /\ d.threads = c.threads
  BY <1>5, <1>6
<1>9. /\ Len(d.turns) = n + 1 /\ d.turns[n + 1] = t
      /\ \A i \in 1..n : d.turns[i] = c.turns[i]
  BY <1>2, <1>3, <1>6, <1>8
<1>10. d \in [threads : Nat, trees : Nat, turns : Seq(T), calls : D, late : SUBSET Nat, inbox : Seq(M)]
  BY <1>1, <1>3, <1>5, <1>7
<1>11. Shown(d)
  BY <1>9, <1>10 DEF Shown, CodexRec, T, D, M
<1> QED BY <1>2, <1>3, <1>8, <1>9, <1>11 DEF OneMore

LEMMA StartsGrown ==
  ASSUME NEW c, Shown(c), NEW d, Shown(d), NEW prompt \in Nat, OneMore(c, d, prompt)
  PROVE  /\ InTurns(d) = InTurns(c) \cup ({prompt} \ {0})
         /\ Range(Starts(c)) \subseteq InTurns(c)
         /\ prompt = 0 => Starts(d) = Starts(c)
         /\ prompt # 0 =>
              /\ Len(c.turns) + 1 \in DOMAIN Starts(d) \ DOMAIN Starts(c)
              /\ Starts(d) = Extended(Starts(c), Len(c.turns) + 1, prompt)
<1> DEFINE n == Len(c.turns)
           A == {i \in DOMAIN c.turns : c.turns[i].prompt # 0}
           B == {i \in DOMAIN d.turns : d.turns[i].prompt # 0}
<1>0. /\ Len(d.turns) = n + 1 /\ d.turns[n + 1].prompt = prompt
      /\ \A i \in 1..n : d.turns[i] = c.turns[i]
  BY DEF OneMore
<1>1. n \in Nat /\ DOMAIN c.turns = 1..n /\ DOMAIN d.turns = 1..(n + 1) /\ 1..(n + 1) = 1..n \cup {n + 1}
      /\ n + 1 \notin 1..n
  BY <1>0, TurnsOf
<1>2. /\ Starts(c) = [i \in A |-> c.turns[i].prompt] /\ Starts(d) = [i \in B |-> d.turns[i].prompt]
  BY DEF Starts
<1>3. DOMAIN Starts(c) = A /\ DOMAIN Starts(d) = B
  BY <1>2
<1>4. B = IF prompt = 0 THEN A ELSE A \cup {n + 1}
  BY <1>0, <1>1
<1>5. n + 1 \notin A /\ A \subseteq 1..n
  BY <1>1
<1>6. InTurns(d) = InTurns(c) \cup ({prompt} \ {0})
  <2>1. {d.turns[i].prompt : i \in DOMAIN d.turns} = {c.turns[i].prompt : i \in DOMAIN c.turns} \cup {prompt}
    BY <1>0, <1>1
  <2> QED BY <2>1 DEF InTurns
<1>7. Range(Starts(c)) \subseteq InTurns(c)
  BY <1>2, <1>3 DEF Range, InTurns
<1> HIDE DEF A, B
<1>8. \A i \in A : d.turns[i] = c.turns[i] /\ Starts(c)[i] = c.turns[i].prompt
  BY <1>0, <1>2, <1>5
<1>9. CASE prompt = 0
  <2>1. B = A
    BY <1>4, <1>9
  <2>2. Starts(d) = Starts(c)
    BY <1>2, <1>8, <2>1
  <2> QED BY <1>6, <1>7, <1>9, <2>2
<1>10. CASE prompt # 0
  <2>1. B = A \cup {n + 1}
    BY <1>4, <1>10
  <2> DEFINE f == [i \in A \cup {n + 1} |-> IF i = n + 1 THEN prompt ELSE Starts(c)[i]]
  <2>2. \A i \in B : d.turns[i].prompt = IF i = n + 1 THEN prompt ELSE Starts(c)[i]
    BY <1>0, <1>5, <1>8, <2>1
  <2>3. Starts(d) = f
    BY <1>2, <2>1, <2>2
  <2> QED BY <1>3, <1>5, <1>6, <1>7, <1>10, <2>1, <2>3 DEF Extended
<1> QED BY <1>9, <1>10

LEMMA CodexStartsStep ==
  ASSUME IInv, CodexStarts
  PROVE  Step
<1> DEFINE n == Latest
           p == left.prompts
<1>1. n \in Nat /\ Typed(s, n) /\ Shown(codex) /\ codex.calls \in CallRec(n) /\ left \in LeftRec
      /\ Ordered(s, p) /\ p \in Nat /\ Underway(s, codex) /\ Created(s, codex) /\ n = Len(codex.turns)
  BY Facts DEF IInv, Good, Latest
<1>2. PICK h \in {"worker", "follow"} :
        /\ s[h].pc = "turn" /\ codex.calls[h] = 0
        /\ codex' = [codex EXCEPT
             !.turns = Append(@, [prompt |-> s[h].prompt, state |-> "active"]),
             !.calls[h] = n + 1,
             !.inbox = Append(@, [turn |-> n + 1, what |-> "started"])]
  BY DEF CodexStarts
<1> DEFINE prompt == s[h].prompt
           k == [codex.calls EXCEPT ![h] = n + 1]
<1>3. UNCHANGED <<s, left>>
  BY DEF CodexStarts
<1>4. /\ prompt \in InJournal(s) /\ prompt \notin InTurns(codex) /\ prompt \notin codex.late
  BY <1>1, <1>2 DEF Underway
<1>5. prompt \in Nat /\ prompt > p /\ prompt # 0
  BY <1>1, <1>4, PromptNats DEF Ordered, Numbered
<1>6. k \in CallRec(n + 1) /\ k[h] = n + 1 /\ \A g \in {"worker", "follow"} : g # h => k[g] = codex.calls[g]
  <2> DEFINE C == codex.calls
  <2>1. C \in CallRec(n) /\ h \in {"worker", "follow"} /\ k = [C EXCEPT ![h] = n + 1]
        /\ C = codex.calls
    BY <1>1, <1>2
  <2>2. C \in CallRec(n + 1) /\ n + 1 \in 0..(n + 1)
    BY <1>1, <2>1 DEF CallRec
  <2>3. DOMAIN C = {"worker", "follow"}
    BY <2>1 DEF CallRec
  <2> HIDE DEF C, k, n
  <2>4. C.worker \in 0..(n + 1) /\ C.follow \in 0..(n + 1)
    BY <2>2 DEF CallRec
  <2>5. CASE h = "worker"
    <3>1. k = [worker |-> n + 1, follow |-> C.follow]
      BY <2>1, <2>2, <2>5 DEF CallRec
    <3>2. k \in CallRec(n + 1) /\ k.worker = n + 1 /\ k.follow = C.follow
      BY <2>2, <2>4, <3>1 DEF CallRec
    <3> QED BY <2>1, <2>5, <3>2
  <2>6. CASE h = "follow"
    <3>1. k = [worker |-> C.worker, follow |-> n + 1]
      BY <2>1, <2>2, <2>6 DEF CallRec
    <3>2. k \in CallRec(n + 1) /\ k.worker = C.worker /\ k.follow = n + 1
      BY <2>2, <2>4, <3>1 DEF CallRec
    <3> QED BY <2>1, <2>6, <3>2
  <2> QED BY <2>1, <2>5, <2>6
<1>7. codex' = Grown(codex, prompt, k)
  BY <1>1, <1>2 DEF Grown
<1>8. prompt = s[h].prompt
  OBVIOUS
<1> HIDE DEF n, p, prompt, k
<1>9. /\ Shown(codex') /\ codex'.calls = k /\ codex'.late = codex.late /\ codex'.trees = codex.trees
      /\ codex'.threads = codex.threads /\ Len(codex'.turns) = n + 1
      /\ OneMore(codex, codex', prompt)
  BY <1>1, <1>5, <1>6, <1>7, TurnGrown
<1>10. /\ InTurns(codex') = InTurns(codex) \cup {prompt}
       /\ Range(Starts(codex)) \subseteq InTurns(codex)
       /\ n + 1 \in DOMAIN Starts(codex') \ DOMAIN Starts(codex)
       /\ Starts(codex') = Extended(Starts(codex), n + 1, prompt)
  BY <1>1, <1>5, <1>9, StartsGrown
<1>11. Typed(s, n + 1)
  BY <1>1, TypedMore
<1>12. Underway(s, codex')
  <2>1. ASSUME NEW g \in {"worker", "follow"}, s[g].pc = "turn"
        PROVE  /\ s[g].prompt \in InJournal(s)
               /\ codex'.calls[g] = 0 => s[g].prompt \notin InTurns(codex') \cup codex'.late
    <3>1. s[g].prompt \in InJournal(s) /\ (codex.calls[g] = 0 => s[g].prompt \notin InTurns(codex) \cup codex.late)
      BY <1>1, <2>1 DEF Underway
    <3>2. CASE g = h
      BY <1>1, <1>6, <1>9, <3>1, <3>2
    <3>3. CASE g # h
      <4>1. codex'.calls[g] = codex.calls[g]
        BY <1>6, <1>9, <3>3
      <4>2. s.worker.pc = "turn" /\ s.follow.pc = "turn"
        BY <1>2, <2>1, <3>3
      <4>3. s.worker.prompt # s.follow.prompt
        BY <1>1, <4>2 DEF Ordered, First
      <4>4. s[g].prompt # prompt
        BY <1>8, <3>3, <4>3
      <4> QED BY <1>9, <1>10, <3>1, <4>1, <4>4
    <3> QED BY <3>2, <3>3
  <2>2. /\ InTurns(codex') \subseteq InJournal(s) /\ codex'.late \subseteq InJournal(s)
        /\ codex'.late \cap InTurns(codex') = {}
    BY <1>1, <1>4, <1>9, <1>10 DEF Underway
  <2> QED BY <2>1, <2>2 DEF Underway
<1>13. Created(s, codex')
  BY <1>1, <1>9 DEF Created
<1>14. IInv'
  BY <1>1, <1>3, <1>9, <1>11, <1>12, <1>13 DEF IInv, Good, p
<1>15. Moves(s, codex, s', codex')
  BY <1>3, <1>4, <1>10 DEF Moves
<1> QED BY <1>14, <1>15 DEF Step

\* ... also one that was given up.
LEMMA CodexStartsLateStep ==
  ASSUME IInv, CodexStartsLate
  PROVE  Step
<1> DEFINE n == Latest
           k == codex.calls
<1>1. n \in Nat /\ Typed(s, n) /\ Shown(codex) /\ k \in CallRec(n) /\ left \in LeftRec
      /\ Ordered(s, left.prompts) /\ left.prompts \in Nat /\ Underway(s, codex)
      /\ Created(s, codex) /\ n = Len(codex.turns)
  BY Facts DEF IInv, Good, Latest
<1>2. PICK prompt \in codex.late :
        codex' = [codex EXCEPT
          !.turns = Append(@, [prompt |-> prompt, state |-> "active"]),
          !.late = @ \ {prompt},
          !.inbox = Append(@, [turn |-> n + 1, what |-> "started"])]
  BY DEF CodexStartsLate
<1>3. UNCHANGED <<s, left>>
  BY DEF CodexStartsLate
<1> DEFINE g == Grown(codex, prompt, k)
           l == codex.late \ {prompt}
<1>4. codex' = [g EXCEPT !.late = l]
  BY <1>1, <1>2 DEF Grown, Shown, CodexRec
<1>5. prompt \in InJournal(s) /\ prompt \notin InTurns(codex)
  BY <1>1 DEF Underway
<1>6. prompt \in Nat /\ prompt # 0
  BY <1>1, <1>5, PromptNats DEF Ordered, Numbered
<1>7. k \in CallRec(n + 1) /\ g = Grown(codex, prompt, k) /\ l = codex.late \ {prompt}
  BY <1>1 DEF CallRec
<1> HIDE DEF n, g, l
<1>8. /\ Shown(g) /\ g.calls = k /\ g.trees = codex.trees
      /\ g.threads = codex.threads /\ g.late = codex.late /\ Len(g.turns) = n + 1
      /\ OneMore(codex, g, prompt)
  BY <1>1, <1>6, <1>7, TurnGrown
<1>9. l \subseteq Nat
  BY <1>1, <1>7 DEF Shown, CodexRec
<1>10. /\ codex'.turns = g.turns /\ codex'.calls = k /\ codex'.trees = codex.trees
       /\ codex'.threads = codex.threads /\ codex'.late = l
  BY <1>4, <1>8 DEF Shown, CodexRec
<1>11. Shown(codex')
  <2>1. codex' \in CodexRec(Len(g.turns))
    BY <1>4, <1>8, <1>9 DEF Shown, CodexRec
  <2> QED BY <1>10, <2>1 DEF Shown
<1>12. OneMore(codex, codex', prompt) /\ Len(codex'.turns) = n + 1
  BY <1>8, <1>10 DEF OneMore
<1>13. /\ InTurns(codex') = InTurns(codex) \cup {prompt}
       /\ Range(Starts(codex)) \subseteq InTurns(codex)
       /\ n + 1 \in DOMAIN Starts(codex') \ DOMAIN Starts(codex)
       /\ Starts(codex') = Extended(Starts(codex), n + 1, prompt)
  BY <1>1, <1>6, <1>11, <1>12, StartsGrown
<1>14. Typed(s, n + 1)
  BY <1>1, TypedMore
<1>15. Underway(s, codex')
  <2>1. ASSUME NEW h \in {"worker", "follow"}, s[h].pc = "turn"
        PROVE  /\ s[h].prompt \in InJournal(s)
               /\ codex'.calls[h] = 0 => s[h].prompt \notin InTurns(codex') \cup codex'.late
    BY <1>1, <1>7, <1>10, <1>13, <2>1 DEF Underway
  <2>2. /\ InTurns(codex') \subseteq InJournal(s) /\ codex'.late \subseteq InJournal(s)
        /\ codex'.late \cap InTurns(codex') = {}
    BY <1>1, <1>5, <1>7, <1>10, <1>13 DEF Underway
  <2> QED BY <2>1, <2>2 DEF Underway
<1>16. Created(s, codex')
  BY <1>1, <1>10 DEF Created
<1>17. IInv'
  BY <1>1, <1>3, <1>11, <1>12, <1>14, <1>15, <1>16 DEF IInv, Good
<1>18. Moves(s, codex, s', codex')
  BY <1>3, <1>5, <1>13 DEF Moves
<1> QED BY <1>17, <1>18 DEF Step

LEMMA NativeStep ==
  ASSUME IInv, Native
  PROVE  Step
<1> DEFINE n == Latest
           k == codex.calls
<1>1. n \in Nat /\ Typed(s, n) /\ Shown(codex) /\ k \in CallRec(n) /\ left \in LeftRec
      /\ Ordered(s, left.prompts) /\ Underway(s, codex) /\ Created(s, codex) /\ n = Len(codex.turns)
  BY Facts DEF IInv, Good, Latest
<1>2. Spent /\ left'.prompts = left.prompts
  BY <1>1, LeftStep DEF Native, Spent, LeftRec
<1>3. codex' = Grown(codex, 0, k) /\ s' = s
  BY <1>1 DEF Native, Grown, Shown, CodexRec
<1>4. k \in CallRec(n + 1)
  BY <1>1 DEF CallRec
<1> HIDE DEF n
<1>5. /\ Shown(codex') /\ codex'.calls = k /\ codex'.late = codex.late /\ codex'.trees = codex.trees
      /\ codex'.threads = codex.threads /\ Len(codex'.turns) = n + 1
      /\ OneMore(codex, codex', 0)
  BY <1>1, <1>3, <1>4, TurnGrown
<1>6. InTurns(codex') = InTurns(codex) /\ Starts(codex') = Starts(codex)
  <2>1. InTurns(codex') = InTurns(codex) \cup ({0} \ {0}) /\ Starts(codex') = Starts(codex)
    BY <1>1, <1>5, StartsGrown
  <2> QED BY <2>1
<1>7. Typed(s, n + 1)
  BY <1>1, TypedMore
<1>8. Underway(s, codex') /\ Created(s, codex')
  BY <1>1, <1>5, <1>6 DEF Underway, Created
<1>9. IInv'
  BY <1>1, <1>2, <1>3, <1>5, <1>7, <1>8 DEF IInv, Good, Spent
<1> QED BY <1>3, <1>6, <1>9 DEF Step, Moves

-----------------------------------------------------------------------------
(* The theorems.                                                            *)

LEMMA InitGood ==
  ASSUME Init
  PROVE  IInv
<1>1. /\ left \in LeftRec /\ left.prompts \in Nat /\ left.managed \in BOOLEAN
  BY ExecutionAssumption DEF Init, LeftRec
<1>2. /\ codex = [threads |-> 0, trees |-> 0, turns |-> <<>>, calls |-> NoCalls, late |-> {}, inbox |-> <<>>]
  BY DEF Init
<1>3. Len(codex.turns) = 0 /\ codex.turns = <<>> /\ DOMAIN codex.turns = {}
      /\ codex.trees = 0 /\ codex.threads = 0 /\ codex.late = {}
  BY <1>2
<1>4. Shown(codex)
  <2>1. NoCalls \in CallRec(0)
    BY DEF NoCalls, CallRec
  <2>2. codex \in CodexRec(0)
    <3> DEFINE C == CallRec(0)
               K == NoCalls
               T == TurnRec
               I == InboxRec(0)
    <3>1. K \in C /\ codex = [threads |-> 0, trees |-> 0, turns |-> <<>>, calls |-> K, late |-> {}, inbox |-> <<>>]
      BY <1>2, <2>1
    <3> HIDE DEF C, K, T, I
    <3>2. codex \in [threads : Nat, trees : Nat, turns : Seq(T), calls : C, late : SUBSET Nat, inbox : Seq(I)]
      BY <3>1
    <3> QED BY <3>2 DEF C, T, I, CodexRec
  <2> QED BY <1>3, <2>2 DEF Shown
<1> DEFINE K == [status |-> "todo", run |-> "none", paused |-> FALSE,
                 conflict |-> FALSE, observe |-> FALSE, uncertain |-> 0,
                 thread |-> FALSE, tree |-> FALSE]
           Q == [state |-> "none", prompt |-> 0]
           W == NoWorker
           F == NoFollow
           P == NoStop
           L == NoLoop
           M == left.managed
<1>5. /\ K \in TaskRec /\ Q \in QueueRec /\ W \in WorkerRec(0) /\ F \in FollowRec /\ P \in StopRec
      /\ L \in LoopRec(0) /\ M \in BOOLEAN /\ K.uncertain = 0 /\ W.op = 0 /\ F.op = 0
      /\ ~K.thread /\ K.run = "none" /\ Q.state = "none"
      /\ W.pc = "none" /\ F.pc = "none" /\ P.pc = "none"
  BY <1>1 DEF TaskRec, QueueRec, WorkerRec, FollowRec, StopRec, LoopRec, Without,
              NoWorker, NoFollow, NoStop, NoLoop
<1>6. s = [managed |-> M, task |-> K, queue |-> Q, lease |-> FALSE, ops |-> <<>>,
           threadOp |-> "none", treeOp |-> "none", runs |-> <<>>, turn |-> 0,
           starting |-> FALSE, override |-> FALSE, worker |-> W, follow |-> F, stop |-> P,
           loop |-> L, ended |-> {}, limits |-> {}]
  BY DEF Init
<1> HIDE DEF K, Q, W, F, P, L, M
<1>7. s \in States(0)
  <2> DEFINE O == OpRec
             R == RunRec
             D == TaskRec
             E == QueueRec
             A == WorkerRec(0)
             B == FollowRec
             G == StopRec
             H == LoopRec(0)
             N == LimitRec(0)
  <2>1. /\ K \in D /\ Q \in E /\ W \in A /\ F \in B /\ P \in G /\ L \in H /\ M \in BOOLEAN
        /\ 0 \in 0..0 /\ "none" \in Creation /\ FALSE \in BOOLEAN
        /\ <<>> \in Seq(O) /\ <<>> \in Seq(R) /\ {} \in SUBSET (0..0) /\ {} \in SUBSET N
    BY <1>5 DEF Creation
  <2>2. States(0) =
          [managed : BOOLEAN, task : D, queue : E, lease : BOOLEAN, ops : Seq(O),
           threadOp : Creation, treeOp : Creation, runs : Seq(R), turn : 0..0,
           starting : BOOLEAN, override : BOOLEAN, worker : A, follow : B,
           stop : G, loop : H, ended : SUBSET (0..0), limits : SUBSET N]
    BY DEF States
  <2> HIDE DEF O, R, D, E, A, B, G, H, N
  <2> QED BY <1>6, <2>1, <2>2
<1>8. /\ s.ops = <<>> /\ s.task = K /\ s.queue = Q /\ s.worker = W /\ s.follow = F /\ s.stop = P
      /\ s.treeOp = "none" /\ s.threadOp = "none"
  BY <1>6
<1>9. Typed(s, 0)
  BY <1>5, <1>7, <1>8 DEF Typed
<1>10. InJournal(s) = {} /\ InTurns(codex) = {}
  BY <1>3, <1>8 DEF InJournal, InTurns
<1>11. Ordered(s, left.prompts)
  BY <1>5, <1>8, <1>10 DEF Ordered, Numbered, First, Ready, Threadless, Before
<1>12. Underway(s, codex) /\ Created(s, codex)
  BY <1>3, <1>5, <1>8, <1>10 DEF Underway, Created
<1> QED BY <1>1, <1>3, <1>4, <1>9, <1>11, <1>12 DEF IInv, Good

LEMMA StutterStep ==
  ASSUME IInv, UNCHANGED vars
  PROVE  Step
<1>1. UNCHANGED s /\ UNCHANGED codex /\ UNCHANGED left
  BY DEF vars
<1>2. IInv'
  BY <1>1 DEF IInv, Good
<1> QED BY <1>1, <1>2 DEF Step, Moves

\* One line per action of Next.
LEMMA NextStep ==
  ASSUME IInv, [Next]_vars
  PROVE  Step
<1>1. ASSUME Users
      PROVE  Step
  BY <1>1, RunStep, ResumeStep, FollowUpStep, AttachStep, StopStep DEF Users
<1>2. ASSUME Worker
      PROVE  Step
  BY <1>2, BeginStep, TreeCreatedStep, ThreadCreatedStep, ResumedStep, SubmitStepWorker,
     TurnStartedStep, TurnEndedStep, QuotaWaitStep, FollowUpSubmitStep, FollowUpStartedStep,
     StopAskStep, StopCheckStep, StopApplyStep DEF Worker
<1>3. ASSUME Loop
      PROVE  Step
  BY <1>3, DispatchStep, SyncReadStep, SyncApplyStep, ReconcileStep, RecoverStep DEF Loop
<1>4. ASSUME Trouble
      PROVE  Step
  BY <1>4, TreeLostStep, ThreadLostStep, NotReadiedStep, TurnRefusedStep, TurnLostStep,
     FollowUpNotStartedStep, MissedStep, CrashStep DEF Trouble
<1>5. ASSUME Desktop
      PROVE  Step
  BY <1>5, CodexStartsStep, CodexStartsLateStep, NativeStep, CodexEndsStep, NotifiedStep DEF Desktop
<1> QED BY <1>1, <1>2, <1>3, <1>4, <1>5, StutterStep DEF Next

LEMMA Invariant == Spec => []IInv
<1>1. Init => IInv
  BY InitGood
<1>2. IInv /\ [Next]_vars => IInv'
  BY NextStep DEF Step
<1> QED BY <1>1, <1>2, PTL DEF Spec

LEMMA IInvTypeOK ==
  ASSUME IInv
  PROVE  TypeOK
<1> DEFINE n == Latest
<1>1. Typed(s, n) /\ n \in Nat
  BY Facts
<1>2. /\ s.task \in TaskRec /\ s.queue \in QueueRec /\ s.ops \in Seq(OpRec)
      /\ s.worker \in WorkerRec(n) /\ s.follow \in FollowRec /\ s.stop \in StopRec
      /\ s.loop \in LoopRec(n) /\ s.treeOp \in Creation /\ s.threadOp \in Creation /\ s.turn \in 0..n
      /\ s.task.uncertain <= Len(s.ops)
  BY <1>1 DEF Typed, States
<1>3. \A i \in DOMAIN s.ops : s.ops[i].state \in {"uncertain", "agent_running", "blocked", "completed"}
  <2> DEFINE S == OpRec
             q == s.ops
  <2>1. q \in Seq(S)
    BY <1>2
  <2>2. \A i \in DOMAIN q : q[i] \in S
    <3> HIDE DEF S, q
    <3> QED BY <2>1
  <2> QED BY <2>2 DEF OpRec
<1>4. s.task.uncertain \in 0..Len(s.ops)
  <2>1. Len(s.ops) \in Nat
    BY <1>2
  <2> QED BY <1>2, <2>1 DEF TaskRec
<1> HIDE DEF n
<1>5. /\ s.task.status \in {"todo", "in_progress", "in_review", "canceled"}
      /\ s.task.run \in {"none", "starting", "running", "waiting_quota", "failed"}
      /\ s.queue \in [state : {"none", "pending", "claimed", "done"}, prompt : Nat]
  BY <1>2 DEF TaskRec, QueueRec
<1>6. /\ s.worker.pc \in {"none", "begin", "tree", "thread", "resume", "options", "turn",
                          "wait", "limits"}
      /\ s.loop.pc \in {"idle", "sync", "limits", "reconcile", "recover"}
      /\ s.follow.pc \in {"none", "options", "turn"}
      /\ s.stop.pc \in {"none", "ask", "check", "apply"}
  BY <1>2 DEF WorkerRec, FollowRec, StopRec, LoopRec, Before, Without
<1> QED BY <1>2, <1>3, <1>4, <1>5, <1>6 DEF TypeOK, Creation, n

\* The rows, the memory and the coroutines of a task have their types.
THEOREM Typing == Spec => []TypeOK
<1>1. IInv => TypeOK
  BY IInvTypeOK
<1> QED BY <1>1, Invariant, PTL

\* One worktree and one thread are made for a managed task, whatever answers are
\* lost and however often the process is restarted and the task is tried again.
THEOREM CreatedAtMostOnce == Spec => []CreatedOnce
<1>1. IInv => CreatedOnce
  BY DEF IInv, Good, Created, CreatedOnce
<1> QED BY <1>1, Invariant, PTL

LEMMA JournalInit ==
  ASSUME Init
  PROVE  J!Init
<1>1. codex.turns = <<>> /\ s.ops = <<>>
  BY DEF Init
<1>2. Own = {}
  BY <1>1 DEF Own
<1> QED BY <1>1, <1>2 DEF J!Init

LEMMA JournalStep ==
  ASSUME IInv, [Next]_vars
  PROVE  [J!Next]_<<{s.ops[i].prompt : i \in DOMAIN s.ops}, [i \in Own |-> codex.turns[i].prompt]>>
<1> DEFINE a == {s.ops[i].prompt : i \in DOMAIN s.ops}
           b == [i \in Own |-> codex.turns[i].prompt]
<1>1. Moves(s, codex, s', codex')
  BY NextStep DEF Step
<1>2. /\ InJournal(s) = a /\ InJournal(s') = a'
      /\ Starts(codex) = b /\ Starts(codex') = b'
  BY DEF InJournal, Starts, Own
<1>3. CASE InJournal(s') = InJournal(s) /\ Starts(codex') = Starts(codex)
  BY <1>2, <1>3
<1>4. CASE \E r \in InJournal(s') : InJournal(s') = InJournal(s) \cup {r} /\ Starts(codex') = Starts(codex)
  <2>1. PICK r \in a' : a' = a \cup {r} /\ b' = b
    BY <1>2, <1>4
  <2>2. J!Record(r)
    BY <2>1 DEF J!Record
  <2> QED BY <2>1, <2>2 DEF J!Next
<1>5. ASSUME InJournal(s') = InJournal(s), NEW r \in InJournal(s), r \notin Range(Starts(codex)),
             NEW turn \in DOMAIN Starts(codex') \ DOMAIN Starts(codex),
             Starts(codex') = Extended(Starts(codex), turn, r)
      PROVE  J!Next
  <2>1. a' = a /\ r \in a /\ r \notin Range(b) /\ turn \in DOMAIN b' \ DOMAIN b
        /\ b' = Extended(b, turn, r)
    BY <1>2, <1>5
  <2>2. r \in a \ J!Range(b)
    BY <2>1 DEF J!Range, Range
  <2>3. b' = [i \in DOMAIN b \cup {turn} |-> IF i = turn THEN r ELSE b[i]]
    BY <2>1 DEF Extended
  <2>4. J!Start(r)
    BY <2>1, <2>2, <2>3, Zenon DEF J!Start
  <2> QED BY <2>1, <2>4 DEF J!Next
<1> QED BY <1>1, <1>3, <1>4, <1>5 DEF Moves

\* A prompt is in the journal before its turn starts, and starts one turn at most.
THEOREM Journaled == Spec => JournalSpec
<1>1. Init => J!Init
  BY JournalInit
<1>2. IInv /\ [Next]_vars =>
        [J!Next]_<<{s.ops[i].prompt : i \in DOMAIN s.ops}, [i \in Own |-> codex.turns[i].prompt]>>
  BY JournalStep
<1> QED BY <1>1, <1>2, Invariant, PTL DEF Spec, JournalSpec, J!Spec

-----------------------------------------------------------------------------
(* What is written of the row, the lease, the journal and the runs.          *)

\* An entry of the journal whose start is known, or was settled by a pause.
Closed(o) == o.turn # 0 \/ o.state = "blocked"
\* What has no turn is uncertain, or settled.
Filed(o) == o.turn = 0 => o.state \in {"uncertain", "blocked"}

\* Entries stay closed and filed.
Closing(x, y) ==
  /\ SamePrompts(x, y)
  /\ \A i \in 1..Len(x.ops) : /\ Closed(x.ops[i]) => Closed(y.ops[i])
                              /\ Filed(x.ops[i]) => Filed(y.ops[i])

\* The turns that have a run, and that of the latest run.
Turned(x) == {x.runs[j].turn : j \in DOMAIN x.runs}
RunsKept(x, y) ==
  \/ Turned(y) = Turned(x) /\ LastRun(y).turn = LastRun(x).turn
  \/ x.runs = <<>> /\ Turned(y) = {x.turn} /\ LastRun(y).turn = x.turn

\* The handlers of results and of observed turns.
Observing == {"task", "queue", "lease", "ops", "runs", "turn", "limits"}
Unqueued(x, y) == y.queue.state = "pending" => x.queue.state = "pending"
Mild(x, y) ==
  Beside(x, y, Observing) /\ y.task.paused = x.task.paused /\ Closing(x, y) /\ Unqueued(x, y)

TaskFields == {"status", "run", "paused", "conflict", "observe", "uncertain", "thread", "tree"}
RowBut(k, l, F) == \A f \in TaskFields \ F : l[f] = k[f]

\* Nothing stops a handler from writing the result of a running task.
Open(x) == ~x.override /\ x.task.status = "in_progress"

LEMMA MildThrough ==
  ASSUME NEW x, NEW y, NEW z, Mild(x, y), Mild(y, z)
  PROVE  Mild(x, z)
<1>1. Closing(x, z)
  BY DEF Mild, Closing, SamePrompts
<1>2. Beside(x, z, Observing)
  BY DEF Mild, Beside
<1> QED BY <1>1, <1>2 DEF Mild, Unqueued

\* The journal is left alone.
LEMMA MildRow ==
  ASSUME NEW n, NEW x, Typed(x, n), NEW y, Beside(x, y, Observing \ {"ops"}), y.task.paused = x.task.paused,
         Unqueued(x, y)
  PROVE  Mild(x, y)
<1>1. y.ops = x.ops
  BY DEF Beside, Fields, Observing
<1>2. Closing(x, y)
  BY <1>1 DEF Closing, SamePrompts
<1> QED BY <1>2 DEF Mild, Beside

LEMMA MildSame ==
  ASSUME NEW n, NEW x, Typed(x, n)
  PROVE  Mild(x, x)
<1>1. DOMAIN x = Fields
  BY DEF Typed, States, Fields
<1> QED BY <1>1, MildRow DEF Beside, Unqueued

LEMMA RunTurns ==
  ASSUME NEW n, NEW x, Typed(x, n), x.runs # <<>>
  PROVE  /\ x.runs \in Seq(RunRec) /\ Len(x.runs) \in Nat \ {0} /\ DOMAIN x.runs = 1..Len(x.runs)
         /\ Last(x.runs) = x.runs[Len(x.runs)] /\ Last(x.runs) \in RunRec
         /\ LastRun(x) = Last(x.runs) /\ LastRun(x).turn \in Turned(x)
<1> DEFINE q == x.runs
           S == RunRec
<1>1. q \in Seq(S) /\ q # <<>>
  BY DEF Typed, States
<1>2. Len(q) \in Nat \ {0} /\ DOMAIN q = 1..Len(q) /\ Last(q) = q[Len(q)] /\ Last(q) \in S
  <2> HIDE DEF q, S
  <2>1. Last(q) \in S
    BY <1>1, LastIn
  <2> QED BY <1>1, <2>1 DEF Last
<1> QED BY <1>1, <1>2 DEF LastRun, Turned

LEMMA LastWrittenIs ==
  ASSUME NEW S, NEW q \in Seq(S), q # <<>>, NEW e
  PROVE  LET r == Front(q) \o <<e>> IN
         /\ Len(r) = Len(q) /\ r # <<>> /\ DOMAIN r = 1..Len(q) /\ Last(r) = e
         /\ \A j \in 1..Len(q) : r[j] = IF j = Len(q) THEN e ELSE q[j]
<1> DEFINE f == Front(q)
           T == S \cup {e}
           r == f \o <<e>>
<1>1. Len(q) \in Nat \ {0} /\ f = SubSeq(q, 1, Len(q) - 1)
  BY DEF Front
<1>2. f \in Seq(S) /\ Len(f) = Len(q) - 1 /\ \A j \in 1..(Len(q) - 1) : f[j] = q[j]
  <2> DEFINE m == Len(q) - 1
  <2>1. m \in Nat /\ m <= Len(q) /\ f = SubSeq(q, 1, m)
    BY <1>1
  <2> HIDE DEF m, f
  <2>2. f \in Seq(S)
    BY <2>1
  <2>3. Len(f) = m
    BY <2>1
  <2>4. \A j \in 1..m : f[j] = q[j]
    BY <2>1
  <2> QED BY <2>2, <2>3, <2>4 DEF m
<1>3. f \in Seq(T) /\ <<e>> \in Seq(T)
  BY <1>2
<1> HIDE DEF f, T
<1>4. r \in Seq(T) /\ Len(r) = Len(q) /\ \A j \in 1..Len(r) : r[j] = IF j <= Len(f) THEN f[j] ELSE <<e>>[j - Len(f)]
  BY <1>1, <1>2, <1>3
<1>5. r # <<>> /\ DOMAIN r = 1..Len(q)
  BY <1>1, <1>4
<1>6. \A j \in 1..Len(q) : r[j] = IF j = Len(q) THEN e ELSE q[j]
  BY <1>1, <1>2, <1>4
<1>7. Last(r) = e
  BY <1>1, <1>4, <1>6 DEF Last
<1> QED BY <1>4, <1>5, <1>6, <1>7 DEF f

LEMMA UpdatedIs ==
  ASSUME NEW n, NEW x, Typed(x, n), NEW state, NEW y, y = Updated(x, state)
  PROVE  /\ Beside(x, y, {"runs"})
         /\ Turned(y) = Turned(x) /\ LastRun(y).turn = LastRun(x).turn
<1>1. DOMAIN x = Fields
  BY DEF Typed, States, Fields
<1>2. CASE x.runs = <<>>
  <2>1. y.runs = x.runs /\ Beside(x, y, {"runs"})
    BY <1>1, <1>2 DEF Updated, Beside, Fields
  <2> QED BY <2>1 DEF Turned, LastRun
<1>3. CASE x.runs # <<>>
  <2> DEFINE q == x.runs
             e == [Last(q) EXCEPT !.state = state]
             r == Front(q) \o <<e>>
  <2>1. y.runs = r /\ Beside(x, y, {"runs"})
    BY <1>1, <1>3 DEF Updated, Beside, Fields
  <2>2. q \in Seq(RunRec) /\ q # <<>> /\ Last(q) = q[Len(q)] /\ Last(q) \in RunRec /\ LastRun(x) = Last(q)
        /\ Len(q) \in Nat \ {0} /\ DOMAIN q = 1..Len(q)
    BY <1>3, RunTurns
  <2>3. e.turn = Last(q).turn
    BY <2>2 DEF RunRec
  <2>4. /\ r # <<>> /\ DOMAIN r = 1..Len(q) /\ Last(r) = e
        /\ \A j \in 1..Len(q) : r[j] = IF j = Len(q) THEN e ELSE q[j]
    <3> HIDE DEF q, e
    <3> QED BY <2>2, LastWrittenIs
  <2> HIDE DEF q, e, r
  <2>5. \A j \in 1..Len(q) : r[j].turn = q[j].turn
    BY <2>2, <2>3, <2>4
  <2>6. Turned(y) = Turned(x)
    BY <2>1, <2>2, <2>4, <2>5 DEF Turned, q
  <2>7. LastRun(y) = e
    BY <2>1, <2>4 DEF LastRun
  <2> QED BY <2>1, <2>2, <2>3, <2>6, <2>7
<1> QED BY <1>2, <1>3

LEMMA ConcludedIs ==
  ASSUME NEW n, NEW x, Typed(x, n), NEW state, NEW y, y = Concluded(x, state)
  PROVE  Beside(x, y, {"runs"}) /\ RunsKept(x, y)
<1>1. CASE x.runs # <<>>
  BY <1>1, UpdatedIs DEF Concluded, RunsKept
<1>2. CASE x.runs = <<>>
  <2>1. DOMAIN x = Fields
    BY DEF Typed, States, Fields
  <2>2. y.runs = <<[turn |-> x.turn, state |-> state]>> /\ Beside(x, y, {"runs"})
    BY <1>2, <2>1 DEF Concluded, Beside, Fields
  <2>3. y.runs # <<>> /\ DOMAIN y.runs = {1} /\ y.runs[1].turn = x.turn /\ Last(y.runs) = y.runs[1]
    BY <2>2 DEF Last
  <2> QED BY <1>2, <2>2, <2>3 DEF RunsKept, Turned, LastRun
<1> QED BY <1>1, <1>2

LEMMA FinishedIs ==
  ASSUME NEW n, NEW x, Typed(x, n), NEW y, y = Finished(x)
  PROVE  Beside(x, y, {"queue"}) /\ y.queue.state # "pending" /\ y.queue.prompt = x.queue.prompt
<1>1. DOMAIN x = Fields /\ x.queue \in QueueRec
  BY DEF Typed, States, Fields
<1> QED BY <1>1 DEF Beside, Fields, Finished, QueueRec

LEMMA GiveBackIs ==
  ASSUME NEW n, NEW x, Typed(x, n), NEW y, y = GiveBack(x)
  PROVE  Beside(x, y, {"queue", "lease"}) /\ y.queue.state # "pending" /\ ~y.lease
<1>1. DOMAIN x = Fields /\ x.queue \in QueueRec
  BY DEF Typed, States, Fields
<1> QED BY <1>1 DEF Beside, Fields, Finished, GiveBack, QueueRec

LEMMA MovedIs ==
  ASSUME NEW n, NEW x, Typed(x, n), NEW status, NEW run, NEW y, y = Moved(x, status, run)
  PROVE  /\ Beside(x, y, {"task", "queue", "lease"})
         /\ y.task.status = status /\ y.task.run = run /\ RowBut(x.task, y.task, {"status", "run"})
         /\ status # "in_progress" => y.queue.state # "pending" /\ ~y.lease
         /\ status = "in_progress" => y.queue = x.queue /\ y.lease = x.lease
<1>1. DOMAIN x = Fields /\ x.queue \in QueueRec /\ x.task \in TaskRec
  BY DEF Typed, States, Fields
<1> QED BY <1>1 DEF Beside, Fields, Finished, GiveBack, QueueRec, Moved, TaskRec, RowBut, TaskFields

LEMMA FailedIs ==
  ASSUME NEW n \in Nat, NEW x, Typed(x, n), NEW uncertain \in BOOLEAN, NEW y, y = Failed(x, uncertain)
  PROVE  /\ ~Open(x) => y = x
         /\ Open(x) => /\ Beside(x, y, {"task", "queue", "lease", "runs"}) /\ RunsKept(x, y)
                       /\ RowBut(x.task, y.task, {"run", "conflict", "observe"})
                       /\ y.task.run = "failed" /\ y.task.conflict = (x.task.conflict \/ uncertain)
                       /\ y.lease = (x.lease /\ uncertain) /\ y.queue.state # "pending"
<1>1. CASE ~Open(x)
  BY <1>1 DEF Failed, Open
<1>2. CASE Open(x)
  <2> DEFINE k == [x.task EXCEPT !.run = "failed", !.conflict = @ \/ uncertain,
                                 !.observe = @ \/ uncertain]
             b == x.lease /\ uncertain
             z == [x EXCEPT !.task = k, !.lease = b]
             w == Concluded(z, "failed")
  <2>1. DOMAIN x = Fields /\ x.task \in TaskRec /\ x.lease \in BOOLEAN
    BY DEF Typed, States, Fields
  <2>2. y = Finished(w)
    BY <1>2, <2>1 DEF Failed, TaskRec, Fields, Open
  <2>3. Typed(z, n) /\ z.task = k /\ z.lease = b /\ Beside(x, z, {"task", "lease"})
    <3>1. k \in TaskRec /\ k.thread = x.task.thread /\ k.uncertain = x.task.uncertain /\ k.run = "failed"
      BY <2>1 DEF TaskRec
    <3>2. k.uncertain <= Len(x.ops)
      BY <3>1 DEF Typed
    <3>3. k.run = "starting" => Keeps(x, k)
      BY <3>1
    <3>4. z = Rewritten(x, k, b) /\ b \in BOOLEAN
      BY <2>1 DEF Rewritten
    <3> HIDE DEF z, k, b
    <3> QED BY <3>1, <3>2, <3>3, <3>4, Written
  <2>9. RowBut(x.task, k, {"run", "conflict", "observe"}) /\ k.run = "failed"
        /\ k.conflict = (x.task.conflict \/ uncertain)
    BY <2>1 DEF TaskRec, RowBut, TaskFields
  <2> HIDE DEF z, k, b
  <2>4. Beside(z, w, {"runs"}) /\ RunsKept(z, w) /\ Typed(w, n)
    <3>1. "failed" \in RunState
      BY DEF RunState
    <3> QED BY <2>3, <3>1, ConcludedIs, ConcludedSane DEF Sane
  <2> HIDE DEF w
  <2>5. Beside(w, y, {"queue"}) /\ y.queue.state # "pending"
    BY <2>2, <2>4, FinishedIs
  <2>6. y.runs = w.runs /\ z.runs = x.runs /\ z.turn = x.turn
    BY <2>3, <2>5 DEF Beside, Fields
  <2>7. RunsKept(x, y)
    BY <2>4, <2>6 DEF RunsKept, Turned, LastRun
  <2>8. Beside(x, y, {"task", "queue", "lease", "runs"}) /\ y.task = k /\ y.lease = b
    BY <2>3, <2>4, <2>5 DEF Beside, Fields
  <2> QED BY <1>2, <2>5, <2>7, <2>8, <2>9 DEF b
<1> QED BY <1>1, <1>2

LEMMA FailedMild ==
  ASSUME NEW n \in Nat, NEW x, Typed(x, n), NEW uncertain \in BOOLEAN, NEW y, y = Failed(x, uncertain)
  PROVE  Mild(x, y)
<1>1. CASE ~Open(x)
  <2>1. y = x
    BY <1>1, FailedIs
  <2> QED BY <2>1, MildSame
<1>2. CASE Open(x)
  <2>2. Beside(x, y, {"task", "queue", "lease", "runs"}) /\ y.task.paused = x.task.paused
        /\ y.queue.state # "pending"
    BY <1>2, FailedIs DEF RowBut, TaskFields
  <2> QED BY <2>2, MildRow DEF Beside, Observing, Unqueued, Fields
<1> QED BY <1>1, <1>2

\* A result accepted or not.
LEMMA SettledIs ==
  ASSUME NEW n \in Nat, NEW x, Typed(x, n), Open(x), NEW accepted,
         NEW y, y = Settled(x, accepted)
  PROVE  /\ Beside(x, y, {"task", "queue", "lease", "runs"}) /\ RunsKept(x, y)
         /\ y.queue.state # "pending" /\ ~y.lease
         /\ RowBut(x.task, y.task, {"run", "status", "conflict", "observe"})
         /\ y.task.conflict = x.task.conflict
         /\ \/ y.task.status = "in_progress" /\ y.task.run = "failed"
            \/ y.task.status = "in_review" /\ y.task.run = "none"
<1>1. CASE x.managed /\ ~accepted
  <2> DEFINE z == GiveBack(x)
  <2>1. z = GiveBack(x) /\ y = Failed(z, FALSE)
    BY <1>1 DEF Settled
  <2> HIDE DEF z
  <2>2. Beside(x, z, {"queue", "lease"}) /\ ~z.lease /\ Typed(z, n)
    BY <2>1, GiveBackIs, GiveBackSane DEF Sane
  <2>3. Open(z) /\ z.task = x.task /\ z.runs = x.runs /\ z.turn = x.turn /\ x.task.conflict \in BOOLEAN
    BY <2>2 DEF Beside, Fields, Typed, States, TaskRec, Open
  <2>4. /\ Beside(z, y, {"task", "queue", "lease", "runs"}) /\ y.queue.state # "pending" /\ ~y.lease
        /\ RowBut(z.task, y.task, {"run", "conflict", "observe"}) /\ y.task.run = "failed"
        /\ y.task.conflict = (z.task.conflict \/ FALSE) /\ RunsKept(z, y)
    <3> DEFINE u == FALSE
    <3>1. u \in BOOLEAN /\ y = Failed(z, u)
      BY <2>1
    <3> HIDE DEF u
    <3>2. /\ Beside(z, y, {"task", "queue", "lease", "runs"}) /\ RunsKept(z, y)
          /\ RowBut(z.task, y.task, {"run", "conflict", "observe"}) /\ y.task.run = "failed"
          /\ y.task.conflict = (z.task.conflict \/ u)
          /\ y.lease = (z.lease /\ u) /\ y.queue.state # "pending"
      BY <3>1, <2>2, <2>3, FailedIs
    <3> QED BY <3>2 DEF u
  <2>5. y.task.status = "in_progress" /\ RowBut(x.task, y.task, {"run", "status", "conflict", "observe"})
        /\ y.task.conflict = x.task.conflict
    BY <2>3, <2>4 DEF RowBut, TaskFields, Open
  <2>6. Beside(x, y, {"task", "queue", "lease", "runs"})
    BY <2>2, <2>4 DEF Beside
  <2>7. RunsKept(x, y)
    BY <2>3, <2>4 DEF RunsKept, Turned, LastRun
  <2> QED BY <2>4, <2>5, <2>6, <2>7
<1>2. CASE ~(x.managed /\ ~accepted)
  <2> DEFINE z == Moved(x, "in_review", "none")
  <2>1. z = Moved(x, "in_review", "none") /\ y = Updated(z, "completed")
    BY <1>2 DEF Settled
  <2> HIDE DEF z
  <2>2. /\ Beside(x, z, {"task", "queue", "lease"}) /\ z.queue.state # "pending" /\ ~z.lease
        /\ z.task.status = "in_review" /\ z.task.run = "none" /\ RowBut(x.task, z.task, {"status", "run"})
    BY <2>1, MovedIs
  <2>3. Typed(z, n)
    BY <2>1, MovedSane DEF Sane
  <2>4. Beside(z, y, {"runs"}) /\ Turned(y) = Turned(z) /\ LastRun(y).turn = LastRun(z).turn
    BY <2>1, <2>3, UpdatedIs
  <2>5. z.runs = x.runs
    BY <2>2 DEF Beside, Fields
  <2>6. RunsKept(x, y)
    BY <2>4, <2>5 DEF RunsKept, Turned, LastRun
  <2>7. y.task = z.task /\ y.queue = z.queue /\ y.lease = z.lease
    BY <2>4 DEF Beside, Fields
  <2>8. Beside(x, y, {"task", "queue", "lease", "runs"})
    BY <2>2, <2>4 DEF Beside
  <2>9. /\ RowBut(x.task, y.task, {"run", "status", "conflict", "observe"})
        /\ y.task.conflict = x.task.conflict
    BY <2>2, <2>7 DEF RowBut, TaskFields
  <2> QED BY <2>2, <2>6, <2>7, <2>8, <2>9
<1> QED BY <1>1, <1>2

LEMMA OpsOf ==
  ASSUME NEW n, NEW x, Typed(x, n)
  PROVE  /\ x.ops \in Seq(OpRec) /\ Len(x.ops) \in Nat /\ DOMAIN x.ops = 1..Len(x.ops)
         /\ \A i \in 1..Len(x.ops) : /\ x.ops[i] \in OpRec /\ x.ops[i].prompt \in Nat
                                     /\ x.ops[i].turn \in Nat /\ x.ops[i].prev \in Nat
                                     /\ x.ops[i].state \in OpState
<1> DEFINE q == x.ops
           S == OpRec
<1>1. q \in Seq(S)
  BY DEF Typed, States
<1>2. Len(q) \in Nat /\ DOMAIN q = 1..Len(q) /\ \A i \in 1..Len(q) : q[i] \in S
  <2> HIDE DEF q, S
  <2> QED BY <1>1
<1> QED BY <1>1, <1>2 DEF OpRec, OpState

\* An entry of the journal is written.
LEMMA SetOpIs ==
  ASSUME NEW n, NEW x, Typed(x, n), NEW i \in DOMAIN x.ops, NEW state, NEW turn,
         NEW y, y = SetOp(x, i, state, turn)
  PROVE  /\ Beside(x, y, {"ops"}) /\ DOMAIN y.ops = DOMAIN x.ops
         /\ y.ops[i].state = state /\ y.ops[i].turn = turn
         /\ y.ops[i].prompt = x.ops[i].prompt /\ y.ops[i].prev = x.ops[i].prev
         /\ \A j \in DOMAIN x.ops : j # i => y.ops[j] = x.ops[j]
<1>1. DOMAIN x = Fields
  BY DEF Typed, States, Fields
<1>2. DOMAIN x.ops = 1..Len(x.ops) /\ x.ops[i] \in OpRec
  BY OpsOf
<1>3. Beside(x, y, {"ops"}) /\ y.ops = [x.ops EXCEPT ![i].state = state, ![i].turn = turn]
  BY <1>1 DEF SetOp, Beside, Fields
<1> QED BY <1>2, <1>3 DEF OpRec

LEMMA SetOpMild ==
  ASSUME NEW n, NEW x, Typed(x, n), NEW i, NEW state \in OpState, NEW turn \in Nat,
         NEW y, y = SetOp(x, i, state, turn),
         turn # 0 \/ state = "blocked"
  PROVE  Mild(x, y)
<1>1. DOMAIN x = Fields
  BY DEF Typed, States, Fields
<1>2. Sane(x, y, n) /\ Beside(x, y, {"ops"})
  BY SetOpSane
<1>3. SamePrompts(x, y) /\ y.task = x.task
  BY <1>2 DEF Sane, Calm, Still, Beside, Fields
<1>4. CASE i \in DOMAIN x.ops
  <2>1. y.ops[i].state = state /\ y.ops[i].turn = turn
        /\ \A j \in DOMAIN x.ops : j # i => y.ops[j] = x.ops[j]
    BY <1>4, SetOpIs
  <2>2. DOMAIN x.ops = 1..Len(x.ops)
    BY OpsOf
  <2>3. Closing(x, y)
    BY <1>3, <2>1, <2>2 DEF Closing, Closed, Filed
  <2> QED BY <1>2, <1>3, <2>3 DEF Mild, Beside, Observing, Unqueued, Fields
<1>5. CASE i \notin DOMAIN x.ops
  <2>1. [x.ops EXCEPT ![i].state = state, ![i].turn = turn] = x.ops
    BY <1>5, OpsOf
  <2>2. y.ops = x.ops
    BY <1>1, <2>1 DEF SetOp, Fields
  <2> QED BY <1>2, <1>3, <2>2, MildRow DEF Mild, Beside, Observing, Closing, Unqueued, Fields
<1> QED BY <1>4, <1>5

LEMMA RecordedIs ==
  ASSUME NEW n, NEW x, Typed(x, n), NEW id, id # 0, NEW y, y = Recorded(x, id)
  PROVE  /\ Mild(x, y) /\ Beside(x, y, {"ops"}) /\ DOMAIN y.ops = DOMAIN x.ops
         /\ \A i \in DOMAIN x.ops :
              /\ x.ops[i].turn # id => y.ops[i] = x.ops[i]
              /\ y.ops[i].turn = x.ops[i].turn
              /\ y.ops[i].prompt = x.ops[i].prompt /\ y.ops[i].prev = x.ops[i].prev
              /\ x.ops[i].turn = id => y.ops[i].state = "completed"
<1>1. DOMAIN x = Fields
  BY DEF Typed, States, Fields
<1>2. y.ops = [i \in DOMAIN x.ops |-> IF x.ops[i].turn = id
                 THEN [x.ops[i] EXCEPT !.state = "completed"] ELSE x.ops[i]]
      /\ Beside(x, y, {"ops"})
  BY <1>1 DEF Recorded, Beside, Fields
<1>4. DOMAIN x.ops = 1..Len(x.ops) /\ \A i \in 1..Len(x.ops) : x.ops[i] \in OpRec
  BY OpsOf
<1>3. /\ DOMAIN y.ops = DOMAIN x.ops
      /\ \A i \in DOMAIN x.ops :
              /\ x.ops[i].turn # id => y.ops[i] = x.ops[i]
              /\ y.ops[i].turn = x.ops[i].turn
              /\ y.ops[i].prompt = x.ops[i].prompt /\ y.ops[i].prev = x.ops[i].prev
              /\ x.ops[i].turn = id => y.ops[i].state = "completed"
  BY <1>2, <1>4 DEF OpRec
<1>5. SamePrompts(x, y) /\ y.task = x.task
  BY <1>2, RecordedSane DEF Sane, Calm, Still, Beside, Fields
<1>6. ASSUME NEW i \in 1..Len(x.ops)
      PROVE  /\ Closed(x.ops[i]) => Closed(y.ops[i])
             /\ Filed(x.ops[i]) => Filed(y.ops[i])
  <2>1. CASE x.ops[i].turn # id
    BY <1>3, <1>4, <2>1
  <2>2. CASE x.ops[i].turn = id
    <3>1. y.ops[i].turn = id
      BY <1>3, <1>4, <2>2
    <3> QED BY <3>1 DEF Closed, Filed
  <2> QED BY <2>1, <2>2
<1>7. Closing(x, y)
  BY <1>5, <1>6 DEF Closing
<1> QED BY <1>2, <1>3, <1>5, <1>7 DEF Mild, Beside, Observing, Unqueued, Fields

LEMMA ObservedFlagsIs ==
  ASSUME NEW n, NEW x, Typed(x, n), NEW y, y = ObservedFlags(x)
  PROVE  /\ Beside(x, y, {"task"}) /\ ~y.task.conflict /\ y.task.uncertain = 0
         /\ y.task.paused = x.task.paused /\ y.task.status = x.task.status /\ y.task.run = x.task.run
         /\ y.task.thread = x.task.thread
<1>1. DOMAIN x = Fields /\ x.task \in TaskRec
  BY DEF Typed, States, Fields
<1> QED BY <1>1 DEF ObservedFlags, Beside, Fields, TaskRec

LEMMA ForgetIs ==
  ASSUME NEW n, NEW x, Typed(x, n), NEW id, NEW y, y = Forget(x, id)
  PROVE  Beside(x, y, {"turn"}) /\ y.turn = IF x.turn = id THEN 0 ELSE x.turn
<1>1. DOMAIN x = Fields
  BY DEF Typed, States, Fields
<1> QED BY <1>1 DEF Forget, Beside, Fields

LEMMA AskLimitsIs ==
  ASSUME NEW n, NEW x, Typed(x, n), NEW by, NEW id, NEW y, y = AskLimits(x, by, id)
  PROVE  Beside(x, y, {"limits"})
<1>1. DOMAIN x = Fields
  BY DEF Typed, States, Fields
<1> QED BY <1>1 DEF AskLimits, Beside, Fields

LEMMA SettledMild ==
  ASSUME NEW n \in Nat, NEW x, Typed(x, n), Open(x), NEW accepted, NEW y, y = Settled(x, accepted)
  PROVE  Mild(x, y)
<1>1. Beside(x, y, {"task", "queue", "lease", "runs"}) /\ y.task.paused = x.task.paused
      /\ y.queue.state # "pending"
  BY SettledIs DEF RowBut, TaskFields
<1> QED BY <1>1, MildRow DEF Beside, Observing, Unqueued, Fields

\* The journal's entries of a turn that is over.
OpsRecorded(x, y, id) ==
  /\ DOMAIN y.ops = DOMAIN x.ops
  /\ \A i \in DOMAIN x.ops :
       /\ x.ops[i].turn # id => y.ops[i] = x.ops[i]
       /\ x.ops[i].turn = id => y.ops[i].state = "completed"
       /\ y.ops[i].turn = x.ops[i].turn
       /\ y.ops[i].prompt = x.ops[i].prompt /\ y.ops[i].prev = x.ops[i].prev

\* A result is written: the lease is given back, and nothing is uncertain.
Reported(x, y, id) ==
  /\ Open(x) /\ ~x.task.paused /\ x.turn \in {0, id}
  /\ Beside(x, y, {"task", "queue", "lease", "runs", "ops", "turn"})
  /\ ~y.lease /\ y.queue.state # "pending" /\ RunsKept(x, y)
  /\ ~y.task.conflict /\ y.task.uncertain = 0
  /\ y.task.paused = x.task.paused /\ y.task.thread = x.task.thread
  /\ \/ y.task.status = "in_progress" /\ y.task.run = "failed"
     \/ y.task.status = "in_review" /\ y.task.run = "none"
  /\ y.turn = 0
  /\ OpsRecorded(x, y, id)

LEMMA ResultIs ==
  ASSUME NEW n \in Nat, NEW x, Typed(x, n), NEW id \in 0..n, id # 0, NEW state, NEW accepted,
         NEW by \in {"worker", "loop", "notice"}, NEW y, y = Result(x, id, state, accepted, by)
  PROVE  /\ Ignores(x, id) => y = x
         /\ ~Ignores(x, id) /\ state # "quota" => Reported(x, y, id)
         /\ state # "quota" => y.limits = x.limits
         /\ Mild(x, y)
<1>1. CASE Ignores(x, id)
  <2>1. y = x
    BY <1>1 DEF Result
  <2> QED BY <1>1, <2>1, MildSame
<1>2. CASE ~Ignores(x, id)
  <2> DEFINE f == ObservedFlags(x)
             r == Recorded(f, id)
             u == FALSE
  <2>1. f = ObservedFlags(x) /\ r = Recorded(f, id)
    OBVIOUS
  <2>2. /\ Open(x) /\ ~x.task.paused /\ x.turn \in {0, id}
        /\ id # 0
    BY <1>2 DEF Ignores, Open
  <2>3. y = CASE state = "quota" -> AskLimits(r, by, id)
             [] state = "completed" -> Forget(Settled(r, accepted), id)
             [] OTHER -> Forget(Failed(r, u), id)
    BY <1>2 DEF Result
  <2> HIDE DEF f, r, u
  <2>4. /\ Beside(x, f, {"task"}) /\ ~f.task.conflict /\ f.task.uncertain = 0
        /\ f.task.paused = x.task.paused /\ f.task.status = x.task.status /\ f.task.run = x.task.run
        /\ f.task.thread = x.task.thread /\ Typed(f, n)
    BY <2>1, ObservedFlagsIs, ObservedFlagsSane DEF Sane
  <2>5. Mild(x, f)
    BY <2>4, MildRow DEF Beside, Observing, Unqueued, Fields
  <2>6. Mild(f, r) /\ Beside(f, r, {"ops"}) /\ Typed(r, n) /\ OpsRecorded(f, r, id)
    BY <2>1, <2>2, <2>4, RecordedIs, RecordedSane DEF Sane, OpsRecorded
  <2>7. Mild(x, r)
    BY <2>5, <2>6, MildThrough
  <2>8. Beside(x, r, {"task", "ops"}) /\ r.task = f.task /\ OpsRecorded(x, r, id)
    BY <2>4, <2>6 DEF Beside, Fields, OpsRecorded
  <2>9. Open(r) /\ r.runs = x.runs /\ r.turn = x.turn /\ r.limits = x.limits
    BY <2>2, <2>4, <2>8 DEF Open, Beside, Fields
  <2>10. CASE state = "quota"
    <3>1. y = AskLimits(r, by, id)
      BY <2>3, <2>10
    <3>2. Beside(r, y, {"limits"})
      BY <2>6, <3>1, AskLimitsIs
    <3>3. Mild(r, y)
      BY <2>6, <3>2, MildRow DEF Beside, Fields, Observing, Unqueued
    <3> QED BY <1>2, <2>7, <2>10, <3>3, MildThrough
  <2>11. ASSUME NEW z, y = Forget(z, id), Typed(z, n), Mild(r, z), state # "quota",
                Beside(r, z, {"task", "queue", "lease", "runs"}) /\ RunsKept(r, z),
                z.queue.state # "pending" /\ ~z.lease,
                RowBut(r.task, z.task, {"run", "status", "conflict", "observe"}),
                ~z.task.conflict,
                \/ z.task.status = "in_progress" /\ z.task.run = "failed"
                \/ z.task.status = "in_review" /\ z.task.run = "none"
         PROVE  Reported(x, y, id) /\ Mild(x, y) /\ y.limits = x.limits
    <3>1. Beside(z, y, {"turn"}) /\ y.turn = IF z.turn = id THEN 0 ELSE z.turn
      BY <2>11, ForgetIs
    <3>2. z.turn = x.turn /\ z.limits = x.limits /\ z.ops = r.ops
      BY <2>9, <2>11 DEF Beside, Fields
    <3>3. y.turn = 0
      BY <2>2, <3>1, <3>2
    <3>4. Mild(z, y)
      BY <2>11, <3>1, MildRow DEF Beside, Fields, Observing, Unqueued
    <3>5. Mild(x, y)
      BY <2>7, <2>11, <3>4, MildThrough
    <3>6. Beside(x, y, {"task", "queue", "lease", "runs", "ops", "turn"})
      BY <2>8, <2>11, <3>1 DEF Beside
    <3>7. y.task = z.task /\ y.queue = z.queue /\ y.lease = z.lease /\ y.runs = z.runs /\ y.ops = r.ops
          /\ y.limits = x.limits
      BY <3>1, <3>2 DEF Beside, Fields
    <3>8. OpsRecorded(x, y, id)
      BY <2>8, <3>7 DEF OpsRecorded
    <3>9. RunsKept(x, y)
      BY <2>9, <2>11, <3>7 DEF RunsKept, Turned, LastRun
    <3>10. /\ ~y.task.conflict /\ y.task.uncertain = 0
           /\ y.task.paused = x.task.paused /\ y.task.thread = x.task.thread
      BY <2>4, <2>8, <2>11, <3>7 DEF RowBut, TaskFields
    <3> QED BY <2>2, <2>11, <3>3, <3>5, <3>6, <3>7, <3>8, <3>9, <3>10 DEF Reported
  <2>12. CASE state = "completed"
    <3> DEFINE z == Settled(r, accepted)
    <3>1. y = Forget(z, id) /\ z = Settled(r, accepted)
      BY <2>3, <2>12
    <3> HIDE DEF z
    <3>2. Mild(r, z) /\ Typed(z, n)
      BY <2>6, <2>9, <3>1, SettledMild, SettledSane DEF Sane
    <3>3. /\ Beside(r, z, {"task", "queue", "lease", "runs"}) /\ RunsKept(r, z)
          /\ z.queue.state # "pending" /\ ~z.lease
          /\ RowBut(r.task, z.task, {"run", "status", "conflict", "observe"})
          /\ z.task.conflict = r.task.conflict
          /\ \/ z.task.status = "in_progress" /\ z.task.run = "failed"
             \/ z.task.status = "in_review" /\ z.task.run = "none"
      BY <2>6, <2>9, <3>1, SettledIs
    <3>4. ~z.task.conflict
      BY <2>4, <2>8, <3>3
    <3>5. state # "quota"
      BY <2>12
    <3> QED BY <1>2, <2>11, <3>1, <3>2, <3>3, <3>4, <3>5
  <2>13. CASE state \notin {"quota", "completed"}
    <3> DEFINE z == Failed(r, u)
    <3>0. u \in BOOLEAN /\ ~u
      BY DEF u
    <3>1. y = Forget(z, id) /\ z = Failed(r, u)
      BY <2>3, <2>13
    <3> HIDE DEF z
    <3>2. Mild(r, z) /\ Typed(z, n)
      BY <2>6, <3>0, <3>1, FailedMild, FailedSane DEF Sane
    <3>3. /\ Beside(r, z, {"task", "queue", "lease", "runs"}) /\ RunsKept(r, z)
          /\ RowBut(r.task, z.task, {"run", "conflict", "observe"})
          /\ z.task.run = "failed" /\ z.task.conflict = (r.task.conflict \/ u)
          /\ z.lease = (r.lease /\ u) /\ z.queue.state # "pending"
      BY <2>6, <2>9, <3>0, <3>1, FailedIs
    <3>4. ~z.task.conflict /\ ~z.lease /\ z.task.status = "in_progress"
          /\ RowBut(r.task, z.task, {"run", "status", "conflict", "observe"})
      BY <2>4, <2>8, <2>9, <3>0, <3>3 DEF RowBut, TaskFields, Open
    <3>5. state # "quota"
      BY <2>13
    <3> QED BY <1>2, <2>11, <3>1, <3>2, <3>3, <3>4, <3>5
  <2> QED BY <1>2, <2>10, <2>12, <2>13
<1> QED BY <1>1, <1>2

LEMMA FailedWithIs ==
  ASSUME NEW n \in Nat, NEW x, Typed(x, n), NEW lost \in BOOLEAN, NEW y, y = FailedWith(x, lost)
  PROVE  /\ Mild(x, y)
         /\ ~Open(x) => y = x
         /\ Open(x) => /\ Beside(x, y, {"task", "queue", "lease", "runs"}) /\ RunsKept(x, y)
                       /\ RowBut(x.task, y.task, {"run", "conflict", "observe"})
                       /\ y.task.run = "failed"
                       /\ y.task.conflict = (x.task.conflict \/ lost \/ x.turn # 0)
                       /\ y.lease = (x.lease /\ (lost \/ x.turn # 0)) /\ y.queue.state # "pending"
<1> DEFINE u == lost \/ x.turn # 0
<1>1. u \in BOOLEAN /\ y = Failed(x, u)
  BY DEF FailedWith
<1> HIDE DEF u
<1>2. /\ Mild(x, y) /\ (~Open(x) => y = x)
      /\ Open(x) => /\ Beside(x, y, {"task", "queue", "lease", "runs"}) /\ RunsKept(x, y)
                    /\ RowBut(x.task, y.task, {"run", "conflict", "observe"})
                    /\ y.task.run = "failed" /\ y.task.conflict = (x.task.conflict \/ u)
                    /\ y.lease = (x.lease /\ u) /\ y.queue.state # "pending"
  BY <1>1, FailedMild, FailedIs
<1> QED BY <1>2 DEF u

\* A run is added for a turn that has none.
LEMMA RunAdded ==
  ASSUME NEW S, NEW q \in Seq(S), NEW e
  PROVE  LET r == Append(q, e) IN
         /\ r # <<>> /\ Last(r) = e /\ DOMAIN r = DOMAIN q \cup {Len(q) + 1}
         /\ Len(q) + 1 \notin DOMAIN q
         /\ r[Len(q) + 1] = e /\ \A j \in DOMAIN q : r[j] = q[j]
<1> DEFINE T == S \cup {e}
           r == Append(q, e)
<1>1. q \in Seq(T) /\ e \in T /\ Len(q) \in Nat /\ DOMAIN q = 1..Len(q)
  OBVIOUS
<1> HIDE DEF T
<1>2. r \in Seq(T) /\ Len(r) = Len(q) + 1 /\ r[Len(q) + 1] = e /\ \A j \in 1..Len(q) : r[j] = q[j]
  BY <1>1
<1>3. DOMAIN r = 1..(Len(q) + 1) /\ r # <<>>
  BY <1>1, <1>2
<1>4. Last(r) = e
  BY <1>2 DEF Last
<1> QED BY <1>1, <1>2, <1>3, <1>4

LEMMA TurnedMore ==
  ASSUME NEW n, NEW x, Typed(x, n), NEW y, NEW id, NEW state,
         y.runs = Append(x.runs, [turn |-> id, state |-> state])
  PROVE  /\ Turned(y) = Turned(x) \cup {id} /\ LastRun(y).turn = id /\ LastRun(y).state = state
<1> DEFINE q == x.runs
           r == y.runs
           e == [turn |-> id, state |-> state]
           S == RunRec
<1>1. q \in Seq(S)
  BY DEF Typed, States
<1>2. r = Append(q, e) /\ e.turn = id /\ e.state = state
  OBVIOUS
<1>3. LastRun(y) = IF r = <<>> THEN [turn |-> 0, state |-> "none"] ELSE Last(r)
  BY DEF LastRun
<1>4. Turned(y) = {r[j].turn : j \in DOMAIN r} /\ Turned(x) = {q[j].turn : j \in DOMAIN q}
  BY DEF Turned
<1> HIDE DEF q, r, e, S
<1>5. /\ r # <<>> /\ Last(r) = e /\ DOMAIN r = DOMAIN q \cup {Len(q) + 1}
      /\ r[Len(q) + 1] = e /\ \A j \in DOMAIN q : r[j] = q[j]
  BY <1>1, <1>2, RunAdded
<1>6. Turned(y) = Turned(x) \cup {id}
  BY <1>2, <1>4, <1>5
<1> QED BY <1>2, <1>3, <1>5, <1>6

\* A turn that is not adopted: a stop is under way, or it is known.
Passed(x, id) == x.override \/ id = 0 \/ x.turn = id \/ id \in Turned(x)

\* A turn that is adopted is the task's, under its lease if it is active.
TakenUp(x, y, id, active) ==
  /\ Beside(x, y, {"task", "lease", "turn", "runs"})
  /\ RowBut(x.task, y.task, {"status", "run", "conflict"})
  /\ y.task.status = "in_progress" /\ y.task.run = "running"
  /\ y.task.conflict = (x.task.conflict \/ (active /\ ~x.lease /\ x.task.paused))
  /\ y.lease = (x.lease \/ active) /\ y.turn = id
  /\ Turned(y) = Turned(x) \cup {id} /\ LastRun(y).turn = id /\ LastRun(y).state = "running"

LEMMA AdoptedIs ==
  ASSUME NEW n \in Nat, NEW x, Typed(x, n), NEW id \in 0..n, NEW active \in BOOLEAN,
         NEW y, y = Adopted(x, id, active)
  PROVE  /\ Mild(x, y)
         /\ Passed(x, id) => y = x
         /\ ~Passed(x, id) => TakenUp(x, y, id, active)
<1>1. (\E i \in DOMAIN x.runs : x.runs[i].turn = id) <=> id \in Turned(x)
  BY DEF Turned
<1>2. CASE Passed(x, id)
  <2>1. y = x
    BY <1>1, <1>2 DEF Adopted, Passed
  <2> QED BY <1>2, <2>1, MildSame
<1>3. CASE ~Passed(x, id)
  <2> DEFINE e == [turn |-> id, state |-> "running"]
             r == Append(x.runs, e)
  <2>1. DOMAIN x = Fields /\ x.task \in TaskRec /\ x.lease \in BOOLEAN
    BY DEF Typed, States, Fields
  <2>2. y = [x EXCEPT !.lease = @ \/ active,
            !.task.conflict = @ \/ (active /\ ~x.lease /\ x.task.paused),
            !.task.status = "in_progress", !.task.run = "running",
            !.turn = id, !.runs = Append(@, e)]
    BY <1>1, <1>3 DEF Adopted, Passed
  <2> HIDE DEF e
  <2>3. y = [x EXCEPT !.lease = @ \/ active,
            !.task.conflict = @ \/ (active /\ ~x.lease /\ x.task.paused),
            !.task.status = "in_progress", !.task.run = "running",
            !.turn = id, !.runs = r]
    BY <2>1, <2>2 DEF Fields
  <2> HIDE DEF r
  <2>4. /\ Beside(x, y, {"task", "lease", "turn", "runs"})
        /\ y.lease = (x.lease \/ active) /\ y.turn = id /\ y.runs = r
    BY <2>1, <2>3 DEF Beside, Fields
  <2>5. /\ RowBut(x.task, y.task, {"status", "run", "conflict"})
        /\ y.task.status = "in_progress" /\ y.task.run = "running"
        /\ y.task.conflict = (x.task.conflict \/ (active /\ ~x.lease /\ x.task.paused))
    <3> DEFINE k == [x.task EXCEPT !.conflict = @ \/ (active /\ ~x.lease /\ x.task.paused),
                                   !.status = "in_progress", !.run = "running"]
    <3>1. y.task = k
      BY <2>1, <2>3 DEF Fields, TaskRec
    <3>2. k.conflict = (x.task.conflict \/ (active /\ ~x.lease /\ x.task.paused))
      BY <2>1 DEF TaskRec
    <3>3. RowBut(x.task, k, {"status", "run", "conflict"}) /\ k.status = "in_progress" /\ k.run = "running"
      BY <2>1 DEF TaskRec, RowBut, TaskFields
    <3> QED BY <3>1, <3>2, <3>3
  <2>6. Turned(y) = Turned(x) \cup {id} /\ LastRun(y).turn = id /\ LastRun(y).state = "running"
    BY <2>4, TurnedMore DEF r, e
  <2>7. Mild(x, y)
    BY <2>4, <2>5, MildRow DEF Beside, Observing, RowBut, TaskFields, Unqueued, Fields
  <2> QED BY <1>3, <2>4, <2>5, <2>6, <2>7 DEF TakenUp
<1> QED BY <1>2, <1>3

LEMMA ExhaustedMild ==
  ASSUME NEW n \in Nat, NEW x, Typed(x, n), NEW y, y = Exhausted(x)
  PROVE  Mild(x, y)
<1> DEFINE k == [x.task EXCEPT !.run = "waiting_quota"]
           b == FALSE
           z == Rewritten(x, k, b)
           w == Concluded(z, "waiting_quota")
<1>1. DOMAIN x = Fields /\ x.task \in TaskRec /\ x.task.uncertain <= Len(x.ops)
  BY DEF Typed, States, Fields
<1>2. k \in TaskRec /\ k.thread = x.task.thread /\ k.run = "waiting_quota" /\ k.paused = x.task.paused
      /\ k.uncertain = x.task.uncertain
  BY <1>1 DEF TaskRec
<1>3. y = Finished(w)
  BY <1>1 DEF Exhausted, Fields, Rewritten
<1>4. z = Rewritten(x, k, b) /\ w = Concluded(z, "waiting_quota") /\ b \in BOOLEAN
  OBVIOUS
<1> HIDE DEF k, b, z, w
<1>5. Typed(z, n) /\ z.task = k /\ Beside(x, z, {"task", "lease"})
  <2>1. k.run = "starting" => Keeps(x, k)
    BY <1>2
  <2>2. k.uncertain <= Len(x.ops)
    BY <1>1, <1>2
  <2> QED BY <1>2, <1>4, <2>1, <2>2, Written
<1>6. Beside(z, w, {"runs"}) /\ Typed(w, n)
  <2>1. "waiting_quota" \in RunState
    BY DEF RunState
  <2> QED BY <1>4, <1>5, <2>1, ConcludedIs, ConcludedSane DEF Sane
<1>7. Beside(w, y, {"queue"}) /\ y.queue.state # "pending"
  BY <1>3, <1>6, FinishedIs
<1>8. Beside(x, y, {"task", "lease", "runs", "queue"}) /\ y.task = k
  BY <1>5, <1>6, <1>7 DEF Beside, Fields
<1> QED BY <1>2, <1>7, <1>8, MildRow DEF Beside, Observing, Unqueued, Fields

LEMMA WatchIs ==
  ASSUME NEW n, NEW x, Typed(x, n), NEW id, NEW y, y = Watch(x, id)
  PROVE  /\ Beside(x, y, {"worker"})
         /\ x.worker.pc # "none" => y.worker = x.worker
         /\ x.worker.pc = "none" => y.worker.pc = "wait" /\ y.worker.op = 0 /\ y.worker.turn = id
<1>1. DOMAIN x = Fields
  BY DEF Typed, States, Fields
<1> QED BY <1>1 DEF Watch, Beside, Fields, NoWorker

LEMMA EndedIs ==
  ASSUME NEW n, NEW x, Typed(x, n), NEW y, y = Ended(x)
  PROVE  /\ Beside(x, y, {"worker", "starting"}) /\ y.worker = NoWorker
         /\ y.starting = (x.starting /\ ~Executing(x))
<1>1. DOMAIN x = Fields /\ x.starting \in BOOLEAN
  BY DEF Typed, States, Fields
<1>2. Executing(x) \in BOOLEAN
  BY DEF Executing
<1> HIDE DEF Executing
<1> QED BY <1>1, <1>2 DEF Ended, Beside, Fields

LEMMA CanceledIs ==
  ASSUME NEW n, NEW x, Typed(x, n), NEW y, y = Canceled(x)
  PROVE  /\ Beside(x, y, {"worker", "starting", "turn", "limits"}) /\ y.worker = NoWorker
         /\ y.starting = (x.starting /\ ~Executing(x)) /\ y.turn = 0
         /\ y.limits \subseteq x.limits
<1> DEFINE z == Ended(x)
           l == {i \in z.limits : i.by # "worker"}
<1>1. Beside(x, z, {"worker", "starting"}) /\ z.worker = NoWorker
      /\ z.starting = (x.starting /\ ~Executing(x))
  BY EndedIs
<1>2. y = [z EXCEPT !.turn = 0, !.limits = {i \in @ : i.by # "worker"}]
  BY DEF Canceled
<1>3. DOMAIN z = Fields
  BY <1>1 DEF Beside
<1> HIDE DEF z
<1>4. Beside(z, y, {"turn", "limits"}) /\ y.turn = 0 /\ y.limits = l
  BY <1>2, <1>3 DEF Beside, Fields
<1>5. z.limits = x.limits
  BY <1>1 DEF Beside, Fields
<1>6. Beside(x, y, {"worker", "starting", "turn", "limits"}) /\ y.worker = NoWorker
      /\ y.starting = z.starting
  BY <1>1, <1>4 DEF Beside, Fields
<1> QED BY <1>1, <1>4, <1>5, <1>6

LEMMA BlockedIs ==
  ASSUME NEW n, NEW x, Typed(x, n), NEW y, y = Blocked(x)
  PROVE  /\ Mild(x, y) /\ Beside(x, y, {"task"}) /\ RowBut(x.task, y.task, {"conflict", "uncertain"})
         /\ y.task.conflict /\ y.task.uncertain = FirstUncertain(x)
<1>1. DOMAIN x = Fields /\ x.task \in TaskRec
  BY DEF Typed, States, Fields
<1>2. /\ Beside(x, y, {"task"}) /\ RowBut(x.task, y.task, {"conflict", "uncertain"})
      /\ y.task.conflict /\ y.task.uncertain = FirstUncertain(x)
  BY <1>1 DEF Blocked, Beside, Fields, TaskRec, RowBut, TaskFields
<1>3. Mild(x, y)
  BY <1>2, MildRow DEF Beside, Observing, RowBut, TaskFields, Unqueued, Fields
<1> QED BY <1>2, <1>3

\* A lost start keeps the turn its entry has.
LEMMA LostIs ==
  ASSUME NEW n, NEW x, Typed(x, n), NEW i \in DOMAIN x.ops, NEW y, y = LostOf(x, i)
  PROVE  /\ Beside(x, y, {"ops", "task"}) /\ RowBut(x.task, y.task, {"conflict", "uncertain"})
         /\ y.task.conflict /\ y.task.uncertain = i
         /\ DOMAIN y.ops = DOMAIN x.ops
         /\ y.ops[i].state = "uncertain" /\ y.ops[i].turn = x.ops[i].turn
         /\ y.ops[i].prompt = x.ops[i].prompt /\ y.ops[i].prev = x.ops[i].prev
         /\ \A j \in DOMAIN x.ops : j # i => y.ops[j] = x.ops[j]
<1> DEFINE z == SetOp(x, i, "uncertain", x.ops[i].turn)
<1>1. /\ Beside(x, z, {"ops"}) /\ DOMAIN z.ops = DOMAIN x.ops
      /\ z.ops[i].state = "uncertain" /\ z.ops[i].turn = x.ops[i].turn
      /\ z.ops[i].prompt = x.ops[i].prompt /\ z.ops[i].prev = x.ops[i].prev
      /\ \A j \in DOMAIN x.ops : j # i => z.ops[j] = x.ops[j]
  BY SetOpIs
<1>2. y = [z EXCEPT !.task.uncertain = i, !.task.conflict = TRUE]
  BY DEF LostOf
<1> HIDE DEF z
<1>3. DOMAIN z = Fields /\ z.task = x.task /\ x.task \in TaskRec
  BY <1>1 DEF Beside, Fields, Typed, States
<1>4. /\ Beside(z, y, {"task"}) /\ RowBut(z.task, y.task, {"conflict", "uncertain"})
      /\ y.task.conflict /\ y.task.uncertain = i
  <2> DEFINE k == [z.task EXCEPT !.uncertain = i, !.conflict = TRUE]
  <2>1. z.task \in TaskRec
    BY <1>3
  <2>2. RowBut(z.task, k, {"conflict", "uncertain"}) /\ k.conflict /\ k.uncertain = i
    BY <2>1 DEF TaskRec, RowBut, TaskFields
  <2>3. Beside(z, y, {"task"}) /\ y.task = k
    BY <1>2, <1>3 DEF Beside, Fields, TaskRec
  <2> QED BY <2>2, <2>3
<1>5. y.ops = z.ops
  BY <1>4 DEF Beside, Fields
<1>6. Beside(x, y, {"ops", "task"})
  BY <1>1, <1>4 DEF Beside
<1> QED BY <1>1, <1>3, <1>4, <1>5, <1>6

\* What _sync_threads makes of the latest turn before its result is looked at.
Known(x, id, state) ==
  LET active == state = "active" IN
  IF LastRun(x).turn # id THEN Adopted(x, id, active)
  ELSE IF /\ x.runs # <<>> /\ x.task.status = "in_progress"
          /\ \/ x.task.run \notin {"waiting_quota", "failed"}
             \/ x.task.observe \/ state \in {"completed", "active"}
    THEN [x EXCEPT !.turn = id,
            !.task.run = IF @ \in {"failed", "waiting_quota"} /\ active THEN "running" ELSE @]
    ELSE x

LEMMA KnownIs ==
  ASSUME NEW n \in Nat, NEW x, Typed(x, n), NEW id \in 0..n, id # 0, NEW state, NEW y, y = Known(x, id, state)
  PROVE  /\ Mild(x, y) /\ Typed(y, n)
         /\ LastRun(x).turn # id /\ Passed(x, id) => y = x
         /\ LastRun(x).turn # id /\ ~Passed(x, id) => TakenUp(x, y, id, state = "active")
         /\ LastRun(x).turn = id =>
              \/ y = x
              \/ /\ Beside(x, y, {"turn", "task"}) /\ y.turn = id /\ x.task.status = "in_progress"
                 /\ RowBut(x.task, y.task, {"run"})
                 /\ y.task.run = IF x.task.run \in {"failed", "waiting_quota"} /\ state = "active"
                                   THEN "running" ELSE x.task.run
<1> DEFINE active == state = "active"
<1>1. DOMAIN x = Fields /\ x.task \in TaskRec /\ x.task.uncertain <= Len(x.ops) /\ active \in BOOLEAN
  BY DEF Typed, States, Fields
<1>2. CASE LastRun(x).turn # id
  <2>1. y = Adopted(x, id, active)
    BY <1>2 DEF Known
  <2>2. /\ Mild(x, y) /\ Typed(y, n) /\ (Passed(x, id) => y = x)
        /\ ~Passed(x, id) => TakenUp(x, y, id, active)
    <3> HIDE DEF active
    <3> QED BY <1>1, <2>1, AdoptedIs, AdoptedSane DEF Sane
  <2> QED BY <1>2, <2>2
<1>3. CASE y = x
  BY <1>2, <1>3, MildSame
<1>4. CASE LastRun(x).turn = id /\ y # x
  <2> DEFINE k == [x.task EXCEPT !.run = IF @ \in {"failed", "waiting_quota"} /\ active THEN "running" ELSE @]
             z == [x EXCEPT !.turn = id]
  <2>1. y = [x EXCEPT !.turn = id, !.task = k] /\ x.task.status = "in_progress"
    BY <1>1, <1>4 DEF Known, Fields, TaskRec
  <2>2. /\ RowBut(x.task, k, {"run"}) /\ k \in TaskRec /\ k.thread = x.task.thread
        /\ k.uncertain = x.task.uncertain /\ k.status = x.task.status /\ k.paused = x.task.paused
        /\ k.run = IF x.task.run \in {"failed", "waiting_quota"} /\ active
                                   THEN "running" ELSE x.task.run
    BY <1>1 DEF TaskRec, RowBut, TaskFields
  <2>3. y = [z EXCEPT !.task = k]
    BY <1>1, <2>1 DEF Fields
  <2>4. Typed(z, n) /\ z.task = x.task /\ z.ops = x.ops
    <3>1. z \in States(n) /\ Beside(x, z, Side) /\ Beside(x, z, {"turn"})
      BY <1>1 DEF Typed, States, Beside, Side, Fields
    <3> QED BY <3>1, SideSane DEF Sane, Beside, Fields
  <2> HIDE DEF k, z, active
  <2>5. Typed(y, n)
    BY <1>1, <2>2, <2>3, <2>4, RowSane DEF Sane
  <2>6. Beside(x, y, {"turn", "task"}) /\ y.turn = id /\ y.task = k
    BY <1>1, <2>1 DEF Beside, Fields
  <2>7. Mild(x, y)
    BY <2>2, <2>6, MildRow DEF Beside, Observing, Unqueued, Fields
  <2> QED BY <1>4, <2>1, <2>2, <2>5, <2>6, <2>7 DEF active
<1> QED BY <1>2, <1>3, <1>4

LEMMA SyncedIs ==
  ASSUME NEW n \in Nat, NEW x, Typed(x, n), NEW id \in 0..n, id # 0, NEW state, NEW y, y = Synced(x, id, state)
  PROVE  /\ Mild(x, y)
         /\ state # "quota" => y.limits = x.limits
         /\ LET k == Known(x, id, state) IN
            /\ state = "active" \/ k.turn # id \/ Ignores(k, id) => y = k
            /\ ~(state = "active" \/ k.turn # id \/ Ignores(k, id) \/ state = "quota") => Reported(k, y, id)
<1> DEFINE k == Known(x, id, state)
           t == TRUE
<1>1. k = Known(x, id, state)
  OBVIOUS
<1>2. y = IF state = "active" \/ k.turn # id THEN k ELSE Result(k, id, state, t, "loop")
  BY DEF Synced, Known
<1> HIDE DEF k, t
<1>3. Mild(x, k) /\ Typed(k, n) /\ k.limits = x.limits
  <2>1. Mild(x, k) /\ Typed(k, n)
    BY <1>1, KnownIs
  <2>2. LastRun(x).turn # id => k.limits = x.limits
    BY <1>1, KnownIs DEF TakenUp, Beside, Fields
  <2>3. LastRun(x).turn = id => k.limits = x.limits
    BY <1>1, KnownIs DEF Beside, Fields
  <2> QED BY <2>1, <2>2, <2>3
<1>4. CASE state = "active" \/ k.turn # id
  BY <1>1, <1>2, <1>3, <1>4
<1>5. CASE ~(state = "active" \/ k.turn # id)
  <2>1. y = Result(k, id, state, t, "loop")
    BY <1>2, <1>5
  <2>2. /\ Ignores(k, id) => y = k
        /\ ~Ignores(k, id) /\ state # "quota" => Reported(k, y, id)
        /\ state # "quota" => y.limits = k.limits
        /\ Mild(k, y)
    BY <1>3, <2>1, ResultIs
  <2> QED BY <1>1, <1>3, <1>5, <2>2, MildThrough
<1> QED BY <1>4, <1>5

\* An uncertain start is found: its entry gets the latest turn.
FoundOf(x, l) ==
  [SetOp(x, l.op, "agent_running", l.latest) EXCEPT
     !.task.status = "in_progress", !.task.run = "running",
     !.task.uncertain = 0, !.task.conflict = FALSE, !.turn = l.latest]

LEMMA FoundIs ==
  ASSUME NEW n \in Nat, NEW x, Typed(x, n), NEW l, l.op \in DOMAIN x.ops, l.latest \in 0..n, l.latest # 0,
         NEW y, y = FoundOf(x, l)
  PROVE  /\ Mild(x, y) /\ Typed(y, n) /\ Beside(x, y, {"ops", "task", "turn"})
         /\ RowBut(x.task, y.task, {"status", "run", "uncertain", "conflict"})
         /\ y.task.status = "in_progress" /\ y.task.run = "running"
         /\ y.task.uncertain = 0 /\ ~y.task.conflict /\ y.turn = l.latest
         /\ DOMAIN y.ops = DOMAIN x.ops
         /\ y.ops[l.op].state = "agent_running" /\ y.ops[l.op].turn = l.latest
         /\ y.ops[l.op].prompt = x.ops[l.op].prompt /\ y.ops[l.op].prev = x.ops[l.op].prev
         /\ \A j \in DOMAIN x.ops : j # l.op => y.ops[j] = x.ops[j]
<1> DEFINE z == SetOp(x, l.op, "agent_running", l.latest)
           k == [z.task EXCEPT !.status = "in_progress", !.run = "running",
                               !.uncertain = 0, !.conflict = FALSE]
           w == [z EXCEPT !.turn = l.latest]
<1>1. /\ Beside(x, z, {"ops"}) /\ DOMAIN z.ops = DOMAIN x.ops
      /\ z.ops[l.op].state = "agent_running" /\ z.ops[l.op].turn = l.latest
      /\ z.ops[l.op].prompt = x.ops[l.op].prompt /\ z.ops[l.op].prev = x.ops[l.op].prev
      /\ \A j \in DOMAIN x.ops : j # l.op => z.ops[j] = x.ops[j]
  BY SetOpIs
<1>2. Mild(x, z) /\ Typed(z, n)
  <2>1. l.latest \in Nat /\ "agent_running" \in OpState
    BY DEF OpState
  <2> QED BY <2>1, SetOpMild, SetOpSane DEF Sane
<1>3. DOMAIN z = Fields /\ z.task \in TaskRec /\ z.ops \in Seq(OpRec)
  BY <1>2 DEF Typed, States, Fields
<1>4. y = [z EXCEPT !.turn = l.latest, !.task = k]
  BY <1>3 DEF FoundOf, Fields, TaskRec
<1>5. k \in TaskRec /\ RowBut(z.task, k, {"status", "run", "uncertain", "conflict"})
      /\ k.status = "in_progress" /\ k.run = "running" /\ k.uncertain = 0 /\ ~k.conflict
      /\ k.thread = z.task.thread /\ k.paused = z.task.paused
  BY <1>3 DEF TaskRec, RowBut, TaskFields
<1> HIDE DEF z, k
<1>6. Typed(w, n) /\ w.task = z.task /\ w.ops = z.ops /\ y = [w EXCEPT !.task = k]
  <2>1. w \in States(n) /\ Beside(z, w, Side) /\ Beside(z, w, {"turn"})
    BY <1>2, <1>3 DEF Typed, States, Beside, Side, Fields
  <2> QED BY <1>2, <1>3, <1>4, <2>1, SideSane DEF Sane, Beside, Fields
<1> HIDE DEF w
<1>7. Typed(y, n)
  <2>1. k.uncertain <= Len(w.ops)
    BY <1>3, <1>5, <1>6
  <2> QED BY <1>5, <1>6, <2>1, RowSane DEF Sane
<1>8. Beside(z, y, {"turn", "task"}) /\ y.turn = l.latest /\ y.task = k
  BY <1>3, <1>4 DEF Beside, Fields
<1>9. Mild(z, y)
  BY <1>2, <1>5, <1>8, MildRow DEF Beside, Observing, Unqueued, Fields
<1>10. Beside(x, y, {"ops", "task", "turn"}) /\ y.ops = z.ops /\ z.task = x.task
  BY <1>1, <1>8 DEF Beside, Fields
<1> QED BY <1>1, <1>2, <1>5, <1>7, <1>8, <1>9, <1>10, MildThrough

LEMMA RecoveredIs ==
  ASSUME NEW n \in Nat, NEW x, Typed(x, n), NEW l, l.op \in DOMAIN x.ops, l.latest \in 0..n,
         NEW y, y = Recovered(x, l)
  PROVE  /\ l.latest = 0 \/ l.latest = x.ops[l.op].prev => y = x
         /\ l.latest # 0 /\ l.latest # x.ops[l.op].prev =>
              LET f == FoundOf(x, l) IN
              /\ l.state = "active" => y = Watch(f, l.latest)
              /\ l.state # "active" => y = Result(f, l.latest, l.state, TRUE, "loop")
BY DEF Recovered, FoundOf
-----------------------------------------------------------------------------
(* What a step leaves of the starts that are under way.                      *)

OnWay(x) == x.worker.pc \in Before \cup {"turn"}

\* No start comes up: the worker goes on towards its thread, or ends.
Tame(x, y) ==
  /\ \/ y.worker = x.worker /\ y.starting = x.starting
     \/ x.worker.pc \in Before /\ y.worker.pc \in Before /\ y.starting = x.starting
     \/ /\ y.worker.pc \in Without /\ (Executing(y) => Executing(x))
        /\ y.starting = x.starting \/ (~y.starting /\ Executing(x))
  /\ y.follow = x.follow /\ (0 \in y.ended => 0 \in x.ended)
  /\ \/ y.stop = x.stop \/ y.stop.pc = "none"
     \/ x.stop.pc # "none" /\ y.stop.kind = x.stop.kind /\ y.stop.pc # "apply"
  /\ (y.loop.pc = "recover" => y.loop = x.loop)
  /\ (x.task.paused => y.task.paused) /\ Unqueued(x, y) /\ SamePrompts(x, y)
  /\ \A i \in 1..Len(x.ops) : Filed(x.ops[i]) => Filed(y.ops[i])
  /\ \/ \A i \in 1..Len(x.ops) : Closed(x.ops[i]) => Closed(y.ops[i])
     \/ x.worker.pc = "turn" /\ y.worker.pc # "turn"

LEMMA TameThrough ==
  ASSUME NEW x, NEW y, NEW z, Tame(x, y), Tame(y, z)
  PROVE  Tame(x, z)
<1>1. /\ z.follow = x.follow /\ (0 \in z.ended => 0 \in x.ended)
      /\ \/ z.stop = x.stop \/ z.stop.pc = "none"
         \/ x.stop.pc # "none" /\ z.stop.kind = x.stop.kind /\ z.stop.pc # "apply"
      /\ (z.loop.pc = "recover" => z.loop = x.loop)
      /\ (x.task.paused => z.task.paused) /\ Unqueued(x, z) /\ SamePrompts(x, z)
      /\ \A i \in 1..Len(x.ops) : Filed(x.ops[i]) => Filed(z.ops[i])
  BY DEF Tame, SamePrompts, Unqueued
<1>2. \/ z.worker = x.worker /\ z.starting = x.starting
      \/ x.worker.pc \in Before /\ z.worker.pc \in Before /\ z.starting = x.starting
      \/ /\ z.worker.pc \in Without /\ (Executing(z) => Executing(x))
         /\ z.starting = x.starting \/ (~z.starting /\ Executing(x))
  BY DEF Tame, Executing, Before, Without
<1>3. \/ \A i \in 1..Len(x.ops) : Closed(x.ops[i]) => Closed(z.ops[i])
      \/ x.worker.pc = "turn" /\ z.worker.pc # "turn"
  <2>1. x.worker.pc = "turn" /\ y.worker.pc # "turn" => z.worker.pc # "turn"
    BY DEF Tame, Before, Without
  <2>2. y.worker.pc = "turn" => x.worker.pc = "turn"
    BY DEF Tame, Before, Without
  <2> QED BY <2>1, <2>2 DEF Tame, SamePrompts
<1> QED BY <1>1, <1>2, <1>3 DEF Tame

LEMMA MildTame ==
  ASSUME NEW x, NEW y, Mild(x, y)
  PROVE  Tame(x, y)
<1>1. y.worker = x.worker /\ y.follow = x.follow /\ y.stop = x.stop /\ y.starting = x.starting
      /\ y.ended = x.ended /\ y.loop = x.loop
  BY DEF Mild, Beside, Fields, Observing
<1> QED BY <1>1 DEF Mild, Tame, Closing

\* Only the worker and its mark change.
LEMMA WorkerTame ==
  ASSUME NEW n, NEW x, Typed(x, n), NEW y, Beside(x, y, Observing \cup {"worker", "starting"}),
         y.task.paused = x.task.paused, Unqueued(x, y), y.ops = x.ops,
         \/ y.worker = x.worker /\ y.starting = x.starting
         \/ x.worker.pc \in Before /\ y.worker.pc \in Before /\ y.starting = x.starting
         \/ /\ y.worker.pc \in Without /\ (Executing(y) => Executing(x))
            /\ y.starting = x.starting \/ (~y.starting /\ Executing(x))
  PROVE  Tame(x, y)
<1>1. y.follow = x.follow /\ y.stop = x.stop /\ y.ended = x.ended /\ y.loop = x.loop
  BY DEF Beside, Fields, Observing
<1> QED BY <1>1 DEF Tame, SamePrompts

LEMMA EndedTame ==
  ASSUME NEW n \in Nat, NEW x, Typed(x, n), NEW y, y = Ended(x)
  PROVE  Tame(x, y) /\ Typed(y, n) /\ y.worker.pc = "none"
<1>1. /\ Beside(x, y, {"worker", "starting"}) /\ y.worker = NoWorker
      /\ y.starting = (x.starting /\ ~Executing(x))
  BY EndedIs
<1>2. y.task = x.task /\ y.queue = x.queue /\ y.ops = x.ops
  BY <1>1 DEF Beside, Fields
<1>3. y.worker.pc = "none" /\ y.worker.pc \in Without /\ ~Executing(y)
  BY <1>1 DEF NoWorker, Without, Executing
<1>4. x.starting \in BOOLEAN
  BY DEF Typed, States
<1>5. y.starting = x.starting \/ (~y.starting /\ Executing(x))
  BY <1>1, <1>4
<1>6. Tame(x, y)
  BY <1>1, <1>2, <1>3, <1>5, WorkerTame DEF Beside, Unqueued
<1> QED BY <1>3, <1>6, EndedSane DEF Sane

LEMMA EndedFailedTame ==
  ASSUME NEW n \in Nat, NEW x, Typed(x, n), NEW lost \in BOOLEAN, NEW y, y = Ended(FailedWith(x, lost))
  PROVE  Tame(x, y) /\ Typed(y, n) /\ y.worker.pc = "none"
<1> DEFINE z == FailedWith(x, lost)
<1>1. z = FailedWith(x, lost) /\ y = Ended(z)
  OBVIOUS
<1> HIDE DEF z
<1>2. Tame(x, z) /\ Typed(z, n)
  BY <1>1, FailedWithIs, FailedWithSane, MildTame DEF Sane
<1>3. Tame(z, y) /\ Typed(y, n) /\ y.worker.pc = "none"
  BY <1>1, <1>2, EndedTame
<1> QED BY <1>2, <1>3, TameThrough

LEMMA WatchTame ==
  ASSUME NEW n \in Nat, NEW x, Typed(x, n), NEW id \in 0..n, NEW y, y = Watch(x, id)
  PROVE  Tame(x, y) /\ Typed(y, n)
<1>1. /\ Beside(x, y, {"worker"})
      /\ x.worker.pc # "none" => y.worker = x.worker
      /\ x.worker.pc = "none" => y.worker.pc = "wait" /\ y.worker.op = 0
  BY WatchIs
<1>2. y.task = x.task /\ y.queue = x.queue /\ y.ops = x.ops /\ y.starting = x.starting
  BY <1>1 DEF Beside, Fields
<1>3. y.worker = x.worker \/ (y.worker.pc \in Without /\ ~Executing(y))
  BY <1>1 DEF Executing, Without
<1>4. Tame(x, y)
  BY <1>1, <1>2, <1>3, WorkerTame DEF Beside, Unqueued
<1> QED BY <1>4, WatchSane DEF Sane

\* The worker goes to another step, of its own or of waiting.
LEMMA GoneTame ==
  ASSUME NEW n \in Nat, NEW x, Typed(x, n), NEW pc, NEW y, y = Go(x, pc),
         (pc \in Before /\ x.worker.pc \in Before) \/ (pc = "limits" /\ x.worker.pc # "none")
  PROVE  Tame(x, y) /\ Beside(x, y, {"worker"}) /\ y.worker.pc = pc
<1>1. DOMAIN x = Fields /\ x.worker \in WorkerRec(n)
  BY DEF Typed, States, Fields
<1>2. /\ Beside(x, y, {"worker"}) /\ y.worker.pc = pc /\ y.worker.op = x.worker.op
  BY <1>1 DEF Go, Beside, Fields, WorkerRec
<1>3. y.task = x.task /\ y.queue = x.queue /\ y.ops = x.ops /\ y.starting = x.starting
  BY <1>2 DEF Beside, Fields
<1>4. \/ x.worker.pc \in Before /\ y.worker.pc \in Before /\ y.starting = x.starting
      \/ /\ y.worker.pc \in Without /\ (Executing(y) => Executing(x))
         /\ y.starting = x.starting \/ (~y.starting /\ Executing(x))
  BY <1>2, <1>3 DEF Executing, Without, Before
<1>5. Tame(x, y)
  BY <1>2, <1>3, <1>4, WorkerTame DEF Beside, Unqueued
<1> QED BY <1>2, <1>5

-----------------------------------------------------------------------------
(* One start at a time.                                                      *)

\* Users are patient, and Codex starts nothing late.
Patience(can) == "impatient" \notin can /\ "late" \notin can
\* Users do not ask for a turn while a follow-up is unanswered.
Solo(can) == "impatient" \notin can \/ "follow_up" \notin can

\* A follow-up is under way alone, and the task is marked as starting.
OneStart(x, can) ==
  /\ "follow_up" \notin can => x.follow.pc = "none"
  /\ Solo(can) /\ x.follow.pc # "none" =>
       ~OnWay(x) /\ x.queue.state # "pending" /\ x.starting /\ ~Executing(x)
  /\ Solo(can) /\ OnWay(x) => x.starting

\* No turn of the board is active.
OwnOver(c) == \A i \in DOMAIN c.turns : c.turns[i].prompt # 0 => c.turns[i].state # "active"

\* A pause that has begun is not undone, and nothing starts during it.
PauseHolds(x, c, can) ==
  Patience(can) /\ Pausing(x) =>
    /\ x.task.paused /\ ~OnWay(x) /\ x.follow.pc = "none" /\ x.queue.state # "pending"
    /\ x.stop.pc = "apply" => OwnOver(c)

\* Codex runs one turn at a time.
LastActive(c) == \A i \in DOMAIN c.turns : c.turns[i].state = "active" => i = Len(c.turns)

AllFiled(x) ==
  /\ 0 \notin x.ended
  /\ x.loop.pc = "recover" => x.loop.op \in 1..Len(x.ops)
  /\ \A i \in 1..Len(x.ops) : Filed(x.ops[i])

\* While a start is on its way to Codex, every other prompt's is known.
OthersClosed(x, c, can) ==
  Solo(can) => \A h \in {"worker", "follow"} : x[h].pc = "turn" /\ c.calls[h] = 0 =>
    \A i \in 1..Len(x.ops) : x.ops[i].prompt # x[h].prompt => Closed(x.ops[i])

Guarded(x, c, can) ==
  /\ OneStart(x, can) /\ PauseHolds(x, c, can) /\ LastActive(c) /\ AllFiled(x)
  /\ OthersClosed(x, c, can)
GInv == Guarded(s, codex, left.can)

\* Nothing starts while a pause is applied, and nothing starts blindly.
Confirming == Patience(left.can) /\ Pausing(s) /\ s.stop.pc = "apply"
GStep ==
  /\ Guarded(s', codex', left'.can)
  /\ Confirming => OwnOver(codex') /\ s'.worker.pc # "turn" /\ s'.follow.pc # "turn"
  /\ codex'.calls # codex.calls /\ Len(codex'.turns) > Len(codex.turns) /\ Solo(left.can)
       => \A i \in Own : Accounted(i)

CanSame == left'.can = left.can
LEMMA LeftCan ==
  ASSUME left \in LeftRec,
         \/ Unspent \/ Fault \/ Ask
         \/ left.stops > 0 /\ left' = [left EXCEPT !.stops = @ - 1]
         \/ left.native > 0 /\ left' = [left EXCEPT !.native = @ - 1]
  PROVE  CanSame
BY DEF Unspent, Fault, Ask, LeftRec, CanSame

CallsKept(x, c, d) == \A h \in {"worker", "follow"} : x[h].pc = "turn" => d.calls[h] = c.calls[h]

\* Turns of Codex end, if anything becomes of them.
Ends(c, d) ==
  /\ Len(d.turns) = Len(c.turns)
  /\ \A i \in DOMAIN d.turns :
       /\ i \in DOMAIN c.turns
       /\ d.turns[i].prompt = c.turns[i].prompt
       /\ d.turns[i].state = "active" => c.turns[i].state = "active"

\* The fields that Guarded is about are the same, but for the stop.
Alike(x, y) ==
  /\ y.worker = x.worker /\ y.follow = x.follow /\ y.starting = x.starting /\ y.queue = x.queue
  /\ y.ops = x.ops /\ y.loop = x.loop /\ y.ended = x.ended

LEMMA EndsOver ==
  ASSUME NEW c, NEW d, Ends(c, d)
  PROVE  (OwnOver(c) => OwnOver(d)) /\ (LastActive(c) => LastActive(d))
<1>1. ASSUME OwnOver(c), NEW i \in DOMAIN d.turns, d.turns[i].prompt # 0
      PROVE  d.turns[i].state # "active"
  <2>1. i \in DOMAIN c.turns /\ c.turns[i].prompt # 0
    BY <1>1 DEF Ends
  <2>2. c.turns[i].state # "active"
    BY <1>1, <2>1 DEF OwnOver
  <2> QED BY <2>1, <2>2 DEF Ends
<1>2. ASSUME LastActive(c), NEW i \in DOMAIN d.turns, d.turns[i].state = "active"
      PROVE  i = Len(d.turns)
  <2>1. i \in DOMAIN c.turns /\ c.turns[i].state = "active"
    BY <1>2 DEF Ends
  <2> QED BY <1>2, <2>1 DEF Ends, LastActive
<1>3. OwnOver(c) => OwnOver(d)
  BY <1>1 DEF OwnOver
<1>4. LastActive(c) => LastActive(d)
  BY <1>2 DEF LastActive
<1> QED BY <1>3, <1>4

LEMMA HeldStep ==
  ASSUME IInv, GInv, NEW z, Tame(s, z), Alike(z, s'), Ends(codex, codex'),
         CallsKept(s', codex, codex'), CanSame, PauseHolds(s', codex', left.can)
  PROVE  GStep
<1> DEFINE x == s
           y == s'
           c == codex
           d == codex'
           can == left.can
<1>1. /\ Guarded(x, c, can) /\ Tame(x, z) /\ Alike(z, y) /\ Ends(c, d) /\ CallsKept(y, c, d)
      /\ left'.can = can /\ PauseHolds(y, d, can)
  BY DEF GInv, CanSame
<1>2. Len(c.turns) \in Nat /\ Typed(x, Len(c.turns))
  BY Facts DEF Latest
<1> HIDE DEF x, y, c, d, can
<1>3. OnWay(y) => OnWay(x) /\ y.starting = x.starting
  BY <1>1 DEF Tame, Alike, OnWay, Before, Without
<1>4. y.follow = x.follow
  BY <1>1 DEF Tame, Alike
<1>5. y.queue.state = "pending" => x.queue.state = "pending"
  BY <1>1 DEF Tame, Alike, Unqueued
<1>6. OneStart(y, can)
  <2>1. ~OnWay(x) /\ ~Executing(x) => ~OnWay(y) /\ ~Executing(y) /\ y.starting = x.starting
    BY <1>1 DEF Tame, Alike, OnWay, Before, Without, Executing
  <2> QED BY <1>1, <1>3, <1>4, <1>5, <2>1 DEF Guarded, OneStart
<1>8. LastActive(d) /\ AllFiled(y)
  <2>1. LastActive(d)
    BY <1>1, EndsOver DEF Guarded
  <2>2. AllFiled(y)
    BY <1>1 DEF Guarded, AllFiled, Tame, Alike, SamePrompts
  <2> QED BY <2>1, <2>2
<1>9. OthersClosed(y, d, can)
  <2>1. SUFFICES ASSUME Solo(can), NEW h \in {"worker", "follow"}, y[h].pc = "turn", d.calls[h] = 0,
                        NEW i \in 1..Len(y.ops), y.ops[i].prompt # y[h].prompt
                 PROVE  Closed(y.ops[i])
    BY DEF OthersClosed
  <2>2. c.calls[h] = 0
    BY <1>1, <2>1 DEF CallsKept
  <2>3. x[h].pc = "turn" /\ x[h].prompt = y[h].prompt
    <3>1. CASE h = "worker"
      BY <1>1, <2>1, <3>1 DEF Tame, Alike, Before, Without
    <3>2. CASE h = "follow"
      BY <1>4, <2>1, <3>2
    <3> QED BY <3>1, <3>2
  <2>4. ~(x.worker.pc = "turn" /\ y.worker.pc # "turn")
    <3>1. CASE h = "worker"
      BY <2>1, <3>1
    <3>2. CASE h = "follow"
      BY <1>1, <2>1, <2>3, <3>2 DEF Guarded, OneStart, OnWay
    <3> QED BY <3>1, <3>2
  <2>5. i \in 1..Len(x.ops) /\ y.ops[i].prompt = x.ops[i].prompt
        /\ (Closed(x.ops[i]) => Closed(y.ops[i]))
    BY <1>1, <2>1, <2>4 DEF Tame, Alike, SamePrompts
  <2> QED BY <1>1, <2>1, <2>2, <2>3, <2>5 DEF Guarded, OthersClosed
<1>10. Guarded(y, d, can)
  BY <1>1, <1>6, <1>8, <1>9 DEF Guarded
<1>11. Patience(can) /\ Pausing(x) /\ x.stop.pc = "apply" =>
         OwnOver(d) /\ y.worker.pc # "turn" /\ y.follow.pc # "turn"
  BY <1>1, <1>3, <1>4, EndsOver DEF Guarded, PauseHolds, OnWay
<1>12. ~(Len(d.turns) > Len(c.turns))
  BY <1>1, <1>2 DEF Ends
<1> QED BY <1>1, <1>10, <1>11, <1>12 DEF GStep, Confirming, x, y, c, d, can

LEMMA EndsStep ==
  ASSUME IInv, GInv, Tame(s, s'), Ends(codex, codex'), CallsKept(s', codex, codex'), CanSame
  PROVE  GStep
<1>1. Guarded(s, codex, left.can)
  BY DEF GInv
<1>2. OnWay(s') => OnWay(s)
  BY DEF Tame, OnWay, Before, Without
<1>3. OwnOver(codex) => OwnOver(codex')
  BY EndsOver
<1>4. PauseHolds(s', codex', left.can)
  BY <1>1, <1>2, <1>3 DEF Guarded, PauseHolds, Pausing, Tame, Unqueued
<1> QED BY <1>4, HeldStep DEF Alike

LEMMA TameStep ==
  ASSUME IInv, GInv, Tame(s, s'), codex'.turns = codex.turns, CallsKept(s', codex, codex'), CanSame
  PROVE  GStep
BY EndsStep DEF Ends

\* Codex goes unnoticed.
LEMMA TameOnly ==
  ASSUME IInv, GInv, Tame(s, s'), UNCHANGED codex, CanSame
  PROVE  GStep
BY TameStep DEF CallsKept

LEMMA GoTame ==
  ASSUME NEW n \in Nat, NEW x, Typed(x, n), NEW pc \in Before, x.worker.pc \in Before,
         NEW y, y = Go(x, pc)
  PROVE  Tame(x, y)
BY GoneTame

LEMMA LimitsTame ==
  ASSUME NEW n \in Nat, NEW x, Typed(x, n), x.worker.pc # "none", NEW y, y = Go(x, "limits")
  PROVE  Tame(x, y)
BY GoneTame

\* The worker's way to its start.
LEMMA TowardsTame ==
  ASSUME NEW n \in Nat, NEW x, Typed(x, n), x.worker.pc \in Before, NEW y, y = TowardsThread(x)
  PROVE  Tame(x, y)
<1> DEFINE a == [x EXCEPT !.threadOp = "asked"]
           f == [x EXCEPT !.threadOp = "flagged"]
           u == FALSE
<1>1. DOMAIN x = Fields
  BY DEF Typed, States, Fields
<1>2. /\ Typed(a, n) /\ Beside(x, a, {"threadOp"}) /\ Typed(f, n) /\ Beside(x, f, {"threadOp"})
  BY <1>1 DEF Typed, States, Creation, Beside, Fields
<1>3. \/ y = Ended(x) \/ y = Go(x, "resume") \/ y = Go(x, "thread") \/ y = Go(a, "thread")
      \/ y = Ended(FailedWith(f, u))
  BY DEF TowardsThread
<1> HIDE DEF a, f, u
<1>4. a.worker.pc \in Before
  BY <1>2 DEF Beside, Fields
<1>5. ASSUME NEW z, Beside(x, z, {"threadOp"})
      PROVE  Tame(x, z)
  BY <1>5 DEF Tame, Unqueued, SamePrompts, Beside, Fields
<1>6. CASE y = Ended(x)
  BY <1>6, EndedTame
<1>7. CASE y = Go(x, "resume") \/ y = Go(x, "thread")
  <2>1. "resume" \in Before /\ "thread" \in Before
    BY DEF Before
  <2> QED BY <1>7, <2>1, GoTame
<1>8. CASE y = Go(a, "thread")
  <2>1. "thread" \in Before
    BY DEF Before
  <2>2. Tame(a, y)
    BY <1>2, <1>4, <1>8, <2>1, GoTame
  <2> QED BY <1>2, <1>5, <2>2, TameThrough
<1>9. CASE y = Ended(FailedWith(f, u))
  <2>1. u \in BOOLEAN
    BY DEF u
  <2>2. Tame(f, y)
    BY <1>2, <1>9, <2>1, EndedFailedTame
  <2> QED BY <1>2, <1>5, <2>2, TameThrough
<1> QED BY <1>3, <1>6, <1>7, <1>8, <1>9

\* The creations do not matter to the starts.
Placing == {"treeOp", "threadOp"}
LEMMA PlacedTame ==
  ASSUME NEW n \in Nat, NEW x, Typed(x, n), NEW y, Beside(x, y, Placing \cup {"task"}),
         y.task.paused = x.task.paused
  PROVE  Tame(x, y)
<1>1. y.worker = x.worker /\ y.follow = x.follow /\ y.stop = x.stop /\ y.starting = x.starting
      /\ y.queue = x.queue /\ y.ops = x.ops /\ y.ended = x.ended
      /\ y.loop = x.loop
  BY DEF Beside, Fields, Placing
<1> QED BY <1>1 DEF Tame, Unqueued, SamePrompts

LEMMA BeginGuarded ==
  ASSUME IInv, GInv, Begin
  PROVE  GStep
<1> DEFINE n == Latest
           m == [s EXCEPT !.task.tree = TRUE]
           a == [s EXCEPT !.treeOp = "asked"]
           f == [s EXCEPT !.treeOp = "flagged"]
           u == FALSE
<1>1. n \in Nat /\ Typed(s, n) /\ DOMAIN s = Fields /\ left \in LeftRec
  BY Facts
<1>2. UNCHANGED codex /\ CanSame /\ At("begin")
  BY <1>1, LeftCan DEF Begin
<1>3. s.task \in TaskRec
  BY <1>1 DEF Typed, States
<1>4. /\ Typed(a, n) /\ Beside(s, a, {"treeOp"}) /\ Typed(f, n) /\ Beside(s, f, {"treeOp"})
  BY <1>1 DEF Typed, States, Creation, Beside, Fields
<1>5. Typed(m, n) /\ Beside(s, m, {"task"}) /\ m.task.paused = s.task.paused
  <2> DEFINE k == [s.task EXCEPT !.tree = TRUE]
  <2>1. k \in TaskRec /\ k.uncertain = s.task.uncertain /\ k.paused = s.task.paused
    BY <1>3 DEF TaskRec
  <2>2. m = [s EXCEPT !.task = k]
    BY <1>1
  <2> HIDE DEF k
  <2> QED BY <1>1, <2>1, <2>2 DEF Typed, States, Beside, Fields
<1>6. \/ s' = Ended(s) \/ s' = TowardsThread(s) \/ s' = Go(s, "tree") \/ s' = TowardsThread(m)
      \/ s' = Go(a, "tree") \/ s' = Ended(FailedWith(f, u))
  BY DEF Begin
<1> HIDE DEF n, m, a, f, u
<1>7. /\ s.worker.pc \in Before /\ m.worker.pc \in Before /\ a.worker.pc \in Before /\ "tree" \in Before
  BY <1>2, <1>4, <1>5 DEF At, Beside, Fields, Before
<1>8. Tame(s, m) /\ Tame(s, a) /\ Tame(s, f)
  <2>1. Beside(s, m, Placing \cup {"task"}) /\ Beside(s, a, Placing \cup {"task"})
        /\ Beside(s, f, Placing \cup {"task"})
    BY <1>4, <1>5 DEF Beside, Placing
  <2>2. a.task.paused = s.task.paused /\ f.task.paused = s.task.paused
    BY <1>4 DEF Beside, Fields
  <2> QED BY <1>1, <1>5, <2>1, <2>2, PlacedTame
<1>9. Tame(s, s')
  <2>1. CASE s' = Ended(s)
    BY <1>1, <2>1, EndedTame
  <2>2. CASE s' = TowardsThread(s)
    BY <1>1, <1>7, <2>2, TowardsTame
  <2>3. CASE s' = Go(s, "tree")
    BY <1>1, <1>7, <2>3, GoTame
  <2>4. CASE s' = TowardsThread(m)
    <3>1. Tame(m, s')
      BY <1>1, <1>5, <1>7, <2>4, TowardsTame
    <3> QED BY <1>8, <3>1, TameThrough
  <2>5. CASE s' = Go(a, "tree")
    <3>1. Tame(a, s')
      BY <1>1, <1>4, <1>7, <2>5, GoTame
    <3> QED BY <1>8, <3>1, TameThrough
  <2>6. CASE s' = Ended(FailedWith(f, u))
    <3>0. u \in BOOLEAN
      BY DEF u
    <3>1. Tame(f, s')
      BY <1>1, <1>4, <2>6, <3>0, EndedFailedTame
    <3> QED BY <1>8, <3>1, TameThrough
  <2> QED BY <1>6, <2>1, <2>2, <2>3, <2>4, <2>5, <2>6
<1> QED BY <1>2, <1>9, TameOnly

\* The row, and the records of creations, are written.
Placed(x, k, t, u) == [x EXCEPT !.task = k, !.treeOp = t, !.threadOp = u]

LEMMA PlacedTyped ==
  ASSUME NEW n \in Nat, NEW x, Typed(x, n), NEW k \in TaskRec, k.uncertain = x.task.uncertain,
         k.paused = x.task.paused, NEW t \in Creation, NEW u \in Creation,
         NEW y, y = Placed(x, k, t, u)
  PROVE  Typed(y, n) /\ Tame(x, y) /\ y.worker = x.worker
<1>1. DOMAIN x = Fields
  BY DEF Typed, States, Fields
<1>2. Beside(x, y, Placing \cup {"task"}) /\ y.task = k
  BY <1>1 DEF Beside, Fields, Placing, Placed
<1>3. y \in States(n)
  BY DEF Typed, States, Placed
<1>4. y.ops = x.ops /\ y.worker = x.worker /\ y.follow = x.follow /\ y.stop = x.stop
  BY <1>2 DEF Beside, Fields, Placing
<1>5. Typed(y, n)
  BY <1>2, <1>3, <1>4 DEF Typed
<1> QED BY <1>2, <1>4, <1>5, PlacedTame

LEMMA ReadiedTame ==
  ASSUME NEW n \in Nat, NEW x, Typed(x, n), x.worker.pc \in Before, NEW y, y = Readied(x)
  PROVE  Tame(x, y)
<1> DEFINE k == [x.task EXCEPT !.run = "running"]
           z == [x EXCEPT !.task = k]
<1>1. DOMAIN x = Fields /\ x.task \in TaskRec /\ x.treeOp \in Creation /\ x.threadOp \in Creation
  BY DEF Typed, States, Fields
<1>2. y = Ended(x) \/ y = Go(z, "options")
  BY <1>1 DEF Readied
<1>3. k \in TaskRec /\ k.uncertain = x.task.uncertain /\ k.paused = x.task.paused
  BY <1>1 DEF TaskRec
<1>4. z = Placed(x, k, x.treeOp, x.threadOp)
  BY <1>1 DEF Fields, Typed, States, Placed
<1> HIDE DEF k, z
<1>5. Typed(z, n) /\ Tame(x, z) /\ z.worker = x.worker
  BY <1>1, <1>3, <1>4, PlacedTyped
<1>6. CASE y = Ended(x)
  BY <1>6, EndedTame
<1>7. CASE y = Go(z, "options")
  <2>1. Tame(z, y)
    BY <1>5, <1>7, GoTame DEF Before
  <2> QED BY <1>5, <2>1, TameThrough
<1> QED BY <1>2, <1>6, <1>7

LEMMA TreeCreatedGuarded ==
  ASSUME IInv, GInv, TreeCreated
  PROVE  GStep
<1> DEFINE n == Latest
           k == [s.task EXCEPT !.tree = TRUE]
           t == IF s.managed THEN "ready" ELSE s.treeOp
           z == Placed(s, k, t, s.threadOp)
<1>1. n \in Nat /\ Typed(s, n) /\ DOMAIN s = Fields /\ left \in LeftRec /\ Shown(codex)
  BY Facts
<1>2. codex' = [codex EXCEPT !.trees = @ + 1] /\ CanSame /\ At("tree")
  BY <1>1, LeftCan DEF TreeCreated
<1>3. s.task \in TaskRec /\ s.treeOp \in Creation /\ s.threadOp \in Creation
  BY <1>1 DEF Typed, States
<1>4. k \in TaskRec /\ k.uncertain = s.task.uncertain /\ k.paused = s.task.paused
  BY <1>3 DEF TaskRec
<1>5. t \in Creation
  BY <1>3 DEF Creation
<1>6. s' = TowardsThread(z)
  <2>1. s' = TowardsThread([s EXCEPT !.task.tree = TRUE, !.treeOp = IF s.managed THEN "ready" ELSE @])
    BY DEF TreeCreated
  <2>2. [s EXCEPT !.task.tree = TRUE, !.treeOp = IF s.managed THEN "ready" ELSE @] = z
    BY <1>1 DEF Fields, Typed, States, Placed
  <2> QED BY <2>1, <2>2
<1>7. z = Placed(s, k, t, s.threadOp)
  OBVIOUS
<1> HIDE DEF n, k, t, z
<1>8. Typed(z, n) /\ Tame(s, z) /\ z.worker = s.worker
  BY <1>1, <1>3, <1>4, <1>5, <1>7, PlacedTyped
<1>9. Tame(z, s')
  BY <1>1, <1>2, <1>6, <1>8, TowardsTame DEF At, Before
<1>10. Tame(s, s')
  BY <1>8, <1>9, TameThrough
<1>11. codex'.turns = codex.turns /\ codex'.calls = codex.calls
  BY <1>1, <1>2 DEF Shown, CodexRec
<1> QED BY <1>2, <1>10, <1>11, TameStep DEF CallsKept

LEMMA TreeLostGuarded ==
  ASSUME IInv, GInv, TreeLost
  PROVE  GStep
<1> DEFINE n == Latest
           t == IF s.managed THEN "flagged" ELSE s.treeOp
           z == Placed(s, s.task, t, s.threadOp)
<1>1. n \in Nat /\ Typed(s, n) /\ DOMAIN s = Fields /\ left \in LeftRec /\ Shown(codex)
  BY Facts
<1>2. CanSame
  BY <1>1, LeftCan DEF TreeLost, GivesUp
<1>3. s.task \in TaskRec /\ s.treeOp \in Creation /\ s.threadOp \in Creation
  BY <1>1 DEF Typed, States
<1>4. t \in Creation
  BY <1>3 DEF Creation
<1>5. PICK u \in BOOLEAN : s' = Ended(FailedWith(z, u))
  <2>1. PICK u \in BOOLEAN :
          s' = Ended(FailedWith([s EXCEPT !.treeOp = IF s.managed THEN "flagged" ELSE @], u))
    BY DEF TreeLost
  <2>2. [s EXCEPT !.treeOp = IF s.managed THEN "flagged" ELSE @] = z
    BY <1>1 DEF Fields, Typed, States, Placed
  <2> QED BY <2>1, <2>2
<1>6. z = Placed(s, s.task, t, s.threadOp)
  OBVIOUS
<1> HIDE DEF n, t, z
<1>7. Typed(z, n) /\ Tame(s, z)
  BY <1>1, <1>3, <1>4, <1>6, PlacedTyped
<1>8. Tame(z, s')
  BY <1>1, <1>4, <1>5, <1>7, EndedFailedTame
<1>9. Tame(s, s')
  BY <1>7, <1>8, TameThrough
<1>10. codex'.turns = codex.turns /\ codex'.calls = codex.calls
  BY <1>1 DEF TreeLost, Shown, CodexRec
<1> QED BY <1>2, <1>9, <1>10, TameStep DEF CallsKept

LEMMA ThreadCreatedGuarded ==
  ASSUME IInv, GInv, ThreadCreated
  PROVE  GStep
<1> DEFINE n == Latest
           k == [s.task EXCEPT !.thread = TRUE]
           t == IF s.managed THEN "ready" ELSE s.threadOp
           z == Placed(s, k, s.treeOp, t)
<1>1. n \in Nat /\ Typed(s, n) /\ DOMAIN s = Fields /\ left \in LeftRec /\ Shown(codex)
  BY Facts
<1>2. codex' = [codex EXCEPT !.threads = @ + 1] /\ CanSame /\ At("thread")
  BY <1>1, LeftCan DEF ThreadCreated
<1>3. s.task \in TaskRec /\ s.treeOp \in Creation /\ s.threadOp \in Creation
  BY <1>1 DEF Typed, States
<1>4. k \in TaskRec /\ k.uncertain = s.task.uncertain /\ k.paused = s.task.paused
  BY <1>3 DEF TaskRec
<1>5. t \in Creation
  BY <1>3 DEF Creation
<1>6. s' = Readied(z)
  <2>1. s' = Readied([s EXCEPT !.task.thread = TRUE, !.threadOp = IF s.managed THEN "ready" ELSE @])
    BY DEF ThreadCreated
  <2>2. [s EXCEPT !.task.thread = TRUE, !.threadOp = IF s.managed THEN "ready" ELSE @] = z
    BY <1>1 DEF Fields, Typed, States, Placed
  <2> QED BY <2>1, <2>2
<1>7. z = Placed(s, k, s.treeOp, t)
  OBVIOUS
<1> HIDE DEF n, k, t, z
<1>8. Typed(z, n) /\ Tame(s, z) /\ z.worker = s.worker
  BY <1>1, <1>3, <1>4, <1>5, <1>7, PlacedTyped
<1>9. Tame(z, s')
  BY <1>1, <1>2, <1>6, <1>8, ReadiedTame DEF At, Before
<1>10. Tame(s, s')
  BY <1>8, <1>9, TameThrough
<1>11. codex'.turns = codex.turns /\ codex'.calls = codex.calls
  BY <1>1, <1>2 DEF Shown, CodexRec
<1> QED BY <1>2, <1>10, <1>11, TameStep DEF CallsKept

LEMMA ThreadLostGuarded ==
  ASSUME IInv, GInv, ThreadLost
  PROVE  GStep
<1> DEFINE n == Latest
           t == IF s.managed THEN "flagged" ELSE s.threadOp
           z == Placed(s, s.task, s.treeOp, t)
<1>1. n \in Nat /\ Typed(s, n) /\ DOMAIN s = Fields /\ left \in LeftRec /\ Shown(codex)
  BY Facts
<1>2. CanSame
  BY <1>1, LeftCan DEF ThreadLost, GivesUp
<1>3. s.task \in TaskRec /\ s.treeOp \in Creation /\ s.threadOp \in Creation
  BY <1>1 DEF Typed, States
<1>4. t \in Creation
  BY <1>3 DEF Creation
<1>5. PICK u \in BOOLEAN : s' = Ended(FailedWith(z, u))
  <2>1. PICK u \in BOOLEAN :
          s' = Ended(FailedWith([s EXCEPT !.threadOp = IF s.managed THEN "flagged" ELSE @], u))
    BY DEF ThreadLost
  <2>2. [s EXCEPT !.threadOp = IF s.managed THEN "flagged" ELSE @] = z
    BY <1>1 DEF Fields, Typed, States, Placed
  <2> QED BY <2>1, <2>2
<1>6. z = Placed(s, s.task, s.treeOp, t)
  OBVIOUS
<1> HIDE DEF n, t, z
<1>7. Typed(z, n) /\ Tame(s, z)
  BY <1>1, <1>3, <1>4, <1>6, PlacedTyped
<1>8. Tame(z, s')
  BY <1>1, <1>4, <1>5, <1>7, EndedFailedTame
<1>9. Tame(s, s')
  BY <1>7, <1>8, TameThrough
<1>10. codex'.turns = codex.turns /\ codex'.calls = codex.calls
  BY <1>1 DEF ThreadLost, Shown, CodexRec
<1> QED BY <1>2, <1>9, <1>10, TameStep DEF CallsKept

LEMMA ResumedGuarded ==
  ASSUME IInv, GInv, Resumed
  PROVE  GStep
<1>1. Latest \in Nat /\ Typed(s, Latest) /\ left \in LeftRec
  BY Facts
<1>2. CanSame /\ UNCHANGED codex /\ s' = Readied(s) /\ s.worker.pc \in Before
  BY <1>1, LeftCan DEF Resumed, At, Before
<1>3. Tame(s, s')
  BY <1>1, <1>2, ReadiedTame
<1> QED BY <1>2, <1>3, TameOnly

LEMMA NotReadiedGuarded ==
  ASSUME IInv, GInv, NotReadied
  PROVE  GStep
<1>1. Latest \in Nat /\ Typed(s, Latest) /\ left \in LeftRec
  BY Facts
<1>2. CanSame /\ UNCHANGED codex /\ \E u \in BOOLEAN : s' = Ended(FailedWith(s, u))
  <2>1. Unspent \/ Fault
    BY DEF NotReadied, GivesUp
  <2>2. FALSE \in BOOLEAN
    OBVIOUS
  <2> QED BY <1>1, <2>1, <2>2, LeftCan DEF NotReadied
<1>3. Tame(s, s')
  BY <1>1, <1>2, EndedFailedTame
<1> QED BY <1>2, <1>3, TameOnly

\* Only the answer of one of the two calls is taken.
LEMMA CallTaken ==
  ASSUME NEW c, Shown(c), NEW d,
         d = [c EXCEPT !.calls.worker = 0] \/ d = [c EXCEPT !.calls.follow = 0]
  PROVE  /\ d.turns = c.turns /\ d.inbox = c.inbox
         /\ d = [c EXCEPT !.calls.worker = 0] => d.calls.follow = c.calls.follow /\ d.calls.worker = 0
         /\ d = [c EXCEPT !.calls.follow = 0] => d.calls.worker = c.calls.worker /\ d.calls.follow = 0
<1>1. /\ DOMAIN c = {"threads", "trees", "turns", "calls", "late", "inbox"}
      /\ c.calls \in CallRec(Len(c.turns))
  BY DEF Shown, CodexRec
<1>2. DOMAIN c.calls = {"worker", "follow"}
  BY <1>1 DEF CallRec
<1> QED BY <1>1, <1>2

\* The row and the memory after the start of the worker's turn was answered.
LEMMA StartedIs ==
  ASSUME IInv, TurnStarted
  PROVE  LET id == codex.calls.worker
             z == SetOp(s, s.worker.op, "agent_running", id)
         IN  /\ id \in 1..Latest /\ Typed(z, Latest) /\ Mild(s, z)
             /\ Beside(z, s', {"turn", "runs", "starting", "worker"})
             /\ s'.turn = id /\ ~s'.starting
             /\ s'.worker.pc = "wait" /\ s'.worker.turn = id /\ s'.worker.op = s.worker.op
             /\ LastRun(s').turn = id
             /\ IF LastRun(s).turn = id THEN s'.runs = s.runs ELSE Turned(s') = Turned(s) \cup {id}
<1> DEFINE n == Latest
           id == codex.calls.worker
           z == Accepted("worker", id)
           e == [turn |-> id, state |-> "running"]
           w == [s.worker EXCEPT !.pc = "wait", !.turn = id]
           r == IF LastRun(s).turn = id THEN s.runs ELSE Append(s.runs, e)
<1>1. id \in 1..n /\ n \in Nat /\ Typed(s, n) /\ DOMAIN s = Fields
  <2>1. codex.calls \in CallRec(n) /\ n \in Nat /\ Typed(s, n) /\ DOMAIN s = Fields
    BY Facts
  <2>2. id # 0
    BY DEF TurnStarted, Answered
  <2> QED BY <2>1, <2>2 DEF CallRec
<1>2. z = SetOp(s, s.worker.op, "agent_running", id)
  BY DEF Accepted
<1>3. Typed(z, n) /\ Mild(s, z) /\ Beside(s, z, {"ops"})
  <2>1. id \in Nat /\ id # 0 /\ "agent_running" \in OpState
    BY <1>1 DEF OpState
  <2> QED BY <1>1, <1>2, <2>1, SetOpSane, SetOpMild DEF Sane
<1>4. DOMAIN z = Fields /\ z.worker = s.worker /\ z.runs = s.runs
  BY <1>3 DEF Beside, Fields
<1>5. s' = [z EXCEPT !.turn = id, !.runs = r, !.starting = FALSE, !.worker = w]
  <2> DEFINE known == [z EXCEPT !.turn = id]
             run == IF LastRun(s).turn = id THEN known ELSE [known EXCEPT !.runs = Append(@, e)]
  <2>1. run.worker = s.worker
    BY <1>4 DEF Fields
  <2>2. s' = [run EXCEPT !.starting = FALSE, !.worker = w]
    BY <2>1 DEF TurnStarted
  <2> HIDE DEF z, e, w
  <2>3. run = [z EXCEPT !.turn = id, !.runs = r]
    BY <1>4 DEF Fields
  <2> HIDE DEF run
  <2> QED BY <2>2, <2>3
<1>6. w.pc = "wait" /\ w.turn = id /\ w.op = s.worker.op
  <2>1. s.worker \in WorkerRec(n)
    BY <1>1 DEF Typed, States
  <2> QED BY <2>1 DEF WorkerRec
<1> HIDE DEF z, w, r
<1>7. /\ Beside(z, s', {"turn", "runs", "starting", "worker"})
      /\ s'.turn = id /\ ~s'.starting /\ s'.worker = w /\ s'.runs = r
  BY <1>4, <1>5 DEF Beside, Fields
<1>8. CASE LastRun(s).turn = id
  <2>1. s'.runs = s.runs
    BY <1>7, <1>8 DEF r
  <2>2. LastRun(s').turn = id
    BY <1>8, <2>1 DEF LastRun
  <2> QED BY <1>1, <1>2, <1>3, <1>6, <1>7, <1>8, <2>1, <2>2
<1>9. CASE LastRun(s).turn # id
  <2>1. s'.runs = Append(s.runs, [turn |-> id, state |-> "running"])
    BY <1>7, <1>9 DEF r
  <2>2. LastRun(s').turn = id /\ Turned(s') = Turned(s) \cup {id}
    BY <1>1, <2>1, TurnedMore
  <2> QED BY <1>1, <1>2, <1>3, <1>6, <1>7, <1>9, <2>2
<1> QED BY <1>8, <1>9

LEMMA TurnStartedGuarded ==
  ASSUME IInv, GInv, TurnStarted
  PROVE  GStep
<1> DEFINE id == codex.calls.worker
           z == SetOp(s, s.worker.op, "agent_running", id)
<1>1. /\ Typed(z, Latest) /\ Mild(s, z) /\ Beside(z, s', {"turn", "runs", "starting", "worker"})
      /\ ~s'.starting /\ s'.worker.pc = "wait"
  BY StartedIs
<1> HIDE DEF z
<1>2. s.worker.pc = "turn" /\ codex' = [codex EXCEPT !.calls.worker = 0] /\ CanSame /\ Shown(codex)
  BY Facts, LeftCan DEF TurnStarted, At
<1>3. z.worker = s.worker /\ Tame(s, z)
  BY <1>1, MildTame DEF Mild, Beside, Fields, Observing
<1>4. Executing(z) /\ s'.worker.pc \in Without
  BY <1>1, <1>2, <1>3 DEF Executing, Without
<1>5. s'.task = z.task /\ s'.queue = z.queue /\ s'.ops = z.ops
  BY <1>1 DEF Beside, Fields
<1>6. Tame(z, s')
  BY <1>1, <1>4, <1>5, WorkerTame DEF Beside, Observing, Unqueued
<1>7. Tame(s, s')
  BY <1>3, <1>6, TameThrough
<1>8. codex'.turns = codex.turns /\ codex'.calls.follow = codex.calls.follow
  BY <1>2, CallTaken
<1>9. CallsKept(s', codex, codex')
  BY <1>1, <1>8 DEF CallsKept
<1> QED BY <1>2, <1>7, <1>8, <1>9, TameStep

LEMMA RefusedTame ==
  ASSUME IInv, NEW h \in {"worker", "follow"}, NEW y, y = Refused(h)
  PROVE  Mild(s, y) /\ Tame(s, y) /\ Typed(y, Latest)
<1>1. y = SetOp(s, s[h].op, "blocked", 0)
  BY DEF Refused
<1>2. "blocked" \in OpState /\ 0 \in Nat
  BY DEF OpState
<1>3. Mild(s, y) /\ Typed(y, Latest)
  BY <1>1, <1>2, Facts, SetOpMild, RefusedSane DEF Sane
<1> QED BY <1>3, MildTame

LEMMA TurnRefusedGuarded ==
  ASSUME IInv, GInv, TurnRefused
  PROVE  GStep
<1> DEFINE n == Latest
           z == Refused("worker")
           a == AskLimits(z, "worker", 0)
           u == FALSE
<1>1. n \in Nat /\ left \in LeftRec /\ z = Refused("worker") /\ a = AskLimits(z, "worker", 0)
  BY Facts
<1>2. UNCHANGED codex /\ CanSame /\ s.worker.pc = "turn"
      /\ (s' = Ended(FailedWith(z, u)) \/ s' = Ended(z) \/ s' = Go(a, "limits"))
  BY <1>1, LeftCan DEF TurnRefused, At
<1> HIDE DEF n, z, a, u
<1>3. Mild(s, z) /\ Tame(s, z) /\ Typed(z, n)
  BY <1>1, RefusedTame DEF n
<1>4. Beside(z, a, {"limits"}) /\ Typed(a, n)
  <2>1. 0 \in 0..n
    BY <1>1
  <2> QED BY <1>1, <1>3, <2>1, AskLimitsIs, AskLimitsSane DEF Sane
<1>5. Tame(z, a) /\ a.worker.pc = "turn"
  BY <1>2, <1>3, <1>4, MildRow, MildTame DEF Mild, Beside, Fields, Observing, Unqueued
<1>6. Tame(s, s')
  <2>1. CASE s' = Ended(FailedWith(z, u))
    <3>1. u \in BOOLEAN
      BY DEF u
    <3>2. Tame(z, s')
      BY <1>1, <1>3, <2>1, <3>1, EndedFailedTame
    <3> QED BY <1>3, <3>2, TameThrough
  <2>2. CASE s' = Ended(z)
    <3>1. Tame(z, s')
      BY <1>1, <1>3, <2>2, EndedTame
    <3> QED BY <1>3, <3>1, TameThrough
  <2>3. CASE s' = Go(a, "limits")
    <3>1. Tame(a, s')
      BY <1>1, <1>4, <1>5, <2>3, LimitsTame
    <3>2. Tame(s, a)
      BY <1>3, <1>5, TameThrough
    <3> QED BY <3>1, <3>2, TameThrough
  <2> QED BY <1>2, <2>1, <2>2, <2>3
<1> QED BY <1>2, <1>6, TameOnly

\* The worker gives up a start that is lost.
LEMMA LostTame ==
  ASSUME IInv, s.worker.pc = "turn", s' = Ended(FailedWith(Lost("worker"), TRUE))
  PROVE  Tame(s, s')
<1> DEFINE n == Latest
           i == s.worker.op
           z == Lost("worker")
           u == TRUE
<1>1. n \in Nat /\ Typed(s, n) /\ DOMAIN s = Fields
  BY Facts
<1>2. s.worker.pc = "turn" /\ s' = Ended(FailedWith(z, u))
  OBVIOUS
<1>3. z = LostOf(s, i) /\ z = Lost("worker") /\ u \in BOOLEAN
  BY DEF Lost, LostOf
<1> HIDE DEF n, i, z, u
<1>4. Typed(z, n) /\ Beside(s, z, {"ops", "task"}) /\ SamePrompts(s, z)
  BY <1>3, LostStep DEF n, Sane, Calm, Still
<1>5. z.task.paused = s.task.paused /\ \A j \in 1..Len(s.ops) : Filed(s.ops[j]) => Filed(z.ops[j])
  <2>1. CASE i \in DOMAIN s.ops
    <3>0. z = LostOf(s, i)
      BY <1>3
    <3>1. /\ RowBut(s.task, z.task, {"conflict", "uncertain"}) /\ z.ops[i].state = "uncertain"
          /\ \A j \in DOMAIN s.ops : j # i => z.ops[j] = s.ops[j]
      BY <1>1, <3>0, <2>1, LostIs
    <3>2. DOMAIN s.ops = 1..Len(s.ops)
      BY <1>1, OpsOf
    <3> QED BY <3>1, <3>2 DEF RowBut, TaskFields, Filed
  <2>2. CASE i \notin DOMAIN s.ops
    <3> DEFINE q == s.ops
               p == SetOp(s, i, "uncertain", s.ops[i].turn)
    <3>1. z = [p EXCEPT !.task.uncertain = i, !.task.conflict = TRUE]
      BY <1>3 DEF LostOf
    <3>2. [s.ops EXCEPT ![i].state = "uncertain", ![i].turn = s.ops[i].turn] = s.ops
      BY <1>1, <2>2, OpsOf
    <3>3. p.ops = s.ops /\ p.task = s.task /\ DOMAIN p = Fields
      BY <1>1, <3>2 DEF SetOp, Fields
    <3> HIDE DEF p
    <3>4. s.task \in TaskRec
      BY <1>1 DEF Typed, States
    <3>5. z.ops = s.ops /\ z.task = [s.task EXCEPT !.uncertain = i, !.conflict = TRUE]
      BY <3>1, <3>3, <3>4 DEF Fields, TaskRec
    <3> QED BY <3>4, <3>5 DEF TaskRec
  <2> QED BY <2>1, <2>2
<1>6. z.worker = s.worker /\ z.starting = s.starting /\ z.follow = s.follow /\ z.stop = s.stop
      /\ z.ended = s.ended /\ z.queue = s.queue /\ z.loop = s.loop
  BY <1>4 DEF Beside, Fields
<1>7. Tame(z, s') /\ s'.worker.pc = "none"
  BY <1>1, <1>2, <1>3, <1>4, EndedFailedTame
<1> QED
  <2>1. /\ s'.worker.pc \in Without /\ (Executing(s') => Executing(s))
        /\ s'.starting = s.starting \/ (~s'.starting /\ Executing(s))
    <3>1. Executing(z) = Executing(s)
      BY <1>6 DEF Executing
    <3>2. s'.worker.pc \in Without /\ ~Executing(s') /\ z.worker.pc = "turn"
      BY <1>2, <1>6, <1>7 DEF Without, Executing
    <3> QED BY <1>6, <1>7, <3>1, <3>2 DEF Tame, Without, Before
  <2>2. /\ s'.follow = s.follow /\ (0 \in s'.ended => 0 \in s.ended)
        /\ \/ s'.stop = s.stop \/ s'.stop.pc = "none"
           \/ s.stop.pc # "none" /\ s'.stop.kind = s.stop.kind /\ s'.stop.pc # "apply"
        /\ (s'.loop.pc = "recover" => s'.loop = s.loop)
        /\ (s.task.paused => s'.task.paused) /\ Unqueued(s, s')
    BY <1>5, <1>6, <1>7 DEF Tame, Unqueued
  <2>3. SamePrompts(s, s') /\ \A j \in 1..Len(s.ops) : Filed(s.ops[j]) => Filed(s'.ops[j])
    BY <1>4, <1>5, <1>7 DEF Tame, SamePrompts
  <2> QED BY <1>2, <1>7, <2>1, <2>2, <2>3 DEF Tame

LEMMA TurnLostGuarded ==
  ASSUME IInv, GInv, TurnLost
  PROVE  GStep
<1> DEFINE a == Abandoned(codex)
<1>1. PICK broken \in BOOLEAN :
        s' = Ended(FailedWith(Unknown("worker", broken), broken))
  BY DEF TurnLost
<1>2. codex' = [a EXCEPT !.calls.worker = 0] /\ CanSame /\ s.worker.pc = "turn"
  BY Facts, LeftCan DEF TurnLost, GivesUp, At
<1>3. Shown(a) /\ a.turns = codex.turns /\ a.calls = codex.calls
  BY GoodAbandoned
<1> HIDE DEF a
<1>4. codex'.turns = codex.turns /\ codex'.calls.follow = codex.calls.follow
  <2>1. \/ codex' = [a EXCEPT !.calls.worker = 0]
        \/ codex' = [a EXCEPT !.calls.follow = 0]
    BY <1>2
  <2>2. /\ codex'.turns = a.turns
        /\ codex' = [a EXCEPT !.calls.worker = 0] => codex'.calls.follow = a.calls.follow
    BY ONLY <1>3, <2>1, CallTaken
  <2> QED BY <1>2, <1>3, <2>2
<1>5. ASSUME broken = TRUE
      PROVE  Tame(s, s')
  <2>1. s' = Ended(FailedWith(Lost("worker"), TRUE))
    BY <1>1, <1>5 DEF Unknown
  <2> QED BY <1>2, <2>1, LostTame
<1>6. ASSUME broken = FALSE
      PROVE  Tame(s, s')
  <2> DEFINE z == Refused("worker")
             u == FALSE
  <2>1. z = Refused("worker") /\ s' = Ended(FailedWith(z, u)) /\ u \in BOOLEAN
    BY <1>1, <1>6 DEF Unknown
  <2> HIDE DEF z, u
  <2>2. Tame(s, z) /\ Typed(z, Latest) /\ Latest \in Nat
    BY <2>1, RefusedTame, Facts
  <2>3. Tame(z, s')
    BY <2>1, <2>2, EndedFailedTame
  <2>4. ASSUME NEW y, y = s'
        PROVE  Tame(s, y)
    BY <2>2, <2>3, <2>4, TameThrough
  <2> QED BY <2>4
<1>7. Tame(s, s')
  <2>1. broken = TRUE \/ broken = FALSE
    OBVIOUS
  <2> QED BY <1>5, <1>6, <2>1
<1>8. s'.worker.pc = "none"
  <2> DEFINE z == Unknown("worker", broken)
  <2>1. z = Unknown("worker", broken)
    OBVIOUS
  <2> HIDE DEF z
  <2>2. Typed(z, Latest) /\ Latest \in Nat
    BY <2>1, UnknownSane, Facts DEF Sane
  <2> QED BY <1>1, <2>1, <2>2, EndedFailedTame
<1>9. CallsKept(s', codex, codex')
  BY <1>4, <1>8 DEF CallsKept
<1> QED BY <1>2, <1>4, <1>7, <1>9, TameStep

\* The loop, the ends and the look-ups are written.
LEMMA NotedTame ==
  ASSUME NEW x, NEW y, Beside(x, y, {"loop", "ended", "limits"}),
         0 \in y.ended => 0 \in x.ended, y.loop.pc = "recover" => y.loop = x.loop
  PROVE  Tame(x, y)
<1>1. y.worker = x.worker /\ y.follow = x.follow /\ y.stop = x.stop /\ y.starting = x.starting
      /\ y.queue = x.queue /\ y.ops = x.ops /\ y.task = x.task
  BY DEF Beside, Fields
<1> QED BY <1>1 DEF Tame, Unqueued, SamePrompts

LEMMA LoopTame ==
  ASSUME NEW n \in Nat, NEW x, Typed(x, n), NEW y, NEW pc \in {"idle", "limits", "reconcile"},
         y = [x EXCEPT !.loop.pc = pc] \/ y = [x EXCEPT !.loop = NoLoop]
         \/ y = [x EXCEPT !.loop = [NoLoop EXCEPT !.pc = pc]]
  PROVE  Tame(x, y)
<1> DEFINE l == [x.loop EXCEPT !.pc = pc]
           k == [NoLoop EXCEPT !.pc = pc]
<1>1. DOMAIN x = Fields /\ x.loop \in LoopRec(n)
  BY DEF Typed, States, Fields
<1>2. l.pc # "recover" /\ k.pc # "recover" /\ NoLoop.pc # "recover"
  BY <1>1 DEF LoopRec, NoLoop
<1>3. \/ y = [x EXCEPT !.loop = l]
      \/ y = [x EXCEPT !.loop = k]
      \/ y = [x EXCEPT !.loop = NoLoop]
  BY <1>1 DEF Fields
<1> HIDE DEF l, k
<1>4. Beside(x, y, {"loop"}) /\ y.loop.pc # "recover"
  BY <1>1, <1>2, <1>3 DEF Beside, Fields
<1>5. Beside(x, y, {"loop", "ended", "limits"}) /\ y.ended = x.ended
  BY <1>4 DEF Beside, Fields
<1> QED BY <1>4, <1>5, NotedTame

LEMMA TurnEndedGuarded ==
  ASSUME IInv, GInv, TurnEnded
  PROVE  GStep
<1> DEFINE n == Latest
           id == s.worker.turn
<1>1. UNCHANGED codex /\ CanSame /\ s.worker.pc = "wait" /\ id \in s.ended
  BY Facts, LeftCan DEF TurnEnded, At
<1>2. PICK ok \in BOOLEAN :
        LET r == [Result(s, id, StateOf(id), ok, "worker") EXCEPT !.ended = @ \ {id}] IN
        s' = IF r.limits = s.limits THEN Ended(r) ELSE Go(r, "limits")
  BY DEF TurnEnded
<1> DEFINE z == Result(s, id, StateOf(id), ok, "worker")
           r == [z EXCEPT !.ended = @ \ {id}]
<1>3. s' = Ended(r) \/ s' = Go(r, "limits")
  BY <1>2
<1>4. n \in Nat /\ id \in 0..n /\ Typed(s, n) /\ id # 0
  <2>1. n \in Nat /\ id \in 0..n /\ Typed(s, n)
    BY Facts DEF States, WorkerRec
  <2>2. 0 \notin s.ended
    BY DEF GInv, Guarded, AllFiled
  <2> QED BY <1>1, <2>1, <2>2
<1>5. z = Result(s, id, StateOf(id), ok, "worker")
  OBVIOUS
<1> HIDE DEF z, n
<1>6. Mild(s, z) /\ Typed(z, n)
  BY <1>4, <1>5, ResultIs, ResultSane DEF Sane
<1>7. r = [z EXCEPT !.ended = z.ended \ {id}]
  BY <1>6 DEF Typed, States
<1> HIDE DEF r
<1>8. Typed(r, n) /\ Beside(z, r, {"ended"}) /\ (0 \in r.ended => 0 \in z.ended)
  <2>1. DOMAIN z = Fields
    BY <1>6 DEF Typed, States, Fields
  <2> QED BY <1>4, <1>6, <1>7, <2>1, DropSane DEF Sane, Beside, Fields
<1>9. Tame(z, r) /\ r.worker = s.worker
  <2>1. Beside(z, r, {"loop", "ended", "limits"}) /\ r.loop = z.loop /\ r.worker = z.worker
    BY <1>8 DEF Beside, Fields
  <2>2. z.worker = s.worker
    BY <1>6 DEF Mild, Beside, Fields, Observing
  <2> QED BY <1>8, <2>1, <2>2, NotedTame
<1>10. Tame(r, s')
  BY <1>1, <1>3, <1>4, <1>8, <1>9, EndedTame, LimitsTame
<1>11. Tame(s, z)
  BY <1>6, MildTame
<1>12. Tame(s, r)
  BY <1>9, <1>11, TameThrough
<1>13. Tame(s, s')
  BY <1>10, <1>12, TameThrough
<1> QED BY <1>1, <1>13, TameOnly

LEMMA QuotaWaitGuarded ==
  ASSUME IInv, GInv, QuotaWait
  PROVE  GStep
<1> DEFINE n == Latest
<1>1. PICK l \in s.limits :
        /\ s' = LET x == Forget(Exhausted([s EXCEPT !.limits = @ \ {l}]), l.turn) IN
                CASE l.by = "worker" -> Ended(x)
                  [] l.by = "loop" -> [x EXCEPT !.loop.pc = "reconcile"]
                  [] l.by = "notice" -> x
        /\ Unseen /\ Unspent /\ UNCHANGED codex
  BY DEF QuotaWait
<1>2. CanSame /\ UNCHANGED codex
  BY <1>1, Facts, LeftCan
<1> DEFINE u == [s EXCEPT !.limits = s.limits \ {l}]
           v == Exhausted(u)
           x == Forget(v, l.turn)
<1>3. n \in Nat /\ Typed(s, n) /\ l.by \in {"worker", "loop", "notice"}
  <2>1. l \in LimitRec(n)
    BY <1>1, Facts DEF States
  <2> QED BY <2>1, Facts DEF LimitRec
<1>4. s' = Ended(x) \/ s' = [x EXCEPT !.loop.pc = "reconcile"] \/ s' = x
  BY <1>1, <1>3
<1>5. u = [s EXCEPT !.limits = s.limits \ {l}] /\ v = Exhausted(u) /\ x = Forget(v, l.turn)
  OBVIOUS
<1> HIDE DEF u, v, x, n
<1>6. Typed(u, n) /\ Beside(s, u, {"limits"})
  <2>1. DOMAIN s = Fields
    BY <1>3 DEF Typed, States, Fields
  <2> QED BY <1>3, <1>5, <2>1, DropSane DEF Sane, Beside, Fields
<1>7. Typed(v, n) /\ Mild(u, v)
  BY <1>3, <1>5, <1>6, ExhaustedSane, ExhaustedMild DEF Sane
<1>8. Typed(x, n) /\ Mild(v, x)
  <2>1. Beside(v, x, {"turn"})
    BY <1>5, <1>7, ForgetIs
  <2>2. x.task = v.task /\ x.queue = v.queue
    BY <2>1 DEF Beside, Fields
  <2> QED BY <1>3, <1>5, <1>7, <2>1, <2>2, ForgetSane, MildRow DEF Sane, Beside, Observing, Unqueued
<1>9. Tame(s, u)
  <2>1. Beside(s, u, {"loop", "ended", "limits"}) /\ u.loop = s.loop /\ u.ended = s.ended
    BY <1>6 DEF Beside, Fields
  <2> QED BY <2>1, NotedTame
<1>10. Tame(u, x)
  BY <1>7, <1>8, MildThrough, MildTame
<1>11. Tame(s, x)
  BY <1>9, <1>10, TameThrough
<1>12. Tame(x, s')
  <2>1. CASE s' = Ended(x)
    BY <1>3, <1>8, <2>1, EndedTame
  <2>2. CASE s' = [x EXCEPT !.loop.pc = "reconcile"]
    <3>1. "reconcile" \in {"idle", "limits", "reconcile"}
      OBVIOUS
    <3> QED BY <1>3, <1>8, <2>2, <3>1, LoopTame
  <2>3. CASE s' = x
    BY <1>8, <2>3, MildSame, MildTame
  <2> QED BY <1>4, <2>1, <2>2, <2>3
<1>13. Tame(s, s')
  BY <1>11, <1>12, TameThrough
<1> QED BY <1>2, <1>13, TameOnly

LEMMA SyncReadGuarded ==
  ASSUME IInv, GInv, SyncRead
  PROVE  GStep
<1> DEFINE l == [pc |-> "sync", latest |-> Latest, state |-> StateOf(Latest), op |-> 0]
<1>1. s' = [s EXCEPT !.loop = l] /\ UNCHANGED codex /\ CanSame /\ DOMAIN s = Fields
  BY Facts, LeftCan DEF SyncRead
<1>2. l.pc # "recover"
  OBVIOUS
<1> HIDE DEF l
<1>3. Beside(s, s', {"loop", "ended", "limits"}) /\ s'.loop = l /\ s'.ended = s.ended
  BY <1>1 DEF Beside, Fields
<1>4. Tame(s, s')
  BY <1>2, <1>3, NotedTame
<1> QED BY <1>1, <1>4, TameOnly

LEMMA SyncApplyGuarded ==
  ASSUME IInv, GInv, SyncApply
  PROVE  GStep
<1> DEFINE n == Latest
           l == s.loop
           r == IF "loop" \in seen /\ ~s.starting /\ l.latest # 0
                  THEN Synced(s, l.latest, l.state) ELSE s
           pc == IF r.limits = s.limits THEN "reconcile" ELSE "limits"
<1>1. s' = [r EXCEPT !.loop.pc = pc] /\ UNCHANGED codex /\ CanSame
  BY Facts, LeftCan DEF SyncApply
<1>2. n \in Nat /\ Typed(s, n) /\ l.latest \in 0..n
  BY Facts DEF States, LoopRec
<1>3. (r = Synced(s, l.latest, l.state) /\ l.latest # 0) \/ r = s
  OBVIOUS
<1>4. pc \in {"idle", "limits", "reconcile"}
  OBVIOUS
<1> HIDE DEF n, r, pc, l
<1>5. Typed(r, n) /\ Mild(s, r)
  <2>1. CASE r = Synced(s, l.latest, l.state) /\ l.latest # 0
    BY <1>2, <2>1, SyncedIs, SyncedSane DEF Sane
  <2>2. CASE r = s
    BY <1>2, <2>2, MildSame
  <2> QED BY <1>3, <2>1, <2>2
<1>6. Tame(r, s')
  BY <1>1, <1>2, <1>4, <1>5, LoopTame
<1>7. Tame(s, r)
  BY <1>5, MildTame
<1>8. Tame(s, s')
  BY <1>6, <1>7, TameThrough
<1> QED BY <1>1, <1>8, TameOnly

LEMMA RecoverGuarded ==
  ASSUME IInv, GInv, Recover
  PROVE  GStep
<1> DEFINE n == Latest
           l == s.loop
           r == Recovered(s, l)
           f == FoundOf(s, l)
           b == TRUE
<1>1. s' = [r EXCEPT !.loop = NoLoop] \/ s' = [r EXCEPT !.loop = [NoLoop EXCEPT !.pc = "limits"]]
  BY DEF Recover
<1>2. UNCHANGED codex /\ CanSame
  BY Facts, LeftCan DEF Recover
<1>3. n \in Nat /\ Typed(s, n) /\ l.latest \in 0..n /\ l.op \in DOMAIN s.ops
  <2>1. n \in Nat /\ Typed(s, n) /\ l.latest \in 0..n
    BY Facts DEF States, LoopRec
  <2>2. l.op \in 1..Len(s.ops)
    BY DEF GInv, Guarded, AllFiled, Recover
  <2> QED BY <2>1, <2>2, OpsOf
<1>4. r = Recovered(s, l) /\ f = FoundOf(s, l) /\ b \in BOOLEAN
  OBVIOUS
<1> HIDE DEF n, r, l, f
<1>5. /\ l.latest = 0 \/ l.latest = s.ops[l.op].prev => r = s
      /\ l.latest # 0 /\ l.latest # s.ops[l.op].prev =>
           /\ l.state = "active" => r = Watch(f, l.latest)
           /\ l.state # "active" => r = Result(f, l.latest, l.state, b, "loop")
  BY <1>4 DEF Recovered, FoundOf
<1> HIDE DEF b
<1>6. Typed(r, n)
  BY <1>3, <1>4, RecoveredSane DEF Sane
<1>7. Tame(s, r)
  <2>1. CASE l.latest = 0 \/ l.latest = s.ops[l.op].prev
    BY <1>3, <1>5, <2>1, MildSame, MildTame
  <2>2. CASE l.latest # 0 /\ l.latest # s.ops[l.op].prev
    <3>1. Mild(s, f) /\ Typed(f, n)
      BY <1>3, <1>4, <2>2, FoundIs
    <3>2. Tame(s, f)
      BY <3>1, MildTame
    <3>3. Tame(f, r)
      <4>1. CASE l.state = "active"
        BY <1>3, <1>5, <2>2, <3>1, <4>1, WatchTame
      <4>2. CASE l.state # "active"
        <5>1. r = Result(f, l.latest, l.state, b, "loop") /\ "loop" \in {"worker", "loop", "notice"}
          BY <1>5, <2>2, <4>2
        <5>2. Mild(f, r)
          BY <1>3, <2>2, <3>1, <5>1, ResultIs
        <5> QED BY <5>2, MildTame
      <4> QED BY <4>1, <4>2
    <3> QED BY <3>2, <3>3, TameThrough
  <2> QED BY <2>1, <2>2
<1>8. Tame(r, s')
  <2>1. "limits" \in {"idle", "limits", "reconcile"}
    OBVIOUS
  <2> QED BY <1>1, <1>3, <1>6, <2>1, LoopTame
<1>9. Tame(s, s')
  BY <1>7, <1>8, TameThrough
<1> QED BY <1>2, <1>9, TameOnly

LEMMA MissedGuarded ==
  ASSUME IInv, GInv, Missed
  PROVE  GStep
<1>1. s' = s /\ CanSame /\ Typed(s, Latest) /\ Shown(codex) /\ codex' = [codex EXCEPT !.inbox = Tail(@)]
  BY Facts, LeftCan DEF Missed
<1>2. codex'.turns = codex.turns /\ codex'.calls = codex.calls
  BY <1>1 DEF Shown, CodexRec
<1>3. Tame(s, s')
  BY <1>1, MildSame, MildTame
<1> QED BY <1>1, <1>2, <1>3, TameStep DEF CallsKept

LEMMA NotifiedGuarded ==
  ASSUME IInv, GInv, Notified
  PROVE  GStep
<1> DEFINE n == Latest
           m == Head(codex.inbox)
           e == [s EXCEPT !.ended = @ \cup {m.turn}]
           b == TRUE
           g == StateOf(m.turn)
<1>1. CanSame /\ codex.inbox # <<>> /\ codex' = [codex EXCEPT !.inbox = Tail(@)] /\ Shown(codex)
  BY Facts, LeftCan DEF Notified
<1>2. s' = Adopted(s, m.turn, b) \/ s' = Result(e, m.turn, g, b, "notice")
  BY DEF Notified
<1>3. codex'.turns = codex.turns /\ codex'.calls = codex.calls
  BY <1>1 DEF Shown, CodexRec
<1>4. n \in Nat /\ Typed(s, n) /\ m.turn \in 0..n /\ m.turn # 0 /\ b \in BOOLEAN
  BY <1>1, Facts, Taken DEF InboxRec, Latest
<1> HIDE DEF n, m, b, g
<1>5. Typed(e, n) /\ Tame(s, e)
  <2>1. DOMAIN s = Fields
    BY <1>4 DEF Typed, States, Fields
  <2>2. Beside(s, e, {"ended"}) /\ (0 \in e.ended => 0 \in s.ended)
    BY <1>4, <2>1 DEF Beside, Fields
  <2>3. e \in States(n)
    BY <1>4 DEF Typed, States
  <2>4. Beside(s, e, {"loop", "ended", "limits"}) /\ e.loop = s.loop
    BY <2>2 DEF Beside, Fields
  <2> QED BY <1>4, <2>2, <2>3, <2>4, SideSane, NotedTame DEF Sane, Beside, Side
<1> HIDE DEF e
<1>6. Tame(s, s')
  <2>1. CASE s' = Adopted(s, m.turn, b)
    BY <1>4, <2>1, AdoptedIs, MildTame
  <2>2. CASE s' = Result(e, m.turn, g, b, "notice")
    <3>1. "notice" \in {"worker", "loop", "notice"}
      OBVIOUS
    <3>2. Mild(e, s')
      BY <1>4, <1>5, <2>2, <3>1, ResultIs
    <3> QED BY <1>5, <3>2, MildTame, TameThrough
  <2> QED BY <1>2, <2>1, <2>2
<1> QED BY <1>1, <1>3, <1>6, TameStep DEF CallsKept

LEMMA AttachGuarded ==
  ASSUME IInv, GInv, AttachThread \/ AttachTree
  PROVE  GStep
<1> DEFINE n == Latest
           k == [s.task EXCEPT !.thread = TRUE]
<1>1. n \in Nat /\ Typed(s, n) /\ DOMAIN s = Fields /\ s.task \in TaskRec /\ UNCHANGED codex /\ CanSame
  BY Facts, LeftCan DEF AttachThread, AttachTree, States
<1>2. k.paused = s.task.paused
  BY <1>1 DEF TaskRec
<1>3. s' = [s EXCEPT !.threadOp = "ready", !.task = k] \/ s' = [s EXCEPT !.treeOp = "ready"]
  BY <1>1 DEF AttachThread, AttachTree, Fields
<1> HIDE DEF k
<1>4. Beside(s, s', Placing \cup {"task"}) /\ s'.task.paused = s.task.paused
  BY <1>1, <1>2, <1>3 DEF Beside, Fields, Placing
<1>5. Tame(s, s')
  BY <1>1, <1>4, PlacedTame
<1> QED BY <1>1, <1>5, TameOnly

-----------------------------------------------------------------------------
(* Turns end, and stops go on.                                               *)

LEMMA MarkedEnds ==
  ASSUME NEW c, Shown(c), NEW i \in 1..Len(c.turns), NEW state \in TurnState, state # "active",
         NEW d, d = Marked(c, i, state)
  PROVE  Ends(c, d) /\ d.calls = c.calls
<1> DEFINE q == c.turns
           e == [q[i] EXCEPT !.state = state]
           u == [q EXCEPT ![i] = e]
           b == Append(c.inbox, [turn |-> i, what |-> "ended"])
           S == TurnRec
<1>1. DOMAIN c = {"threads", "trees", "turns", "calls", "late", "inbox"} /\ q \in Seq(S)
  BY DEF Shown, CodexRec
<1>2. d = [c EXCEPT !.turns = u, !.inbox = b]
  BY <1>1 DEF Marked
<1>3. q[i] \in S
  <2> HIDE DEF S, q
  <2>1. i \in 1..Len(q)
    BY DEF q
  <2> QED BY <1>1, <2>1
<1>4. e \in S /\ e.prompt = q[i].prompt /\ e.state = state
  BY <1>3 DEF TurnRec
<1>5. SameBut(S, q, i, e, u)
  <2>1. u = [q EXCEPT ![i] = e]
    OBVIOUS
  <2> HIDE DEF S, q, e, u
  <2> QED BY <1>1, <1>4, <2>1, SeqExcept
<1> HIDE DEF u, b, e
<1>6. d.turns = u /\ d.calls = c.calls
  BY <1>1, <1>2
<1> HIDE DEF S, q
<1>7. DOMAIN u = 1..Len(u) /\ DOMAIN q = 1..Len(q) /\ Len(u) = Len(q)
  BY <1>1, <1>5 DEF SameBut
<1>8. ASSUME NEW j \in DOMAIN u
      PROVE  /\ j \in DOMAIN q /\ u[j].prompt = q[j].prompt
             /\ u[j].state = "active" => q[j].state = "active"
  <2>1. j \in 1..Len(q)
    BY <1>7, <1>8
  <2>2. CASE j = i
    BY <1>4, <1>5, <1>7, <2>1, <2>2 DEF SameBut
  <2>3. CASE j # i
    BY <1>5, <1>7, <2>1, <2>3 DEF SameBut
  <2> QED BY <2>2, <2>3
<1> QED BY <1>6, <1>7, <1>8 DEF Ends, q

LEMMA SelfTame ==
  ASSUME NEW x
  PROVE  Tame(x, x)
BY DEF Tame, Unqueued, SamePrompts

LEMMA CodexEndsGuarded ==
  ASSUME IInv, GInv, CodexEnds
  PROVE  GStep
<1>1. PICK state \in TurnState : codex' = Marked(codex, Latest, state) /\ state # "active"
  BY DEF CodexEnds, TurnState, Marked
<1>2. Latest \in 1..Len(codex.turns)
  <2>1. Latest \in 0..Latest /\ StateOf(Latest) = "active"
    BY Facts DEF CodexEnds, Active
  <2> QED BY <2>1, ActiveTurn
<1>3. s' = s /\ CanSame
  <2>1. Unspent
    BY DEF CodexEnds, Unspent
  <2> QED BY <2>1, Facts, LeftCan DEF CodexEnds
<1>4. Ends(codex, codex') /\ codex'.calls = codex.calls
  BY <1>1, <1>2, Facts, MarkedEnds
<1>5. Tame(s, s')
  BY <1>3, SelfTame
<1> QED BY <1>3, <1>4, <1>5, EndsStep DEF CallsKept

LEMMA GivenUpTame ==
  ASSUME NEW n \in Nat, NEW x, Typed(x, n), NEW y, y = GivenUp(x)
  PROVE  Tame(x, y) /\ Beside(x, y, {"stop", "override"}) /\ y.stop.pc = "none"
<1>1. Beside(x, y, {"stop", "override"})
  BY GivenUpSane
<1>2. y.stop.pc = "none"
  <2>1. DOMAIN x = Fields
    BY DEF Typed, States, Fields
  <2> QED BY <2>1 DEF Fields, GivenUp, NoStop
<1> QED BY <1>1, <1>2 DEF Beside, Fields, Tame, Unqueued, SamePrompts

\* A stop goes on, and nothing else is touched.
LEMMA StoppingIs ==
  ASSUME NEW n \in Nat, NEW x, Typed(x, n), NEW pc \in {"ask", "check", "apply"},
         NEW y, y = [x EXCEPT !.stop.pc = pc]
  PROVE  Beside(x, y, {"stop"}) /\ y.stop.kind = x.stop.kind /\ y.stop.pc = pc
<1>1. DOMAIN x = Fields /\ x.stop \in StopRec
  BY DEF Typed, States, Fields
<1> QED BY <1>1 DEF Beside, Fields, StopRec

LEMMA StopAskGuarded ==
  ASSUME IInv, GInv, StopAsk
  PROVE  GStep
<1> DEFINE id == IF s.turn # 0 THEN s.turn ELSE IF Active THEN Latest ELSE 0
           asked == [s EXCEPT !.stop.pc = "check"]
<1>1. s' = asked \/ s' = GivenUp(s)
  BY DEF StopAsk
<1>2. CanSame
  <2>1. Unspent \/ Fault
    BY DEF StopAsk, GivesUp
  <2> QED BY <2>1, Facts, LeftCan
<1>3. Tame(s, s')
  <2>1. s.stop.pc # "none"
    BY DEF StopAsk
  <2>2. CASE s' = asked
    <3>1. Beside(s, s', {"stop"}) /\ s'.stop.kind = s.stop.kind /\ s'.stop.pc = "check"
      BY <2>2, Facts, StoppingIs
    <3> QED BY <2>1, <3>1 DEF Beside, Fields, Tame, Unqueued, SamePrompts
  <2>3. CASE s' = GivenUp(s)
    BY <2>3, Facts, GivenUpTame
  <2> QED BY <1>1, <2>2, <2>3
<1>4. CASE UNCHANGED codex
  BY <1>2, <1>3, <1>4, TameOnly
<1>5. CASE /\ StateOf(id) = "active"
           /\ codex' = [codex EXCEPT !.turns[id].state = "interrupted",
                                     !.inbox = Append(@, [turn |-> id, what |-> "ended"])]
  <2>1. id \in 0..Latest
    BY Facts DEF States
  <2> HIDE DEF id
  <2>2. id \in 1..Len(codex.turns)
    BY <1>5, <2>1, ActiveTurn
  <2>3. Shown(codex) /\ "interrupted" \in TurnState
    BY Facts DEF TurnState
  <2>4. Ends(codex, codex') /\ codex'.calls = codex.calls
    <3>1. codex' = Marked(codex, id, "interrupted")
      BY <1>5 DEF Marked
    <3> QED BY <2>2, <2>3, <3>1, MarkedEnds
  <2> QED BY <1>2, <1>3, <2>4, EndsStep DEF CallsKept
<1> QED BY <1>4, <1>5 DEF StopAsk

\* No turn of the board is active but the latest.
LEMMA NoneActive ==
  ASSUME IInv, GInv, ~Active
  PROVE  OwnOver(codex)
<1>1. SUFFICES ASSUME NEW i \in DOMAIN codex.turns, codex.turns[i].state = "active"
               PROVE  FALSE
  BY DEF OwnOver
<1>2. i = Len(codex.turns)
  BY <1>1 DEF GInv, Guarded, LastActive
<1>3. Len(codex.turns) # 0
  BY <1>1, <1>2, Facts, TurnsOf
<1> QED BY <1>1, <1>2, <1>3 DEF Active, StateOf, Latest

LEMMA StopCheckGuarded ==
  ASSUME IInv, GInv, StopCheck
  PROVE  GStep
<1>1. CanSame /\ UNCHANGED codex /\ s.stop.pc = "check"
  BY Facts, LeftCan DEF StopCheck
<1>2. CASE s' = GivenUp(s)
  BY <1>1, <1>2, Facts, GivenUpTame, TameOnly
<1>3. CASE /\ ~(Confirmed(s.stop.kind) /\ Active)
           /\ s' = [s EXCEPT !.stop.pc = "apply"]
  <2>1. Beside(s, s', {"stop"}) /\ s'.stop.kind = s.stop.kind /\ s'.stop.pc = "apply"
    BY <1>3, Facts, StoppingIs
  <2>2. Alike(s, s') /\ s'.task = s.task
    BY <2>1 DEF Beside, Fields, Alike
  <2>3. s.stop.kind = "pause" => OwnOver(codex)
    BY <1>3, NoneActive DEF Confirmed
  <2>4. PauseHolds(s', codex', left.can)
    BY <1>1, <2>1, <2>2, <2>3 DEF GInv, Guarded, PauseHolds, Pausing, Alike, OnWay
  <2>5. Ends(codex, codex') /\ CallsKept(s', codex, codex')
    BY <1>1 DEF Ends, CallsKept
  <2> QED BY <1>1, <2>2, <2>4, <2>5, SelfTame, HeldStep
<1> QED BY <1>2, <1>3 DEF StopCheck

\* A confirmed pause.
LEMMA PausedIs ==
  ASSUME NEW n \in Nat, NEW x, Typed(x, n), NEW y, y = Paused(x)
  PROVE  /\ Beside(x, y, {"worker", "starting", "turn", "limits", "lease", "task", "ops"})
         /\ y.worker = NoWorker /\ y.starting = (x.starting /\ ~Executing(x))
         /\ y.turn = 0 /\ ~y.lease /\ y.limits \subseteq x.limits
         /\ RowBut(x.task, y.task, {"run", "paused", "conflict", "uncertain"})
         /\ y.task.paused /\ y.task.uncertain = 0 /\ ~y.task.conflict /\ ~(y.task.run \in {"starting", "running"})
         /\ DOMAIN y.ops = DOMAIN x.ops
         /\ \A i \in DOMAIN x.ops :
              /\ y.ops[i].turn = x.ops[i].turn
              /\ y.ops[i].prompt = x.ops[i].prompt /\ y.ops[i].prev = x.ops[i].prev
              /\ x.ops[i].state = "uncertain" => y.ops[i].state = "blocked"
              /\ x.ops[i].state # "uncertain" => y.ops[i] = x.ops[i]
<1> DEFINE c == Canceled(x)
           q == c.ops
           o == [i \in DOMAIN q |-> IF q[i].state = "uncertain" THEN [q[i] EXCEPT !.state = "blocked"] ELSE q[i]]
           k == [c.task EXCEPT !.paused = TRUE, !.conflict = FALSE, !.uncertain = 0,
                   !.run = IF @ \in {"starting", "running", "waiting_quota"} THEN "failed" ELSE @]
           b == FALSE
           z == Rewritten(c, k, b)
<1>1. c = Canceled(x)
  OBVIOUS
<1>2. y = [c EXCEPT !.lease = b, !.task.paused = TRUE, !.task.conflict = FALSE,
              !.task.uncertain = 0,
              !.task.run = IF @ \in {"starting", "running", "waiting_quota"} THEN "failed" ELSE @,
              !.ops = o]
  BY DEF Paused
<1> HIDE DEF c
<1>3. /\ Beside(x, c, {"worker", "starting", "turn", "limits"}) /\ c.worker = NoWorker
      /\ c.starting = (x.starting /\ ~Executing(x)) /\ c.turn = 0 /\ c.limits \subseteq x.limits
  BY <1>1, CanceledIs
<1>4. DOMAIN c = Fields /\ c.task = x.task /\ q = x.ops /\ x.task \in TaskRec
  BY <1>3 DEF Beside, Fields, Typed, States
<1>5. RowBut(c.task, k, {"run", "paused", "conflict", "uncertain"}) /\ k.paused /\ k.uncertain = 0
      /\ ~k.conflict /\ ~(k.run \in {"starting", "running"})
  <2>1. c.task \in TaskRec
    BY <1>4
  <2> QED BY <2>1 DEF TaskRec, RowBut, TaskFields
<1>6. y = [z EXCEPT !.ops = o]
  <2>1. c.task \in TaskRec
    BY <1>4
  <2> QED BY <1>2, <1>4, <2>1 DEF Fields, TaskRec, Rewritten
<1>7. \A i \in DOMAIN q : q[i] \in OpRec
  BY <1>4, OpsOf
<1>8. /\ DOMAIN o = DOMAIN q
      /\ \A i \in DOMAIN q :
           /\ o[i].turn = q[i].turn /\ o[i].prompt = q[i].prompt /\ o[i].prev = q[i].prev
           /\ q[i].state = "uncertain" => o[i].state = "blocked"
           /\ q[i].state # "uncertain" => o[i] = q[i]
  BY <1>7 DEF OpRec
<1>9. q = c.ops
  OBVIOUS
<1> HIDE DEF q, o, k, z, b
<1>10. Beside(c, z, {"task", "lease"}) /\ z.task = k /\ z.lease = b
  <2>1. z = Rewritten(c, k, b)
    BY DEF z
  <2> QED BY <1>4, <2>1 DEF Rewritten, Beside, Fields
<1>11. Beside(z, y, {"ops"}) /\ y.ops = o
  BY <1>6, <1>10 DEF Beside, Fields
<1>12. /\ y.task = k /\ y.lease = b /\ y.worker = c.worker /\ y.starting = c.starting
       /\ y.turn = c.turn /\ y.limits = c.limits
  BY <1>10, <1>11 DEF Beside, Fields
<1>13. Beside(x, y, {"worker", "starting", "turn", "limits", "lease", "task", "ops"})
  BY <1>3, <1>10, <1>11 DEF Beside
<1>14. ~y.lease
  BY <1>12 DEF b
<1> QED BY <1>3, <1>4, <1>5, <1>8, <1>11, <1>12, <1>13, <1>14

LEMMA PausedTame ==
  ASSUME NEW n \in Nat, NEW x, Typed(x, n), NEW y, y = Paused(x)
  PROVE  Tame(x, y)
<1>1. /\ Beside(x, y, {"worker", "starting", "turn", "limits", "lease", "task", "ops"})
      /\ y.worker = NoWorker /\ y.starting = (x.starting /\ ~Executing(x)) /\ y.task.paused
      /\ DOMAIN y.ops = DOMAIN x.ops
  BY PausedIs
<1>2. DOMAIN x.ops = 1..Len(x.ops) /\ x.starting \in BOOLEAN
  BY OpsOf DEF Typed, States
<1>3. SamePrompts(x, y)
  BY PausedStill DEF Still
<1>4. \A i \in 1..Len(x.ops) : /\ Closed(x.ops[i]) => Closed(y.ops[i])
                               /\ Filed(x.ops[i]) => Filed(y.ops[i])
  <2> SUFFICES ASSUME NEW i \in DOMAIN x.ops
               PROVE  /\ Closed(x.ops[i]) => Closed(y.ops[i])
                      /\ Filed(x.ops[i]) => Filed(y.ops[i])
    BY <1>2
  <2>1. /\ y.ops[i].turn = x.ops[i].turn
        /\ x.ops[i].state = "uncertain" => y.ops[i].state = "blocked"
        /\ x.ops[i].state # "uncertain" => y.ops[i] = x.ops[i]
    BY PausedIs
  <2> QED BY <2>1 DEF Closed, Filed
<1>5. /\ y.follow = x.follow /\ y.ended = x.ended /\ y.stop = x.stop /\ y.loop = x.loop
      /\ y.queue = x.queue
  BY <1>1 DEF Beside, Fields
<1>6. /\ y.worker.pc \in Without /\ ~Executing(y)
      /\ y.starting = x.starting \/ (~y.starting /\ Executing(x))
  <2>1. y.worker.pc \in Without /\ ~Executing(y)
    BY <1>1 DEF NoWorker, Without, Executing
  <2> QED BY <1>1, <1>2, <2>1
<1> QED BY <1>1, <1>3, <1>4, <1>5, <1>6 DEF Tame, Unqueued

LEMMA CanceledTame ==
  ASSUME NEW n, NEW x, Typed(x, n), NEW y, y = Canceled(x)
  PROVE  Tame(x, y)
<1>1. /\ Beside(x, y, {"worker", "starting", "turn", "limits"}) /\ y.worker = NoWorker
      /\ y.starting = (x.starting /\ ~Executing(x))
  BY CanceledIs
<1>2. x.starting \in BOOLEAN
  BY DEF Typed, States
<1>3. /\ y.worker.pc \in Without /\ ~Executing(y)
      /\ y.starting = x.starting \/ (~y.starting /\ Executing(x))
  <2>1. y.worker.pc \in Without /\ ~Executing(y)
    BY <1>1 DEF NoWorker, Without, Executing
  <2> QED BY <1>1, <1>2, <2>1
<1> QED BY <1>1, <1>3, WorkerTame DEF Beside, Fields, Observing, Unqueued

LEMMA MovedTame ==
  ASSUME NEW n, NEW x, Typed(x, n), NEW status, NEW run, NEW y, y = Moved(x, status, run)
  PROVE  Tame(x, y)
<1>1. /\ Beside(x, y, {"task", "queue", "lease"}) /\ RowBut(x.task, y.task, {"status", "run"})
      /\ y.queue.state # "pending" \/ y.queue = x.queue
  BY MovedIs
<1>2. y.task.paused = x.task.paused /\ Unqueued(x, y)
  BY <1>1 DEF RowBut, TaskFields, Unqueued
<1>3. Beside(x, y, Observing \ {"ops"})
  BY <1>1 DEF Beside, Observing
<1> QED BY <1>2, <1>3, MildRow, MildTame

\* The end of a stop.
LEMMA StoppedTame ==
  ASSUME NEW n \in Nat, NEW x, Typed(x, n), NEW kind \in {"pause", "cancel", "requeue"},
         NEW current \in BOOLEAN, NEW y, y = StoppedBy(x, kind, current)
  PROVE  Tame(x, y)
<1>0. x.managed \in BOOLEAN
  BY DEF Typed, States
<1>1. CASE kind = "pause"
  <2>1. y = Paused(x)
    BY <1>1 DEF StoppedBy
  <2> QED BY <2>1, PausedTame
<1>2. CASE kind = "cancel" /\ x.managed
  <2> DEFINE z == Paused(x)
  <2>1. z = Paused(x) /\ y = Moved(z, "canceled", "none")
    BY <1>2 DEF StoppedBy
  <2> HIDE DEF z
  <2>2. Typed(z, n) /\ Tame(x, z)
    BY <2>1, PausedStill, PausedTame
  <2>3. Tame(z, y)
    BY <2>1, <2>2, MovedTame
  <2> QED BY <2>2, <2>3, TameThrough
<1>3. CASE kind = "cancel" /\ ~x.managed
  <2> DEFINE z == Moved(x, "canceled", "none")
  <2>1. y = Canceled(z) \/ y = x
    BY <1>3 DEF StoppedBy
  <2>2. z = Moved(x, "canceled", "none")
    OBVIOUS
  <2> HIDE DEF z
  <2>3. Typed(z, n) /\ Tame(x, z)
    BY <2>2, MovedSane, MovedTame DEF Sane
  <2>4. CASE y = Canceled(z)
    <3>1. Tame(z, y)
      BY <2>3, <2>4, CanceledTame
    <3> QED BY <2>3, <3>1, TameThrough
  <2> QED BY <2>1, <2>4, SelfTame
<1>4. CASE kind = "requeue"
  <2> DEFINE z == Moved(x, "todo", "none")
             u == Updated(z, "interrupted")
  <2>1. y = Canceled(u)
    BY <1>4 DEF StoppedBy
  <2>2. z = Moved(x, "todo", "none") /\ u = Updated(z, "interrupted") /\ "interrupted" \in RunState
    BY DEF RunState
  <2> HIDE DEF z, u
  <2>3. Typed(z, n) /\ Tame(x, z)
    BY <2>2, MovedSane, MovedTame DEF Sane
  <2>4. Typed(u, n) /\ Tame(z, u)
    <3>1. Beside(z, u, {"runs"}) /\ Typed(u, n)
      BY <2>2, <2>3, UpdatedIs, UpdatedSane DEF Sane
    <3> QED BY <3>1 DEF Beside, Fields, Tame, Unqueued, SamePrompts
  <2>5. Tame(u, y)
    BY <2>1, <2>4, CanceledTame
  <2>6. Tame(x, u)
    BY <2>3, <2>4, TameThrough
  <2> QED BY <2>5, <2>6, TameThrough
<1> QED BY <1>0, <1>1, <1>2, <1>3, <1>4

LEMMA StopApplyGuarded ==
  ASSUME IInv, GInv, StopApply
  PROVE  GStep
<1> DEFINE n == Latest
           kind == s.stop.kind
           current == "stop" \in seen
           z == StoppedBy(s, kind, current)
           a == Abandoned(codex)
           k == IF s'.worker.pc = "none" THEN 0 ELSE codex.calls.worker
<1>1. n \in Nat /\ Typed(s, n) /\ DOMAIN codex.calls = {"worker", "follow"}
      /\ DOMAIN a = {"threads", "trees", "turns", "calls", "late", "inbox"}
      /\ a.turns = codex.turns /\ a.calls = codex.calls
  BY Facts, GoodAbandoned DEF CallRec, Shown, CodexRec
<1>2. s.stop.pc = "apply" /\ s' = GivenUp(z) /\ CanSame
      /\ codex' = [a EXCEPT !.calls.worker = k]
  <2>1. codex' = [Abandoned(codex) EXCEPT !.calls.worker = k]
    BY <1>1, Zenon DEF StopApply
  <2> QED BY <1>1, <2>1, Facts, LeftCan DEF StopApply
<1>3. kind \in {"pause", "cancel", "requeue"} /\ current \in BOOLEAN
  BY <1>1, <1>2 DEF Typed, States, StopRec
<1>4. z = StoppedBy(s, kind, current)
  OBVIOUS
<1>5. s'.worker.pc = "turn" => k = codex.calls.worker
  OBVIOUS
<1> HIDE DEF z, n, current, k, a
<1>6. Typed(z, n) /\ Tame(s, z)
  BY <1>1, <1>3, <1>4, StoppedStill, StoppedTame
<1>7. Tame(z, s')
  BY <1>1, <1>2, <1>6, GivenUpTame
<1>8. Tame(s, s')
  BY <1>6, <1>7, TameThrough
<1>9. codex'.turns = codex.turns /\ codex'.calls.worker = k /\ codex'.calls.follow = codex.calls.follow
  BY <1>1, <1>2
<1>10. CallsKept(s', codex, codex')
  BY <1>5, <1>9 DEF CallsKept
<1> QED BY <1>2, <1>8, <1>9, <1>10, TameStep

LEMMA MarkIs ==
  ASSUME NEW n \in Nat, NEW x, Typed(x, n), NEW b \in BOOLEAN, NEW y, y = PauseMark(x, b)
  PROVE  /\ Beside(x, y, {"task"}) /\ y.task.paused = (x.task.paused \/ b)
         /\ RowBut(x.task, y.task, {"paused"})
<1>1. x.task \in TaskRec /\ DOMAIN x = Fields
  BY DEF Typed, States, Fields
<1> QED BY <1>1 DEF PauseMark, Beside, Fields, TaskRec, RowBut, TaskFields

LEMMA StopGuarded ==
  ASSUME IInv, GInv, NEW kind, Stop(kind)
  PROVE  GStep
<1> DEFINE n == Latest
           c == Confirmed(kind)
           m == [s EXCEPT !.task.paused = @ \/ Confirmed(kind)]
           x == IF Confirmed(kind) THEN Finished(m) ELSE m
           b == TRUE
<1>1. n \in Nat /\ Typed(s, n) /\ CanSame /\ UNCHANGED codex
  BY Facts, LeftCan DEF Stop
<1>2. kind \in {"pause", "cancel", "requeue"}
  BY DEF Stop, Kinds
<1>3. Confirmed(kind) \in BOOLEAN /\ (kind = "pause" => Confirmed(kind))
  BY <1>1 DEF Confirmed, Typed, States
<1>4. \/ s' = x
      \/ ~s.starting /\ s' = Stopping(x, kind)
      \/ s' = StoppedBy(x, kind, b)
  BY DEF Stop, Stopping
<1>5. m = PauseMark(s, c) /\ x = (IF c THEN Finished(m) ELSE m) /\ c = Confirmed(kind)
  BY DEF PauseMark
<1>5a. b \in BOOLEAN
  OBVIOUS
<1> HIDE DEF n, m, x, c, b
<1>6. Typed(m, n) /\ Beside(s, m, {"task"}) /\ m.task.paused = (s.task.paused \/ c)
  <2>1. c \in BOOLEAN /\ m = PauseMark(s, c)
    BY <1>3, <1>5
  <2> QED BY <1>1, <2>1, PauseMarked, MarkIs DEF Sane
<1>7. /\ Typed(x, n) /\ Beside(m, x, {"queue"})
      /\ x.queue.state # "pending" \/ (~c /\ x.queue = m.queue)
  <2>1. CASE Confirmed(kind)
    BY <1>5, <1>6, <2>1, FinishedSane DEF Sane
  <2>2. CASE ~Confirmed(kind)
    BY <1>5, <1>6, <2>2 DEF Beside
  <2> QED BY <2>1, <2>2
<1>8. /\ Beside(s, x, {"task", "queue"}) /\ x.task.paused = (s.task.paused \/ c)
      /\ x.queue.state # "pending" \/ x.queue = s.queue
  BY <1>6, <1>7 DEF Beside, Fields
<1>9. Tame(s, x)
  <2>1. s.task.paused => x.task.paused
    BY <1>8
  <2>2. Unqueued(s, x)
    BY <1>8 DEF Unqueued
  <2>3. /\ x.worker = s.worker /\ x.starting = s.starting /\ x.follow = s.follow /\ x.ended = s.ended
        /\ x.stop = s.stop /\ x.loop = s.loop /\ x.ops = s.ops
    BY <1>8 DEF Beside, Fields
  <2> QED BY <2>1, <2>2, <2>3 DEF Tame, SamePrompts
<1>10. CASE s' = x
  BY <1>1, <1>9, <1>10, TameOnly
<1>11. CASE s' = StoppedBy(x, kind, b)
  <2>1. Tame(x, s')
    BY <1>1, <1>2, <1>5a, <1>7, <1>11, StoppedTame
  <2>2. Tame(s, s')
    BY <1>9, <2>1, TameThrough
  <2> QED BY <1>1, <2>2, TameOnly
<1>12. CASE ~s.starting /\ s' = Stopping(x, kind)
  <2>1. Beside(x, s', {"stop", "override"}) /\ s'.stop.kind = kind /\ s'.stop.pc = "ask"
    <3>1. DOMAIN x = Fields
      BY <1>8 DEF Beside
    <3> QED BY <1>12, <3>1 DEF Stopping, Beside, Fields
  <2>2. Alike(x, s') /\ s'.task = x.task
    BY <2>1 DEF Beside, Fields, Alike
  <2>3. Ends(codex, codex') /\ CallsKept(s', codex, codex')
    BY <1>1 DEF Ends, CallsKept
  <2>4. /\ s'.worker = s.worker /\ s'.follow = s.follow /\ s'.queue = x.queue
    BY <1>8, <2>1 DEF Beside, Fields
  <2>5. Patience(left.can) => ~OnWay(s) /\ s.follow.pc = "none"
    BY <1>12 DEF GInv, Guarded, OneStart, Solo, Patience
  <2>6. kind = "pause" => s'.task.paused /\ s'.queue.state # "pending"
    BY <1>3, <1>5, <1>7, <1>8, <2>2, <2>4
  <2>7. PauseHolds(s', codex', left.can)
    BY <2>1, <2>4, <2>5, <2>6 DEF PauseHolds, Pausing, OnWay
  <2> QED BY <1>1, <1>9, <2>2, <2>3, <2>7, HeldStep
<1> QED BY <1>4, <1>10, <1>11, <1>12

-----------------------------------------------------------------------------
(* Starts are journalled.                                                    *)

\* The new entry, and the coroutine that waits for its answer.
LEMMA SubmittedIs ==
  ASSUME IInv, NEW h \in {"worker", "follow"}, s' = SubmitBy(h)
  PROVE  /\ Beside(s, s', {"ops", h}) /\ Len(s'.ops) = Len(s.ops) + 1
         /\ \A i \in 1..Len(s.ops) : s'.ops[i] = s.ops[i]
         /\ s'.ops[Len(s.ops) + 1].prompt = s[h].prompt
         /\ s'.ops[Len(s.ops) + 1].state = "uncertain" /\ s'.ops[Len(s.ops) + 1].turn = 0
         /\ s'.ops[Len(s.ops) + 1].prev = LastRun(s).turn
         /\ s'[h].pc = "turn" /\ s'[h].prompt = s[h].prompt
         /\ s'[h].op = Len(s.ops) + 1
         /\ h = "follow" => s'[h].row = s.follow.row
<1> DEFINE n == Latest
           prompt == s[h].prompt
           e == [prompt |-> prompt, state |-> "uncertain", turn |-> 0, prev |-> LastRun(s).turn]
           q == s.ops
           o == Append(q, e)
           k == [s[h] EXCEPT !.pc = "turn", !.op = Len(q) + 1]
           S == OpRec
<1>1. n \in Nat /\ Typed(s, n) /\ s \in States(n) /\ DOMAIN s = Fields /\ q \in Seq(S)
  BY Facts DEF States
<1>2. s' = [s EXCEPT !.ops = o, ![h] = k]
  BY <1>1 DEF SubmitBy, Journalled, Fields
<1>3. e \in S /\ e.prompt = prompt /\ e.state = "uncertain" /\ e.turn = 0 /\ e.prev = LastRun(s).turn
  <2>1. prompt \in Nat
    BY <1>1 DEF States, WorkerRec, FollowRec
  <2> QED BY <1>1, <2>1, RunTurn DEF OpRec
<1>4. /\ k.pc = "turn" /\ k.prompt = prompt /\ k.op = Len(q) + 1
      /\ h = "follow" => k.row = s.follow.row
  <2>1. s.worker \in WorkerRec(n) /\ s.follow \in FollowRec
    BY <1>1 DEF States
  <2> HIDE DEF q, n
  <2>2. CASE h = "worker"
    BY <2>1, <2>2 DEF WorkerRec
  <2>3. CASE h = "follow"
    BY <2>1, <2>3 DEF FollowRec
  <2> QED BY <2>2, <2>3
<1>5. q = s.ops /\ o = Append(q, e) /\ s[h].prompt = prompt
  OBVIOUS
<1> HIDE DEF prompt, e, q, o, k, n, S
<1>6. Beside(s, s', {"ops", h}) /\ s'.ops = o /\ s'[h] = k
  BY <1>1, <1>2 DEF Beside, Fields
<1>7. /\ Len(o) = Len(q) + 1 /\ o[Len(q) + 1] = e
      /\ \A i \in 1..Len(q) : o[i] = q[i]
  BY <1>1, <1>3, <1>5
<1> QED BY <1>3, <1>4, <1>5, <1>6, <1>7

\* What is not uncertain is closed.
LEMMA CertainClosed ==
  ASSUME NEW n, NEW x, Typed(x, n), AllFiled(x), Uncertain(x) = {}, NEW i \in 1..Len(x.ops)
  PROVE  Closed(x.ops[i])
<1>1. DOMAIN x.ops = 1..Len(x.ops)
  BY OpsOf
<1> QED BY <1>1 DEF AllFiled, Uncertain, Closed, Filed

LEMMA SubmitGuardedBy ==
  ASSUME IInv, GInv, CanSame, UNCHANGED codex, Uncertain(s) = {},
         NEW h \in {"worker", "follow"}, s[h].pc = "options", s' = SubmitBy(h)
  PROVE  GStep
<1> DEFINE x == s
           y == s'
           c == codex
           can == left.can
           m == Len(x.ops)
<1>1. /\ Beside(x, y, {"ops", h}) /\ Len(y.ops) = m + 1
      /\ \A i \in 1..m : y.ops[i] = x.ops[i]
      /\ y.ops[m + 1].prompt = x[h].prompt /\ y.ops[m + 1].state = "uncertain"
      /\ y[h].pc = "turn" /\ y[h].prompt = x[h].prompt
  BY SubmittedIs
<1>2. m \in Nat /\ Guarded(x, c, can) /\ x[h].pc = "options" /\ \A i \in 1..m : Closed(x.ops[i])
  BY Facts, OpsOf, CertainClosed DEF GInv, Guarded
<1>2a. left'.can = can /\ codex' = c /\ Len(c.turns) \in Nat
  BY Facts DEF CanSame, Latest
<1> HIDE DEF x, y, c, can, m
<1>3. /\ y.task = x.task /\ y.queue = x.queue /\ y.starting = x.starting /\ y.stop = x.stop
      /\ y.loop = x.loop /\ y.ended = x.ended
      /\ h = "worker" => y.follow = x.follow
      /\ h = "follow" => y.worker = x.worker
  BY <1>1 DEF Beside, Fields
<1>4. h = "worker" => OnWay(x) /\ OnWay(y) /\ (Executing(y) <=> Executing(x))
  BY <1>1, <1>2 DEF OnWay, Before, Executing
<1>5. h = "follow" => x.follow.pc # "none" /\ y.follow.pc # "none" /\ (OnWay(y) <=> OnWay(x))
        /\ (Executing(y) <=> Executing(x))
  BY <1>1, <1>2, <1>3 DEF OnWay, Executing
<1>6. OneStart(y, can)
  BY <1>2, <1>3, <1>4, <1>5 DEF Guarded, OneStart
<1>7. Patience(can) => ~Pausing(x) /\ ~Pausing(y)
  BY <1>2, <1>3, <1>4, <1>5 DEF Guarded, PauseHolds, Pausing
<1>8. AllFiled(y)
  <2>1. \A i \in 1..(m + 1) : i \in 1..m \/ i = m + 1
    BY <1>2
  <2>2. \A i \in 1..m : i \in 1..(m + 1)
    BY <1>2
  <2>3. Filed(y.ops[m + 1])
    BY <1>1 DEF Filed
  <2>4. m = Len(x.ops)
    BY DEF m
  <2> QED BY <1>1, <1>2, <1>3, <2>1, <2>2, <2>3, <2>4 DEF Guarded, AllFiled
<1>9. OthersClosed(y, c, can)
  <2>1. SUFFICES ASSUME Solo(can), NEW g \in {"worker", "follow"}, y[g].pc = "turn",
                        NEW i \in 1..(m + 1), y.ops[i].prompt # y[g].prompt
                 PROVE  Closed(y.ops[i])
    BY <1>1 DEF OthersClosed
  <2>2. g = h
    <3>1. CASE h = "worker"
      BY <1>2, <1>3, <1>4, <2>1, <3>1 DEF Guarded, OneStart
    <3>2. CASE h = "follow"
      <4>1. ~OnWay(x)
        BY <1>2, <1>5, <2>1, <3>2 DEF Guarded, OneStart
      <4> QED BY <1>3, <2>1, <3>2, <4>1 DEF OnWay
    <3> QED BY <3>1, <3>2
  <2>3. i \in 1..m
    BY <1>1, <1>2, <2>1, <2>2
  <2> QED BY <1>1, <1>2, <2>3
<1>10. Guarded(y, c, can)
  BY <1>2, <1>6, <1>7, <1>8, <1>9 DEF Guarded, PauseHolds
<1>11. ~(Len(c.turns) > Len(c.turns))
  BY <1>2a
<1> QED BY <1>2a, <1>7, <1>10, <1>11 DEF GStep, Confirming, x, y, c, can

LEMMA SubmitGuarded ==
  ASSUME IInv, GInv, Submit
  PROVE  GStep
<1> DEFINE n == Latest
           b == Blocked(s)
           u == FALSE
<1>1. n \in Nat /\ Typed(s, n) /\ CanSame /\ UNCHANGED codex /\ s.worker.pc = "options"
  BY Facts, LeftCan DEF Submit, At
<1>2. b = Blocked(s) /\ u \in BOOLEAN
  OBVIOUS
<1>3. \/ s' = Ended(s) \/ s' = Ended(FailedWith(b, u))
      \/ Uncertain(s) = {} /\ s' = SubmitBy("worker")
  BY DEF Submit
<1> HIDE DEF n, b, u
<1>4. CASE s' = Ended(s)
  BY <1>1, <1>4, EndedTame, TameOnly
<1>5. CASE s' = Ended(FailedWith(b, u))
  <2>1. Typed(b, n) /\ Tame(s, b)
    BY <1>1, <1>2, BlockedSane, BlockedIs, MildTame DEF Sane
  <2>2. Tame(b, s')
    BY <1>1, <1>2, <1>5, <2>1, EndedFailedTame
  <2>3. Tame(s, s')
    BY <2>1, <2>2, TameThrough
  <2> QED BY <1>1, <2>3, TameOnly
<1>6. CASE Uncertain(s) = {} /\ s' = SubmitBy("worker")
  <2>1. s["worker"].pc = "options"
    BY <1>1
  <2> QED BY <1>1, <1>6, <2>1, SubmitGuardedBy
<1> QED BY <1>3, <1>4, <1>5, <1>6

-----------------------------------------------------------------------------
(* A follow-up ends.                                                         *)

LEMMA FollowedStep ==
  ASSUME IInv, GInv, CanSame, codex'.turns = codex.turns,
         s.follow.pc # "none", s'.follow.pc = "none",
         s'.worker = s.worker \/ s'.worker.pc \in Without,
         s'.stop = s.stop, s'.loop = s.loop, s'.ended = s.ended,
         Len(s'.ops) = Len(s.ops), \A i \in 1..Len(s.ops) : Filed(s.ops[i]) => Filed(s'.ops[i])
  PROVE  GStep
<1> DEFINE x == s
           y == s'
           c == codex
           d == codex'
           can == left.can
<1>1. /\ Guarded(x, c, can) /\ left'.can = can /\ d.turns = c.turns /\ Len(c.turns) \in Nat
      /\ x.follow.pc # "none" /\ y.follow.pc = "none"
      /\ y.worker = x.worker \/ y.worker.pc \in Without
      /\ y.stop = x.stop /\ y.loop = x.loop /\ y.ended = x.ended /\ Len(y.ops) = Len(x.ops)
      /\ \A i \in 1..Len(x.ops) : Filed(x.ops[i]) => Filed(y.ops[i])
  BY Facts DEF GInv, CanSame, Latest
<1> HIDE DEF x, y, c, d, can
<1>2. Solo(can) => ~OnWay(y)
  BY <1>1 DEF Guarded, OneStart, OnWay, Before, Without
<1>3. OneStart(y, can)
  BY <1>1, <1>2 DEF OneStart
<1>4. Patience(can) => ~Pausing(x) /\ ~Pausing(y)
  BY <1>1 DEF Guarded, PauseHolds, Pausing
<1>5. AllFiled(y) /\ LastActive(d)
  BY <1>1 DEF Guarded, AllFiled, LastActive
<1>6. OthersClosed(y, d, can)
  BY <1>1, <1>2 DEF OthersClosed, OnWay
<1>7. Guarded(y, d, can)
  BY <1>3, <1>4, <1>5, <1>6 DEF Guarded, PauseHolds
<1>8. ~(Len(d.turns) > Len(c.turns))
  BY <1>1
<1> QED BY <1>1, <1>4, <1>7, <1>8 DEF GStep, Confirming, x, y, c, d, can

\* The row before a follow-up is restored.
LEMMA RestoredIs ==
  ASSUME NEW n \in Nat, NEW x, Typed(x, n), x.follow.pc # "none",
         NEW y, y = Restored(x)
  PROVE  /\ Beside(x, y, {"queue", "lease", "task", "starting", "follow"})
         /\ y.queue.state # "pending" /\ ~y.lease /\ ~y.starting /\ y.follow = NoFollow
         /\ RowBut(x.task, y.task, {"status", "run", "observe"})
         /\ y.task.run = x.follow.row.run
         /\ y.task.status = (IF x.task.status = "canceled" THEN "canceled" ELSE x.follow.row.status)
<1> DEFINE row == x.follow.row
           status == IF x.task.status = "canceled" THEN "canceled" ELSE row.status
           g == GiveBack(x)
           m == Moved(g, status, row.run)
           o == row.observe
           u == FALSE
<1>1. g = GiveBack(x) /\ m = Moved(g, status, row.run)
  OBVIOUS
<1>2. y = [m EXCEPT !.task.observe = o, !.starting = u, !.follow = NoFollow]
  BY DEF Restored
<1> HIDE DEF g, m, o, u
<1>3. Beside(x, g, {"queue", "lease"}) /\ g.queue.state # "pending" /\ ~g.lease /\ Typed(g, n)
  BY <1>1, GiveBackIs, GiveBackSane DEF Sane
<1>4. /\ Beside(g, m, {"task", "queue", "lease"})
      /\ m.task.status = status /\ m.task.run = row.run /\ RowBut(g.task, m.task, {"status", "run"})
      /\ status # "in_progress" => m.queue.state # "pending" /\ ~m.lease
      /\ status = "in_progress" => m.queue = g.queue /\ m.lease = g.lease
  BY <1>1, <1>3, MovedIs
<1>5. m.queue.state # "pending" /\ ~m.lease /\ g.task = x.task /\ DOMAIN m = Fields
  BY <1>3, <1>4 DEF Beside, Fields
<1>6. m.task \in [status : {m.task.status}, run : {m.task.run}, paused : {m.task.paused},
                  conflict : {m.task.conflict}, observe : {m.task.observe},
                  uncertain : {m.task.uncertain}, thread : {m.task.thread}, tree : {m.task.tree}]
  <2>1. row \in TaskRec
    BY DEF Typed
  <2>2. status \in {"todo", "in_progress", "in_review", "canceled"}
        /\ row.run \in {"none", "starting", "running", "waiting_quota", "failed"}
    BY <2>1 DEF TaskRec
  <2>3. m.task = [g.task EXCEPT !.status = status, !.run = row.run]
    <3>1. DOMAIN g = Fields /\ g.task \in TaskRec
      BY <1>3 DEF Typed, States, Fields
    <3> QED BY <1>1, <3>1 DEF Moved, GiveBack, Finished, Fields, TaskRec
  <2>4. g.task \in TaskRec
    BY <1>3 DEF Typed, States
  <2> QED BY <2>3, <2>4 DEF TaskRec
<1>7. /\ Beside(m, y, {"task", "starting", "follow"}) /\ y.starting = u /\ y.follow = NoFollow
      /\ RowBut(m.task, y.task, {"observe"})
  BY <1>2, <1>5, <1>6 DEF Beside, Fields, RowBut, TaskFields
<1>8. /\ y.queue = m.queue /\ y.lease = m.lease /\ y.task.status = m.task.status /\ y.task.run = m.task.run
  BY <1>7 DEF Beside, Fields, RowBut, TaskFields
<1>9. RowBut(x.task, y.task, {"status", "run", "observe"})
  BY <1>4, <1>5, <1>7 DEF RowBut
<1>10. Beside(x, y, {"queue", "lease", "task", "starting", "follow"})
  BY <1>3, <1>4, <1>7 DEF Beside
<1>11. ~y.starting
  BY <1>7 DEF u
<1> QED BY <1>4, <1>5, <1>7, <1>8, <1>9, <1>10, <1>11

LEMMA RestoredGuarded ==
  ASSUME IInv, GInv, CanSame, codex'.turns = codex.turns, s.follow.pc # "none",
         NEW u, Typed(u, Latest), Beside(s, u, {"ops", "task"}), Len(u.ops) = Len(s.ops),
         \A i \in 1..Len(s.ops) : Filed(s.ops[i]) => Filed(u.ops[i]), s' = Restored(u)
  PROVE  GStep
<1>1. /\ u.follow = s.follow /\ u.worker = s.worker /\ u.stop = s.stop /\ u.loop = s.loop
      /\ u.ended = s.ended /\ Latest \in Nat
  BY Facts DEF Beside, Fields
<1>2. Beside(u, s', {"queue", "lease", "task", "starting", "follow"}) /\ s'.follow = NoFollow
  BY <1>1, RestoredIs
<1>3. /\ s'.worker = s.worker /\ s'.stop = s.stop /\ s'.loop = s.loop /\ s'.ended = s.ended
      /\ s'.ops = u.ops /\ s'.follow.pc = "none"
  BY <1>1, <1>2 DEF Beside, Fields, NoFollow
<1> QED BY <1>3, FollowedStep

LEMMA FollowUpSubmitGuarded ==
  ASSUME IInv, GInv, FollowUpSubmit
  PROVE  GStep
<1> DEFINE n == Latest
           b == Blocked(s)
<1>1. n \in Nat /\ Typed(s, n) /\ CanSame /\ UNCHANGED codex /\ s.follow.pc = "options"
      /\ DOMAIN s = Fields
  BY Facts, LeftCan DEF FollowUpSubmit
<1>2. b = Blocked(s)
  OBVIOUS
<1>3. \/ s' = Restored(s) \/ s' = Restored(b)
      \/ Uncertain(s) = {} /\ s' = SubmitBy("follow")
  BY DEF FollowUpSubmit
<1> HIDE DEF b
<1>4. CASE s' = Restored(s)
  <2>1. Beside(s, s, {"ops", "task"})
    BY <1>1 DEF Beside
  <2> QED BY <1>1, <1>4, <2>1, RestoredGuarded
<1>5. CASE s' = Restored(b)
  <2>1. Typed(b, n) /\ Beside(s, b, {"task"})
    BY <1>1, <1>2, BlockedSane, BlockedIs DEF Sane
  <2>2. Beside(s, b, {"ops", "task"}) /\ b.ops = s.ops
    BY <2>1 DEF Beside, Fields
  <2> QED BY <1>1, <1>5, <2>1, <2>2, RestoredGuarded
<1>6. CASE Uncertain(s) = {} /\ s' = SubmitBy("follow")
  <2>1. s["follow"].pc = "options"
    BY <1>1
  <2> QED BY <1>1, <1>6, <2>1, SubmitGuardedBy
<1> QED BY <1>3, <1>4, <1>5, <1>6

\* An entry gets a turn, or is written off.
LEMMA SetOpFiled ==
  ASSUME NEW n \in Nat, NEW x, Typed(x, n), NEW i, NEW state \in OpState, NEW turn \in Nat,
         state \in {"uncertain", "blocked"} \/ turn # 0,
         NEW y, y = SetOp(x, i, state, turn)
  PROVE  /\ Typed(y, n) /\ Beside(x, y, {"ops"}) /\ Len(y.ops) = Len(x.ops)
         /\ \A j \in 1..Len(x.ops) : Filed(x.ops[j]) => Filed(y.ops[j])
<1>1. Sane(x, y, n) /\ Beside(x, y, {"ops"})
  BY SetOpSane
<1>2. Len(y.ops) = Len(x.ops) /\ Typed(y, n)
  BY <1>1 DEF Sane, Calm, Still, SamePrompts
<1>3. DOMAIN x.ops = 1..Len(x.ops) /\ DOMAIN x = Fields
  BY OpsOf DEF Typed, States, Fields
<1>4. CASE i \in DOMAIN x.ops
  <2>1. y.ops[i].state = state /\ y.ops[i].turn = turn
        /\ \A j \in DOMAIN x.ops : j # i => y.ops[j] = x.ops[j]
    BY <1>4, SetOpIs
  <2> QED BY <1>1, <1>2, <1>3, <2>1 DEF Filed
<1>5. CASE i \notin DOMAIN x.ops
  <2>1. [x.ops EXCEPT ![i].state = state, ![i].turn = turn] = x.ops
    BY <1>5, OpsOf
  <2>2. y.ops = x.ops
    BY <1>3, <2>1 DEF SetOp, Fields
  <2> QED BY <1>1, <1>2, <2>2
<1> QED BY <1>4, <1>5

\* A lost start stays filed, as an uncertain one.
LEMMA LostFiled ==
  ASSUME NEW n \in Nat, NEW x, Typed(x, n), NEW i \in Nat, i <= Len(x.ops), NEW y, y = LostOf(x, i)
  PROVE  /\ Typed(y, n) /\ Beside(x, y, {"ops", "task"}) /\ Len(y.ops) = Len(x.ops)
         /\ \A j \in 1..Len(x.ops) : Filed(x.ops[j]) => Filed(y.ops[j])
<1>1. Typed(y, n) /\ Beside(x, y, {"ops", "task"}) /\ Len(y.ops) = Len(x.ops)
  BY LostSane DEF Sane, Calm, Still, SamePrompts
<1>2. DOMAIN x.ops = 1..Len(x.ops) /\ DOMAIN x = Fields /\ x.task \in TaskRec
  BY OpsOf DEF Typed, States, Fields
<1>3. CASE i \in DOMAIN x.ops
  <2>1. /\ y.ops[i].state = "uncertain"
        /\ \A j \in DOMAIN x.ops : j # i => y.ops[j] = x.ops[j]
    BY <1>3, LostIs
  <2> QED BY <1>1, <1>2, <2>1 DEF Filed
<1>4. CASE i \notin DOMAIN x.ops
  <2> DEFINE p == SetOp(x, i, "uncertain", x.ops[i].turn)
  <2>1. y = [p EXCEPT !.task.uncertain = i, !.task.conflict = TRUE]
    BY DEF LostOf
  <2>2. [x.ops EXCEPT ![i].state = "uncertain", ![i].turn = x.ops[i].turn] = x.ops
    BY <1>4, OpsOf
  <2>3. p.ops = x.ops /\ DOMAIN p = Fields
    BY <1>2, <2>2 DEF SetOp, Fields
  <2> HIDE DEF p
  <2>4. y.ops = x.ops
    BY <2>1, <2>3 DEF Fields
  <2> QED BY <1>1, <2>4
<1> QED BY <1>3, <1>4

LEMMA FollowUpStartedGuarded ==
  ASSUME IInv, GInv, FollowUpStarted
  PROVE  GStep
<1> DEFINE n == Latest
           id == codex.calls.follow
           b == TRUE
           z == Accepted("follow", id)
           a == Adopted(z, id, b)
           w == Watch(a, id)
<1>1. id \in 0..n /\ n \in Nat /\ Typed(s, n) /\ b \in BOOLEAN
  BY Facts DEF CallRec
<1>2. z = SetOp(s, s.follow.op, "agent_running", id) /\ a = Adopted(z, id, b) /\ w = Watch(a, id)
  BY DEF Accepted
<1>3. s' = [w EXCEPT !.starting = FALSE, !.follow = NoFollow] /\ id # 0 /\ s.follow.pc # "none"
  BY DEF FollowUpStarted, Answered
<1>4. CanSame /\ codex'.turns = codex.turns
  <2>1. CanSame
    BY Facts, LeftCan DEF FollowUpStarted
  <2>2. codex' = [codex EXCEPT !.calls.follow = 0]
    BY DEF FollowUpStarted
  <2>3. DOMAIN codex = {"threads", "trees", "turns", "calls", "late", "inbox"}
    BY Facts DEF Shown, CodexRec
  <2> QED BY <2>1, <2>2, <2>3
<1> HIDE DEF z, a, w, n, id, b
<1>5. /\ Typed(z, n) /\ Beside(s, z, {"ops"}) /\ Len(z.ops) = Len(s.ops)
      /\ \A j \in 1..Len(s.ops) : Filed(s.ops[j]) => Filed(z.ops[j])
  <2>1. id \in Nat /\ "agent_running" \in OpState
    BY <1>1 DEF OpState
  <2> QED BY <1>1, <1>2, <1>3, <2>1, SetOpFiled
<1>6. Typed(a, n) /\ Mild(z, a)
  BY <1>1, <1>2, <1>5, AdoptedSane, AdoptedIs DEF Sane
<1>7. Beside(a, w, {"worker"}) /\ (w.worker = a.worker \/ w.worker.pc = "wait")
  BY <1>1, <1>2, <1>6, WatchIs
<1>8. /\ s'.follow.pc = "none" /\ Beside(w, s', {"starting", "follow"})
  <2>1. DOMAIN w = Fields
    BY <1>7 DEF Beside
  <2> QED BY <1>3, <2>1 DEF Beside, Fields, NoFollow
<1>9. /\ s'.stop = s.stop /\ s'.loop = s.loop /\ s'.ended = s.ended
      /\ s'.worker = w.worker /\ a.worker = s.worker /\ s'.ops = a.ops
  BY <1>5, <1>6, <1>7, <1>8 DEF Beside, Fields, Mild, Observing
<1>10. /\ Len(s'.ops) = Len(s.ops)
       /\ \A j \in 1..Len(s.ops) : Filed(s.ops[j]) => Filed(s'.ops[j])
  BY <1>5, <1>6, <1>9 DEF Mild, Closing, SamePrompts
<1>11. s'.worker = s.worker \/ s'.worker.pc \in Without
  BY <1>7, <1>9 DEF Without
<1> QED BY <1>3, <1>4, <1>8, <1>9, <1>10, <1>11, FollowedStep

LEMMA FollowUpNotStartedGuarded ==
  ASSUME IInv, GInv, FollowUpNotStarted
  PROVE  GStep
<1> DEFINE n == Latest
           z == IF s.follow.pc = "turn" THEN Refused("follow") ELSE s
           v == IF s.follow.pc = "turn" THEN Lost("follow") ELSE s
           i == s.follow.op
<1>1. n \in Nat /\ Typed(s, n) /\ DOMAIN s = Fields
  BY Facts
<1>2. s' = Restored(z) \/ s' = Restored(v)
  BY DEF FollowUpNotStarted, Unknown
<1>3. CanSame /\ codex'.turns = codex.turns /\ s.follow.pc # "none"
  <2>1. CanSame
    BY Facts, LeftCan DEF FollowUpNotStarted, GivesUp
  <2> DEFINE a == Abandoned(codex)
  <2>2. codex' = codex \/ codex' = [a EXCEPT !.calls.follow = 0]
    BY DEF FollowUpNotStarted
  <2>3. a.turns = codex.turns /\ Shown(a)
    BY GoodAbandoned
  <2> HIDE DEF a
  <2>4. DOMAIN a = {"threads", "trees", "turns", "calls", "late", "inbox"}
    BY <2>3 DEF Shown, CodexRec
  <2> QED BY <2>1, <2>2, <2>3, <2>4 DEF FollowUpNotStarted
<1>4. /\ Typed(s, n) /\ Beside(s, s, {"ops", "task"})
  BY <1>1 DEF Beside
<1>5. /\ Typed(z, n) /\ Beside(s, z, {"ops", "task"}) /\ Len(z.ops) = Len(s.ops)
      /\ \A j \in 1..Len(s.ops) : Filed(s.ops[j]) => Filed(z.ops[j])
  <2>1. CASE s.follow.pc = "turn"
    <3>1. z = SetOp(s, i, "blocked", 0)
      BY <2>1 DEF Refused
    <3>2. "blocked" \in OpState /\ 0 \in Nat
      BY DEF OpState
    <3> HIDE DEF z, i
    <3>3. /\ Typed(z, n) /\ Beside(s, z, {"ops"}) /\ Len(z.ops) = Len(s.ops)
          /\ \A j \in 1..Len(s.ops) : Filed(s.ops[j]) => Filed(z.ops[j])
      BY <1>1, <3>1, <3>2, SetOpFiled
    <3> QED BY <3>3 DEF Beside
  <2>2. CASE s.follow.pc # "turn"
    BY <1>4, <2>2
  <2> QED BY <2>1, <2>2
<1>6. /\ Typed(v, n) /\ Beside(s, v, {"ops", "task"}) /\ Len(v.ops) = Len(s.ops)
      /\ \A j \in 1..Len(s.ops) : Filed(s.ops[j]) => Filed(v.ops[j])
  <2>1. CASE s.follow.pc = "turn"
    <3>1. v = LostOf(s, i)
      BY <2>1 DEF Lost, LostOf
    <3>2. i \in Nat /\ i <= Len(s.ops)
      BY Facts
    <3> HIDE DEF v, i
    <3> QED BY <1>1, <3>1, <3>2, LostFiled
  <2>2. CASE s.follow.pc # "turn"
    BY <1>4, <2>2
  <2> QED BY <2>1, <2>2
<1> HIDE DEF z, v
<1>7. CASE s' = Restored(z)
  BY <1>3, <1>5, <1>7, RestoredGuarded DEF n
<1>8. CASE s' = Restored(v)
  BY <1>3, <1>6, <1>8, RestoredGuarded DEF n
<1> QED BY <1>2, <1>7, <1>8

-----------------------------------------------------------------------------
(* Turns are asked for.                                                      *)

LEMMA EnqueuedIs ==
  ASSUME NEW n, NEW x, Typed(x, n), NEW p, NEW y, y = Enqueued(x, p)
  PROVE  /\ Beside(x, y, {"task", "queue"}) /\ RowBut(x.task, y.task, {"paused"})
         /\ ~y.task.paused /\ y.queue.state = "pending" /\ y.queue.prompt = p
<1>1. DOMAIN x = Fields /\ x.task \in TaskRec
  BY DEF Typed, States, Fields
<1> QED BY <1>1 DEF Enqueued, Beside, Fields, TaskRec, RowBut, TaskFields

LEMMA ClaimedIs ==
  ASSUME NEW n, NEW x, Typed(x, n), NEW y, y = Claimed(x)
  PROVE  /\ Beside(x, y, {"task", "queue", "lease"}) /\ RowBut(x.task, y.task, {"status", "run"})
         /\ y.task.status = "in_progress" /\ y.task.run = "starting" /\ y.lease
         /\ y.queue.state = "claimed" /\ y.queue.prompt = x.queue.prompt
<1>1. DOMAIN x = Fields /\ x.task \in TaskRec /\ x.queue \in QueueRec
  BY DEF Typed, States, Fields
<1> QED BY <1>1 DEF Claimed, Beside, Fields, TaskRec, QueueRec, RowBut, TaskFields

LEMMA SpawnIs ==
  ASSUME NEW n, NEW x, Typed(x, n), NEW r, NEW y, y = Spawn(x, r)
  PROVE  /\ x.worker.pc # "none" => y = x
         /\ x.worker.pc = "none" =>
              /\ Beside(x, y, {"worker", "starting"}) /\ y.starting
              /\ y.worker.pc = "begin" /\ y.worker.prompt = r /\ y.worker.op = 0
              /\ y.worker.turn = 0
<1>1. DOMAIN x = Fields
  BY DEF Typed, States, Fields
<1>2. CASE x.worker.pc # "none"
  BY <1>2 DEF Spawn
<1>3. CASE x.worker.pc = "none"
  <2> DEFINE w == [NoWorker EXCEPT !.pc = "begin", !.prompt = r]
  <2>1. w.pc = "begin" /\ w.prompt = r /\ w.op = 0 /\ w.turn = 0
    BY DEF NoWorker
  <2>2. y = [x EXCEPT !.worker = w, !.starting = TRUE]
    BY <1>3 DEF Spawn
  <2> HIDE DEF w
  <2>3. Beside(x, y, {"worker", "starting"}) /\ y.worker = w /\ y.starting
    BY <1>1, <2>2 DEF Beside, Fields
  <2> QED BY <1>3, <2>1, <2>3
<1> QED BY <1>2, <1>3

\* No follow-up and no stop are in the way of a start.
Freed(x, can) == (Solo(can) => x.follow.pc = "none") /\ (Patience(can) => ~Pausing(x))

\* A worker begins, or watches a turn.
Launches(x, y) ==
  /\ y.follow = x.follow /\ y.stop = x.stop /\ y.ended = x.ended /\ y.ops = x.ops
  /\ y.loop = x.loop \/ (y.loop.pc = "recover" => y.loop.op \in 1..Len(x.ops))
  /\ \/ y.worker = x.worker /\ y.starting = x.starting
     \/ y.worker.pc \in Without
     \/ y.worker.pc = "begin" /\ y.starting

LEMMA LaunchStep ==
  ASSUME IInv, GInv, CanSame, UNCHANGED codex, Freed(s, left.can), Launches(s, s')
  PROVE  GStep
<1> DEFINE x == s
           y == s'
           c == codex
           can == left.can
<1>1. /\ Guarded(x, c, can) /\ left'.can = can /\ codex' = c /\ Len(c.turns) \in Nat
      /\ Freed(x, can) /\ Launches(x, y)
  BY Facts DEF GInv, CanSame, Latest
<1> HIDE DEF x, y, c, can
<1>2. /\ y.follow = x.follow /\ y.stop = x.stop /\ y.ended = x.ended /\ y.ops = x.ops
      /\ Solo(can) => y.follow.pc = "none"
      /\ Patience(can) => ~Pausing(y) /\ ~Pausing(x)
  BY <1>1 DEF Launches, Freed, Pausing
<1>3. OnWay(y) => y.starting \/ (OnWay(x) /\ y.starting = x.starting)
  BY <1>1 DEF Launches, OnWay, Before, Without
<1>4. y.worker.pc = "turn" => y.worker = x.worker
  BY <1>1 DEF Launches, Without
<1>5. OneStart(y, can)
  BY <1>1, <1>2, <1>3 DEF Guarded, OneStart
<1>6. AllFiled(y)
  BY <1>1, <1>2 DEF Guarded, AllFiled, Launches
<1>7. OthersClosed(y, c, can)
  BY <1>1, <1>2, <1>4 DEF Guarded, OthersClosed
<1>8. Guarded(y, c, can)
  BY <1>1, <1>2, <1>5, <1>6, <1>7 DEF Guarded, PauseHolds
<1>9. ~(Len(c.turns) > Len(c.turns))
  BY <1>1
<1> QED BY <1>1, <1>2, <1>8, <1>9 DEF GStep, Confirming, x, y, c, can

LEMMA AskFreed ==
  ASSUME IInv, GInv, Ask
  PROVE  Freed(s, left.can) /\ CanSame
<1>1. CanSame
  BY Facts, LeftCan
<1>2. "impatient" \in left.can \/ (s.stop.pc = "none" /\ s.follow.pc = "none")
  BY DEF Ask, May, Patient
<1> QED BY <1>1, <1>2 DEF Freed, Solo, Patience, Pausing, GInv, Guarded, OneStart

LEMMA QueuedLaunches ==
  ASSUME NEW n \in Nat, n = Latest, NEW x, Typed(x, n), NEW p, NEW y, y = Queued(x, p)
  PROVE  Launches(x, y)
<1> DEFINE t == TRUE
           a == Adopted(x, n, t)
           b == [a EXCEPT !.task.status = "in_progress", !.task.run = "running"]
           e == Enqueued(x, p)
           k == Claimed(e)
<1>1. \/ y = Watch(b, n) \/ y = e \/ y = Spawn(k, p)
  BY DEF Queued, TryClaim
<1>2. /\ a = Adopted(x, n, t) /\ t \in BOOLEAN /\ e = Enqueued(x, p) /\ k = Claimed(e)
      /\ b = [a EXCEPT !.task.status = "in_progress", !.task.run = "running"]
  OBVIOUS
<1> HIDE DEF a, b, e, k, t
<1>3. CASE y = Watch(b, n)
  <2>1. n \in 0..n
    OBVIOUS
  <2>2. Typed(a, n) /\ (a = x \/ Beside(x, a, {"task", "lease", "turn", "runs"}))
    <3>1. Typed(a, n)
      BY <1>2, <2>1, AdoptedSane DEF Sane
    <3>2. a = x \/ TakenUp(x, a, n, t)
      BY <1>2, <2>1, AdoptedIs
    <3> QED BY <3>1, <3>2 DEF TakenUp
  <2>3. DOMAIN a = Fields /\ a.task \in TaskRec
    BY <2>2 DEF Typed, States, Fields
  <2>4. Beside(a, b, {"task"})
    BY <1>2, <2>3 DEF Beside, Fields
  <2>5. Beside(b, y, {"worker"}) /\ (y.worker = b.worker \/ y.worker.pc = "wait")
    <3>1. DOMAIN b = Fields
      BY <2>4 DEF Beside
    <3> QED BY <1>3, <3>1 DEF Watch, Beside, Fields, NoWorker
  <2>6. /\ y.follow = x.follow /\ y.stop = x.stop /\ y.ended = x.ended /\ y.ops = x.ops
        /\ y.loop = x.loop /\ b.worker = x.worker /\ y.starting = x.starting
    BY <2>2, <2>4, <2>5 DEF Beside, Fields
  <2> QED BY <2>5, <2>6 DEF Launches, Without
<1>4. Beside(x, e, {"task", "queue"}) /\ DOMAIN e = Fields
  BY <1>2, EnqueuedIs DEF Beside
<1>5. CASE y = e
  BY <1>4, <1>5 DEF Beside, Fields, Launches
<1>6. CASE y = Spawn(k, p)
  <2>1. Beside(e, k, {"task", "queue", "lease"}) /\ DOMAIN k = Fields
    BY <1>2, <1>4 DEF Claimed, Beside, Fields
  <2>2. y = k \/ (Beside(k, y, {"worker", "starting"}) /\ y.worker.pc = "begin" /\ y.starting)
    BY <1>6, <2>1 DEF Spawn, Beside, Fields, NoWorker
  <2> QED BY <1>4, <2>1, <2>2 DEF Beside, Fields, Launches
<1> QED BY <1>1, <1>3, <1>5, <1>6

LEMMA RunGuarded ==
  ASSUME IInv, GInv, Run \/ Continue
  PROVE  GStep
<1>1. Ask /\ UNCHANGED codex /\ s' = Queued(s, NextPrompt)
  BY DEF Run, Continue
<1> QED BY <1>1, AskFreed, Facts, QueuedLaunches, LaunchStep

LEMMA ResumeGuarded ==
  ASSUME IInv, GInv, Resume
  PROVE  GStep
<1> DEFINE n == Latest
           k == [s.task EXCEPT !.paused = FALSE, !.conflict = FALSE]
           x == [s EXCEPT !.task = k]
<1>1. n \in Nat /\ Typed(s, n) /\ s.task \in TaskRec /\ DOMAIN s = Fields /\ s.task.uncertain <= Len(s.ops)
  BY Facts DEF Typed, States
<1>2. Ask /\ UNCHANGED codex /\ (s' = Queued(x, NextPrompt) \/ s' = x)
  BY <1>1 DEF Resume, Fields, TaskRec
<1>3. k \in TaskRec /\ k.uncertain = s.task.uncertain /\ k.thread = s.task.thread
      /\ k.run = s.task.run /\ k.status = s.task.status
  BY <1>1 DEF TaskRec
<1>4. x = [s EXCEPT !.task = k]
  OBVIOUS
<1> HIDE DEF n, x, k
<1>5. Typed(x, n) /\ Beside(s, x, {"task"})
  BY <1>1, <1>3, <1>4, RowSane DEF Sane
<1>6. Launches(s, x)
  BY <1>5 DEF Beside, Fields, Launches
<1>7. CASE s' = x
  BY <1>2, <1>6, <1>7, AskFreed, LaunchStep
<1>8. CASE s' = Queued(x, NextPrompt)
  <2>1. Launches(x, s')
    BY <1>1, <1>5, <1>8, QueuedLaunches DEF n
  <2>2. x.worker = s.worker /\ x.starting = s.starting /\ x.follow = s.follow /\ x.stop = s.stop
        /\ x.ended = s.ended /\ x.ops = s.ops /\ x.loop = s.loop
    BY <1>5 DEF Beside, Fields
  <2>3. Launches(s, s')
    BY <2>1, <2>2 DEF Launches
  <2> QED BY <1>2, <2>3, AskFreed, LaunchStep
<1> QED BY <1>2, <1>7, <1>8

LEMMA DispatchGuarded ==
  ASSUME IInv, GInv, Dispatch
  PROVE  GStep
<1> DEFINE n == Latest
           k == Claimed(s)
           r == s.queue.prompt
<1>1. n \in Nat /\ Typed(s, n) /\ CanSame /\ UNCHANGED codex
      /\ s.queue.state = "pending" /\ ~s.task.paused /\ s' = Spawn(k, r) /\ k = Claimed(s)
  BY Facts, LeftCan DEF Dispatch, Claimable
<1> HIDE DEF n, k, r
<1>2. Freed(s, left.can)
  BY <1>1 DEF GInv, Guarded, OneStart, PauseHolds, Freed
<1>3. Beside(s, k, {"task", "queue", "lease"}) /\ DOMAIN k = Fields
  BY <1>1, ClaimedIs DEF Beside
<1>4. s' = k \/ (Beside(k, s', {"worker", "starting"}) /\ s'.worker.pc = "begin" /\ s'.starting)
  BY <1>1, <1>3 DEF Spawn, Beside, Fields, NoWorker
<1>5. Launches(s, s')
  BY <1>3, <1>4 DEF Beside, Fields, Launches
<1> QED BY <1>1, <1>2, <1>5, LaunchStep

-----------------------------------------------------------------------------
(* The loop, follow-ups, and what Codex does by itself.                      *)

\* The loop goes to another step.
LEMMA LoopStep ==
  ASSUME IInv, GInv, CanSame, UNCHANGED codex, Beside(s, s', {"loop"}),
         s'.loop.pc = "recover" => s'.loop.op \in 1..Len(s.ops)
  PROVE  GStep
<1> DEFINE x == s
           y == s'
           c == codex
           can == left.can
<1>1. /\ Guarded(x, c, can) /\ left'.can = can /\ codex' = c /\ Len(c.turns) \in Nat
      /\ Beside(x, y, {"loop"}) /\ (y.loop.pc = "recover" => y.loop.op \in 1..Len(x.ops))
  BY Facts DEF GInv, CanSame, Latest
<1> HIDE DEF x, y, c, can
<1>2. /\ y.follow = x.follow /\ y.stop = x.stop /\ y.ended = x.ended /\ y.ops = x.ops
      /\ y.worker = x.worker /\ y.starting = x.starting /\ y.queue = x.queue /\ y.task = x.task
  BY <1>1 DEF Beside, Fields
<1>3. OneStart(y, can)
  BY <1>1, <1>2 DEF Guarded, OneStart, OnWay, Executing
<1>4. PauseHolds(y, c, can)
  BY <1>1, <1>2 DEF Guarded, PauseHolds, OnWay, Pausing
<1>5. AllFiled(y)
  BY <1>1, <1>2 DEF Guarded, AllFiled
<1>6. OthersClosed(y, c, can)
  <2>1. \A h \in {"worker", "follow"} : y[h] = x[h]
    BY <1>2
  <2> QED BY <1>1, <1>2, <2>1 DEF Guarded, OthersClosed
<1>7. Guarded(y, c, can)
  BY <1>1, <1>3, <1>4, <1>5, <1>6 DEF Guarded
<1>8. Patience(can) /\ Pausing(x) /\ x.stop.pc = "apply" =>
        OwnOver(c) /\ y.worker.pc # "turn" /\ y.follow.pc # "turn"
  BY <1>1, <1>2 DEF Guarded, PauseHolds, OnWay
<1>9. ~(Len(c.turns) > Len(c.turns))
  BY <1>1
<1> QED BY <1>1, <1>7, <1>8, <1>9 DEF GStep, Confirming, x, y, c, can

\* What has no thread is neither followed up nor being stopped.
LEMMA AskingFreed ==
  ASSUME IInv, Asking(s)
  PROVE  Freed(s, left.can)
BY DEF IInv, Good, Ordered, Threadless, Asking, Freed, Pausing

LEMMA ReconcileGuarded ==
  ASSUME IInv, GInv, Reconcile
  PROVE  GStep
<1> DEFINE n == Latest
           again == Asking(s) /\ s.worker.pc = "none"
           r == s.queue.prompt
           x == IF again THEN Spawn(s, r) ELSE s
           op == UncertainStart(x)
           rec == [pc |-> "recover", latest |-> n, state |-> StateOf(n), op |-> op]
<1>1. n \in Nat /\ Typed(s, n) /\ CanSame /\ UNCHANGED codex /\ DOMAIN s = Fields
  BY Facts, LeftCan DEF Reconcile
<1>2. \/ s' = [s EXCEPT !.loop = NoLoop]
      \/ s' = [x EXCEPT !.loop = NoLoop]
      \/ op # 0 /\ s' = [x EXCEPT !.loop = rec]
  BY DEF Reconcile, Asking
<1>3. rec.pc = "recover" /\ rec.op = op /\ op = UncertainStart(x) /\ NoLoop.pc # "recover"
  BY DEF NoLoop
<1>4. x = s \/ (Asking(s) /\ s.worker.pc = "none" /\ x = Spawn(s, r))
  OBVIOUS
<1> HIDE DEF n, r, x, op, rec
<1>5. x = s \/ (Asking(s) /\ Beside(s, x, {"worker", "starting"}) /\ x.worker.pc = "begin" /\ x.starting)
  BY <1>1, <1>4, SpawnIs
<1>6. x.ops = s.ops /\ x.task = s.task /\ DOMAIN x = Fields
  BY <1>1, <1>5 DEF Beside, Fields
<1>7. op # 0 => op \in 1..Len(s.ops)
  <2>1. /\ s.task.uncertain \in Nat /\ s.task.uncertain <= Len(s.ops) /\ Len(s.ops) \in Nat
        /\ FirstUncertain(s) \in 0..Len(s.ops)
    BY <1>1, UncertainFirst DEF Typed, States, TaskRec
  <2>2. FirstUncertain(x) = FirstUncertain(s)
    BY <1>6 DEF FirstUncertain, Uncertain
  <2> QED BY <1>3, <1>6, <2>1, <2>2 DEF UncertainStart
<1>8. \/ s' = [s EXCEPT !.loop = NoLoop]
      \/ Beside(x, s', {"loop"}) /\ (s'.loop.pc = "recover" => s'.loop.op \in 1..Len(s.ops))
  <2>1. ASSUME NEW l, s' = [x EXCEPT !.loop = l]
        PROVE  Beside(x, s', {"loop"}) /\ s'.loop = l
    BY <1>6, <2>1 DEF Beside, Fields
  <2> QED BY <1>2, <1>3, <1>7, <2>1
<1>9. CASE s' = [s EXCEPT !.loop = NoLoop]
  <2>1. Beside(s, s', {"loop"}) /\ s'.loop.pc # "recover"
    BY <1>1, <1>3, <1>9 DEF Beside, Fields
  <2> QED BY <1>1, <2>1, LoopStep
<1>10. CASE Beside(x, s', {"loop"}) /\ (s'.loop.pc = "recover" => s'.loop.op \in 1..Len(s.ops))
  <2>1. CASE x = s
    BY <1>1, <1>10, <2>1, LoopStep
  <2>2. CASE x # s
    <3>1. Launches(s, s')
      BY <1>5, <1>10, <2>2 DEF Beside, Fields, Launches
    <3> QED BY <1>1, <1>5, <2>2, <3>1, AskingFreed, LaunchStep
  <2> QED BY <2>1, <2>2
<1> QED BY <1>8, <1>9, <1>10

LEMMA FollowUpGuarded ==
  ASSUME IInv, GInv, FollowUp
  PROVE  GStep
<1> DEFINE n == Latest
           p == left.prompts
           e == Enqueued(s, p)
           k == Claimed(e)
           row == s.task
<1>1. n \in Nat /\ Typed(s, n) /\ UNCHANGED codex /\ CanSame /\ Freed(s, left.can)
      /\ "follow_up" \in left.can /\ s.worker.pc = "none"
  BY Facts, AskFreed DEF FollowUp, May
<1>2. e = Enqueued(s, p) /\ k = Claimed(e)
  OBVIOUS
<1>3. s' = IF ~Claimable(e) THEN e ELSE Following(k, p, row)
  BY DEF FollowUp, Following, NextPrompt
<1> HIDE DEF n, p, e, k, row
<1>4. Beside(s, e, {"task", "queue"}) /\ DOMAIN e = Fields /\ e.queue.state = "pending"
  BY <1>1, <1>2, EnqueuedIs DEF Beside
<1>5. CASE s' = e
  <2>1. Launches(s, s')
    BY <1>4, <1>5 DEF Beside, Fields, Launches
  <2> QED BY <1>1, <2>1, LaunchStep
<1>6. CASE s' = Following(k, p, row)
  <2>1. Beside(e, k, {"task", "queue", "lease"}) /\ DOMAIN k = Fields /\ k.queue.state # "pending"
    <3>1. e.queue.state = "pending" /\ e.queue \in [state : {"pending"}, prompt : {p}]
      BY <1>1, <1>2, <1>4 DEF Enqueued, Fields, Typed, States
    <3> QED BY <1>2, <1>4, <3>1 DEF Claimed, Beside, Fields
  <2>2. /\ Beside(k, s', {"starting", "follow"}) /\ s'.starting /\ s'.follow.pc = "options"
    BY <1>6, <2>1 DEF Following, Beside, Fields
  <2>3. /\ s'.worker = s.worker /\ s'.stop = s.stop /\ s'.ended = s.ended /\ s'.ops = s.ops
        /\ s'.loop = s.loop /\ s'.queue.state # "pending"
    BY <1>4, <2>1, <2>2 DEF Beside, Fields
  <2> DEFINE x == s
             y == s'
             c == codex
             can == left.can
  <2>4. /\ Guarded(x, c, can) /\ left'.can = can /\ codex' = c /\ Len(c.turns) \in Nat
        /\ Freed(x, can) /\ "follow_up" \in can
        /\ x.worker.pc = "none" /\ y.starting /\ y.follow.pc = "options"
        /\ y.worker = x.worker /\ y.stop = x.stop /\ y.ended = x.ended /\ y.ops = x.ops
        /\ y.loop = x.loop /\ y.queue.state # "pending"
    BY <1>1, <2>2, <2>3, Facts DEF GInv, CanSame, Latest
  <2> HIDE DEF x, y, c, can
  <2>5. ~OnWay(y) /\ ~Executing(y)
    BY <2>4 DEF OnWay, Before, Executing
  <2>6. OneStart(y, can)
    BY <2>4, <2>5 DEF OneStart
  <2>7. Patience(can) => ~Pausing(x) /\ ~Pausing(y)
    BY <2>4 DEF Freed, Pausing
  <2>8. AllFiled(y)
    BY <2>4 DEF Guarded, AllFiled
  <2>9. OthersClosed(y, c, can)
    <3>1. \A h \in {"worker", "follow"} : y[h].pc # "turn"
      BY <2>4
    <3> QED BY <3>1 DEF OthersClosed
  <2>10. Guarded(y, c, can)
    BY <2>4, <2>6, <2>7, <2>8, <2>9 DEF Guarded, PauseHolds
  <2>11. ~(Len(c.turns) > Len(c.turns))
    BY <2>4
  <2> QED BY <2>4, <2>7, <2>10, <2>11 DEF GStep, Confirming, x, y, c, can
<1> QED BY <1>3, <1>5, <1>6

LEMMA NothingActive ==
  ASSUME IInv, GInv, ~Active, NEW i \in DOMAIN codex.turns
  PROVE  codex.turns[i].state # "active"
<1>1. SUFFICES ASSUME codex.turns[i].state = "active"
               PROVE  FALSE
  OBVIOUS
<1>2. i = Len(codex.turns)
  BY <1>1 DEF GInv, Guarded, LastActive
<1>3. Len(codex.turns) # 0
  BY <1>1, <1>2, Facts, TurnsOf
<1> QED BY <1>1, <1>2, <1>3 DEF Active, StateOf, Latest

\* One more turn is shown.
LEMMA GrownIs ==
  ASSUME NEW q \in Seq(TurnRec), NEW t \in TurnRec, NEW r, r = Append(q, t)
  PROVE  /\ Len(q) \in Nat /\ Len(r) = Len(q) + 1 /\ DOMAIN r = 1..(Len(q) + 1) /\ DOMAIN q = 1..Len(q)
         /\ \A i \in 1..Len(q) : r[i] = q[i]
         /\ r[Len(q) + 1] = t
<1> DEFINE T == TurnRec
<1>1. q \in Seq(T) /\ t \in T
  OBVIOUS
<1> HIDE DEF T
<1>2. /\ r \in Seq(T) /\ Len(q) \in Nat /\ Len(r) = Len(q) + 1 /\ r[Len(q) + 1] = t
      /\ \A i \in 1..Len(q) : r[i] = q[i]
  BY <1>1
<1>3. DOMAIN r = 1..(Len(q) + 1) /\ DOMAIN q = 1..Len(q)
  BY <1>1, <1>2
<1> QED BY <1>2, <1>3

LEMMA CodexStartsGuarded ==
  ASSUME IInv, GInv, CodexStarts
  PROVE  GStep
<1> DEFINE n == Len(codex.turns)
           c == codex
           d == codex'
           can == left.can
<1>1. PICK h \in {"worker", "follow"} :
        /\ s[h].pc = "turn" /\ codex.calls[h] = 0 /\ ~Active
        /\ codex' = [codex EXCEPT
             !.turns = Append(@, [prompt |-> s[h].prompt, state |-> "active"]),
             !.calls[h] = Latest + 1,
             !.inbox = Append(@, [turn |-> Latest + 1, what |-> "started"])]
  BY DEF CodexStarts
<1>2. s' = s /\ left' = left
  BY DEF CodexStarts
<1>3. /\ n \in Nat /\ Shown(c) /\ c.calls \in CallRec(n) /\ Underway(s, c) /\ Typed(s, n)
      /\ DOMAIN c = {"threads", "trees", "turns", "calls", "late", "inbox"} /\ Latest = n
  BY Facts DEF IInv, Good, Latest, Shown, CodexRec
<1>4. /\ d.turns = Append(c.turns, [prompt |-> s[h].prompt, state |-> "active"])
      /\ d.calls = [c.calls EXCEPT ![h] = n + 1]
  BY <1>1, <1>3
<1>5. /\ d.calls[h] = n + 1 /\ \A g \in {"worker", "follow"} : g # h => d.calls[g] = c.calls[g]
  <2>1. DOMAIN c.calls = {"worker", "follow"}
    BY <1>3 DEF CallRec
  <2> QED BY <1>4, <2>1
<1>6. s[h].prompt \in Nat
  BY <1>1, <1>3, PromptNats
<1>7. /\ Len(d.turns) = n + 1 /\ DOMAIN d.turns = 1..(n + 1) /\ DOMAIN c.turns = 1..n
      /\ \A i \in 1..n : d.turns[i] = c.turns[i]
      /\ d.turns[n + 1].state = "active"
  <2> DEFINE e == [prompt |-> s[h].prompt, state |-> "active"]
             q == c.turns
             r == d.turns
  <2>1. e \in TurnRec /\ e.state = "active" /\ q \in Seq(TurnRec) /\ r = Append(q, e) /\ n = Len(q)
    BY <1>3, <1>4, <1>6, TurnsOf DEF TurnRec, TurnState
  <2> HIDE DEF e, q, r, n
  <2>2. /\ Len(r) = Len(q) + 1 /\ DOMAIN r = 1..(Len(q) + 1) /\ DOMAIN q = 1..Len(q)
        /\ \A i \in 1..Len(q) : r[i] = q[i]
        /\ r[Len(q) + 1] = e
    BY <2>1, GrownIs
  <2> QED BY <2>1, <2>2 DEF q, r
<1>8. \A i \in 1..n : c.turns[i].state # "active"
  BY <1>1, <1>7, NothingActive
<1>9. Guarded(s, c, can)
  BY DEF GInv
<1>10. Own = {i \in DOMAIN c.turns : c.turns[i].prompt # 0}
  BY DEF Own
<1>11. s[h].pc = "turn" /\ c.calls[h] = 0
  BY <1>1
<1> HIDE DEF n, c, d, can
<1>12. LastActive(d)
  <2>1. ASSUME NEW i \in 1..(n + 1), d.turns[i].state = "active"
        PROVE  i = n + 1
    <3>1. i \notin 1..n
      BY <1>7, <1>8, <2>1
    <3> QED BY <1>3, <2>1, <3>1
  <2> QED BY <1>7, <2>1 DEF LastActive
<1>13. Patience(can) => ~Pausing(s)
  BY <1>9, <1>11 DEF Guarded, PauseHolds, OnWay
<1>14. OthersClosed(s, d, can)
  <2>1. n + 1 # 0
    BY <1>3
  <2> QED BY <1>5, <1>9, <2>1 DEF Guarded, OthersClosed
<1>15. Guarded(s, d, can)
  BY <1>9, <1>12, <1>13, <1>14 DEF Guarded, PauseHolds
<1>16. ASSUME Solo(can), NEW i \in Own
       PROVE  Accounted(i)
  <2>1. c.turns[i].prompt \in InTurns(c)
    BY <1>10, <1>16 DEF InTurns
  <2>2. c.turns[i].prompt \in InJournal(s) /\ c.turns[i].prompt # s[h].prompt
    BY <1>3, <1>11, <2>1 DEF Underway
  <2>3. PICK k \in DOMAIN s.ops : s.ops[k].prompt = c.turns[i].prompt
    BY <2>2 DEF InJournal
  <2>4. k \in 1..Len(s.ops)
    BY <1>3, OpsOf
  <2>5. Closed(s.ops[k])
    BY <1>9, <1>11, <1>16, <2>2, <2>3, <2>4 DEF Guarded, OthersClosed
  <2> QED BY <2>3, <2>5 DEF Accounted, Closed, c
<1> QED BY <1>2, <1>13, <1>15, <1>16 DEF GStep, Confirming, c, d, can

LEMMA NativeGuarded ==
  ASSUME IInv, GInv, Native
  PROVE  GStep
<1> DEFINE n == Len(codex.turns)
           c == codex
           d == codex'
           can == left.can
<1>1. s' = s /\ CanSame /\ ~Active
  BY Facts, LeftCan DEF Native
<1>2. /\ n \in Nat /\ Shown(c) /\ Latest = n
      /\ DOMAIN c = {"threads", "trees", "turns", "calls", "late", "inbox"}
  BY Facts DEF Latest, Shown, CodexRec
<1>3. /\ d.turns = Append(c.turns, [prompt |-> 0, state |-> "active"]) /\ d.calls = c.calls
  BY <1>2 DEF Native
<1>4. /\ Len(d.turns) = n + 1 /\ DOMAIN d.turns = 1..(n + 1) /\ DOMAIN c.turns = 1..n
      /\ \A i \in 1..n : d.turns[i] = c.turns[i]
      /\ d.turns[n + 1].prompt = 0
  <2> DEFINE e == [prompt |-> 0, state |-> "active"]
             q == c.turns
             r == d.turns
  <2>1. e \in TurnRec /\ e.prompt = 0 /\ q \in Seq(TurnRec) /\ r = Append(q, e) /\ n = Len(q)
    BY <1>2, <1>3, TurnsOf DEF TurnRec, TurnState
  <2> HIDE DEF e, q, r, n
  <2>2. /\ Len(r) = Len(q) + 1 /\ DOMAIN r = 1..(Len(q) + 1) /\ DOMAIN q = 1..Len(q)
        /\ \A i \in 1..Len(q) : r[i] = q[i]
        /\ r[Len(q) + 1] = e
    BY <2>1, GrownIs
  <2> QED BY <2>1, <2>2 DEF q, r
<1>5. \A i \in 1..n : c.turns[i].state # "active"
  BY <1>1, <1>4, NothingActive
<1>6. Guarded(s, c, can) /\ left'.can = can
  BY <1>1 DEF GInv, CanSame
<1> HIDE DEF n, c, d, can
<1>7. LastActive(d) /\ OwnOver(d)
  BY <1>2, <1>4, <1>5 DEF LastActive, OwnOver
<1>8. Guarded(s, d, can)
  BY <1>3, <1>6, <1>7 DEF Guarded, PauseHolds, OthersClosed
<1>9. Patience(can) /\ Pausing(s) => s.worker.pc # "turn" /\ s.follow.pc # "turn"
  BY <1>6 DEF Guarded, PauseHolds, OnWay
<1> QED BY <1>1, <1>3, <1>6, <1>7, <1>8, <1>9 DEF GStep, Confirming, c, d, can

LEMMA CodexStartsLateGuarded ==
  ASSUME IInv, GInv, CodexStartsLate
  PROVE  GStep
<1> DEFINE n == Len(codex.turns)
           c == codex
           d == codex'
           can == left.can
<1>1. s' = s /\ CanSame /\ ~Active /\ "late" \in can
  BY Facts DEF CodexStartsLate, CanSame, May
<1>2. /\ n \in Nat /\ Shown(c) /\ Latest = n
      /\ DOMAIN c = {"threads", "trees", "turns", "calls", "late", "inbox"}
      /\ c.late \subseteq Nat
  BY Facts DEF Latest, Shown, CodexRec
<1>3. PICK prompt \in c.late :
        /\ d.turns = Append(c.turns, [prompt |-> prompt, state |-> "active"])
        /\ d.calls = c.calls
  BY <1>2 DEF CodexStartsLate
<1>4. /\ Len(d.turns) = n + 1 /\ DOMAIN d.turns = 1..(n + 1) /\ DOMAIN c.turns = 1..n
      /\ \A i \in 1..n : d.turns[i] = c.turns[i]
  <2> DEFINE e == [prompt |-> prompt, state |-> "active"]
             q == c.turns
             r == d.turns
  <2>1. e \in TurnRec /\ q \in Seq(TurnRec) /\ r = Append(q, e) /\ n = Len(q)
    BY <1>2, <1>3, TurnsOf DEF TurnRec, TurnState
  <2> HIDE DEF e, q, r, n
  <2>2. /\ Len(r) = Len(q) + 1 /\ DOMAIN r = 1..(Len(q) + 1) /\ DOMAIN q = 1..Len(q)
        /\ \A i \in 1..Len(q) : r[i] = q[i]
    BY <2>1, GrownIs
  <2> QED BY <2>1, <2>2 DEF q, r
<1>5. \A i \in 1..n : c.turns[i].state # "active"
  BY <1>1, <1>4, NothingActive
<1>6. Guarded(s, c, can) /\ left'.can = can
  BY <1>1 DEF GInv, CanSame
<1> HIDE DEF n, c, d, can
<1>7. LastActive(d)
  BY <1>2, <1>4, <1>5 DEF LastActive
<1>8. Guarded(s, d, can)
  BY <1>1, <1>3, <1>6, <1>7 DEF Guarded, PauseHolds, OthersClosed, Patience
<1> QED BY <1>1, <1>3, <1>6, <1>8 DEF GStep, Confirming, Patience, c, d, can

LEMMA ForgottenIs ==
  ASSUME NEW n, NEW x, Typed(x, n), NEW y, y = Forgotten(x)
  PROVE  /\ y.worker.pc = "none" /\ y.follow.pc = "none" /\ y.stop.pc = "none" /\ y.loop.pc = "idle"
         /\ y.ended = {} /\ y.ops = x.ops /\ ~y.starting
<1> DEFINE W == NoWorker  F == NoFollow  S == NoStop  L == NoLoop
<1>1. DOMAIN x = Fields
  BY DEF Typed, States, Fields
<1>2. W.pc = "none" /\ F.pc = "none" /\ S.pc = "none" /\ L.pc = "idle"
  BY DEF NoWorker, NoFollow, NoStop, NoLoop
<1>3. y = [x EXCEPT !.turn = 0, !.starting = FALSE, !.override = FALSE,
                    !.worker = W, !.follow = F, !.stop = S,
                    !.loop = L, !.ended = {}, !.limits = {}]
  BY DEF Forgotten
<1> HIDE DEF W, F, S, L
<1>4. /\ y.worker = W /\ y.follow = F /\ y.stop = S /\ y.loop = L /\ y.ended = {} /\ y.ops = x.ops
      /\ y.starting = FALSE
  BY <1>1, <1>3 DEF Fields
<1> QED BY <1>2, <1>4

LEMMA CrashGuarded ==
  ASSUME IInv, GInv, Crash
  PROVE  GStep
<1> DEFINE c == codex
           d == codex'
           can == left.can
           x == s
           y == s'
<1>1. CanSame /\ Typed(s, Latest) /\ s' = Forgotten(s) /\ codex'.turns = codex.turns
      /\ Len(codex.turns) \in Nat
  <2> DEFINE a == Abandoned(codex)
  <2>1. a.turns = codex.turns /\ Shown(a)
    BY GoodAbandoned
  <2>2. codex'.turns = codex.turns
    <3>1. PICK m \in {0, 1}, k \in {0, 1} :
            codex' = [a EXCEPT !.trees = @ + m, !.threads = @ + k, !.calls = NoCalls, !.inbox = <<>>]
      BY DEF Crash
    <3> HIDE DEF a
    <3>2. DOMAIN a = {"threads", "trees", "turns", "calls", "late", "inbox"}
      BY <2>1 DEF Shown, CodexRec
    <3> QED BY <2>1, <3>1, <3>2
  <2> QED BY <2>2, Facts, LeftCan DEF Crash, Latest
<1>2. /\ y.worker.pc = "none" /\ y.follow.pc = "none" /\ y.stop.pc = "none" /\ y.loop.pc = "idle"
      /\ y.ended = {} /\ y.ops = x.ops
  BY <1>1, ForgottenIs
<1>3. Guarded(x, c, can) /\ left'.can = can /\ d.turns = c.turns /\ Len(c.turns) \in Nat
  BY <1>1 DEF GInv, CanSame
<1> HIDE DEF c, d, x, y, can
<1>4. OneStart(y, can)
  BY <1>2 DEF OneStart, OnWay, Before
<1>5. ~Pausing(y)
  BY <1>2 DEF Pausing
<1>6. AllFiled(y)
  BY <1>2, <1>3 DEF Guarded, AllFiled
<1>7. OthersClosed(y, d, can)
  <2>1. \A h \in {"worker", "follow"} : y[h].pc # "turn"
    BY <1>2
  <2> QED BY <2>1 DEF OthersClosed
<1>8. LastActive(d) /\ (OwnOver(c) => OwnOver(d))
  BY <1>3 DEF Guarded, LastActive, OwnOver
<1>9. Guarded(y, d, can)
  BY <1>4, <1>5, <1>6, <1>7, <1>8 DEF Guarded, PauseHolds
<1>10. Patience(can) /\ Pausing(x) /\ x.stop.pc = "apply" => OwnOver(d)
  BY <1>3, <1>8 DEF Guarded, PauseHolds
<1>11. ~(Len(d.turns) > Len(c.turns))
  BY <1>3
<1> QED BY <1>2, <1>3, <1>9, <1>10, <1>11 DEF GStep, Confirming, c, d, can, x, y
-----------------------------------------------------------------------------
(* The invariant of the starts.                                              *)

LEMMA InitGuarded ==
  ASSUME Init
  PROVE  GInv
<1> DEFINE W == NoWorker  F == NoFollow  P == NoStop  L == NoLoop
           K == [status |-> "todo", run |-> "none", paused |-> FALSE,
                 conflict |-> FALSE, observe |-> FALSE, uncertain |-> 0,
                 thread |-> FALSE, tree |-> FALSE]
           Q == [state |-> "none", prompt |-> 0]
           M == left.managed
<1>1. s = [managed |-> M, task |-> K, queue |-> Q, lease |-> FALSE, ops |-> <<>>,
           threadOp |-> "none", treeOp |-> "none", runs |-> <<>>, turn |-> 0,
           starting |-> FALSE, override |-> FALSE, worker |-> W, follow |-> F, stop |-> P,
           loop |-> L, ended |-> {}, limits |-> {}]
  BY DEF Init
<1>2. W.pc = "none" /\ F.pc = "none" /\ P.pc = "none" /\ L.pc = "idle"
  BY DEF NoWorker, NoFollow, NoStop, NoLoop
<1> HIDE DEF W, F, P, L, K, Q, M
<1>3. /\ s.worker = W /\ s.follow = F /\ s.stop = P /\ s.loop = L /\ s.ended = {} /\ s.ops = <<>>
  BY <1>1
<1>4. codex.turns = <<>> /\ DOMAIN codex.turns = {}
  BY DEF Init
<1>5. Len(s.ops) = 0 /\ 1..Len(s.ops) = {}
  BY <1>3
<1>6. OneStart(s, left.can) /\ PauseHolds(s, codex, left.can)
  BY <1>2, <1>3 DEF OneStart, PauseHolds, Pausing, OnWay, Before
<1>7. LastActive(codex) /\ AllFiled(s)
  BY <1>2, <1>3, <1>4, <1>5 DEF LastActive, AllFiled
<1>8. OthersClosed(s, codex, left.can)
  BY <1>5 DEF OthersClosed
<1> QED BY <1>6, <1>7, <1>8 DEF GInv, Guarded

LEMMA StutterGuarded ==
  ASSUME IInv, GInv, UNCHANGED vars
  PROVE  GStep
<1>1. s' = s /\ UNCHANGED codex /\ CanSame /\ Typed(s, Latest)
  BY Facts DEF vars, CanSame
<1> QED BY <1>1, SelfTame, TameOnly

\* One line per action of Next.
LEMMA GuardedNext ==
  ASSUME IInv, GInv, [Next]_vars
  PROVE  GStep
<1>1. ASSUME Users
      PROVE  GStep
  BY <1>1, RunGuarded, ResumeGuarded, FollowUpGuarded, AttachGuarded, StopGuarded DEF Users
<1>2. ASSUME Worker
      PROVE  GStep
  BY <1>2, BeginGuarded, TreeCreatedGuarded, ThreadCreatedGuarded, ResumedGuarded, SubmitGuarded,
     TurnStartedGuarded, TurnEndedGuarded, QuotaWaitGuarded, FollowUpSubmitGuarded,
     FollowUpStartedGuarded, StopAskGuarded, StopCheckGuarded, StopApplyGuarded DEF Worker
<1>3. ASSUME Loop
      PROVE  GStep
  BY <1>3, DispatchGuarded, SyncReadGuarded, SyncApplyGuarded, ReconcileGuarded, RecoverGuarded DEF Loop
<1>4. ASSUME Trouble
      PROVE  GStep
  BY <1>4, TreeLostGuarded, ThreadLostGuarded, NotReadiedGuarded, TurnRefusedGuarded, TurnLostGuarded,
     FollowUpNotStartedGuarded, MissedGuarded, CrashGuarded DEF Trouble
<1>5. ASSUME Desktop
      PROVE  GStep
  BY <1>5, CodexStartsGuarded, CodexStartsLateGuarded, NativeGuarded, CodexEndsGuarded, NotifiedGuarded DEF Desktop
<1> QED BY <1>1, <1>2, <1>3, <1>4, <1>5, StutterGuarded DEF Next

LEMMA GuardedAlways == Spec => [](IInv /\ GInv)
<1>1. Init => IInv /\ GInv
  BY InitGood, InitGuarded
<1>2. IInv /\ GInv /\ [Next]_vars => (IInv /\ GInv)'
  BY NextStep, GuardedNext DEF Step, GStep, GInv
<1> QED BY <1>1, <1>2, PTL DEF Spec

\* No start that the board waits for is carried out while the journal does not
\* account for a turn the board started before, unless users ask for turns while a
\* follow-up is unanswered.  NoBlindStart is about the runs without a timeout: there
\* "blocked" stands for a refusal or a confirmed pause, never for an open start.
THEOREM StartsKnowing == Spec => NoBlindStart
<1>1. ~Overlapping => Solo(left.can)
  BY DEF Overlapping, Solo
<1>2. IInv /\ GInv /\ [Next]_vars =>
        [ /\ ~Overlapping /\ ~May("timeout")
          /\ codex'.calls # codex.calls /\ Len(codex'.turns) > Len(codex.turns)
          => \A i \in Own : Accounted(i) ]_vars
  BY <1>1, GuardedNext DEF GStep
<1> QED BY <1>2, GuardedAlways, PTL DEF Spec, NoBlindStart

\* Once a pause is confirmed nothing that the board started runs, and no start is
\* on its way to Codex.
THEOREM PauseIsConfirmed == Spec => PauseConfirmed
<1>1. IInv /\ GInv /\ [Next]_vars =>
        [ /\ ~May("impatient") /\ ~May("late")
          /\ s.stop.pc = "apply" /\ s.stop.kind = "pause" /\ s.task.paused /\ s'.stop.pc = "none"
          => Quiet' ]_vars
  <2>1. ASSUME IInv, GInv, [Next]_vars, ~May("impatient"), ~May("late"), s.stop.pc = "apply",
               s.stop.kind = "pause"
        PROVE  Quiet'
    <3>1. Confirming
      BY <2>1 DEF Confirming, Patience, May, Pausing
    <3>2. OwnOver(codex') /\ s'.worker.pc # "turn" /\ s'.follow.pc # "turn"
      BY <2>1, <3>1, GuardedNext DEF GStep
    <3>3. \A i \in Own' : StateOf(i)' # "active"
      BY <3>2 DEF OwnOver, Own, StateOf
    <3> QED BY <3>2, <3>3 DEF Quiet
  <2> QED BY <2>1
<1> QED BY <1>1, GuardedAlways, PTL DEF Spec, PauseConfirmed
=============================================================================
