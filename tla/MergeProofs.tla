------------------------------ MODULE MergeProofs ------------------------------
(***************************************************************************)
(* What is delivered is in the target, one repair runs at a time, what is     *)
(* published is verified, and no task ends while its turn runs.               *)
(*                                                                         *)
(* At most one operation is in hand or waits to go on (OneCurrent); it is the *)
(* one whose repair may run (Repairing), and its task is not done and, where  *)
(* results are reviewed, is approved (Reviewing).  The operators of Merge are  *)
(* taken one by one: each keeps Good, and what it adds to the target is       *)
(* verified (Adds).  Every action is one of them, or writes one row.          *)
(*                                                                         *)
(* A task that waits for its integration, and one that is idle, has a change   *)
(* which the target does not have, or a publication that has landed (Resting); *)
(* where the worker is tells what it has in hand (Placed).  Idling is both, and *)
(* goes through the operators in the same order (the second part).            *)
(***************************************************************************)
EXTENDS Merge, FiniteSetTheorems, TLAPS

StateFields == {"task", "op", "check", "target", "dirty", "commands", "local", "late", "w"}
TaskFields == {"merge", "status", "running", "paused", "result", "approved", "merged",
               "head", "clean", "op"}
OpFields == {"state", "tree", "head", "clean", "thread", "turn", "result"}
WorkerFields == {"pc", "op", "check", "recovering"}

Merges == {"none", "pending_review", "queued", "merging", "blocked", "merged"}
Operations == Held \cup {"preparing", "verified_turn", "blocked", "retry", "superseded",
                        "publishing", "completed"}
Turns == {"none", "active", "completed", "failed", "interrupted", "quota"}
Steps == {"idle", "tree", "thread", "turn", "wait", "verify", "read"}

Shape(x) ==
  /\ DOMAIN x = StateFields
  /\ DOMAIN x.task = Tasks
  /\ \A t \in Tasks : DOMAIN x.task[t] = TaskFields /\ x.task[t].merge \in Merges
  /\ \A i \in DOMAIN x.op : /\ DOMAIN x.op[i] = OpFields
                           /\ x.op[i].state \in Operations /\ x.op[i].turn \in Turns
  /\ DOMAIN x.w = WorkerFields /\ x.w.pc \in Steps

\* The worker has id in hand.
Working(x) == x.w.pc # "idle"
\* i is in hand, or goes on when the worker is free.
Current(x, i) == (Working(x) /\ i = x.w.op) \/ x.op[i].state \in Interrupted

OpFits(x, i) ==
  /\ Owner(i) \in Tasks /\ Source(i) # {}
  /\ x.op[i].result # {} => Source(i) \subseteq x.op[i].result

TaskFits(x, t) ==
  /\ x.task[t].result \subseteq x.task[t].head
  /\ x.task[t].merge = "queued" => x.task[t].result # {}
  /\ x.task[t].running => x.task[t].status # "done"
  /\ x.task[t].merge = "merged" => x.task[t].merged # {}
  /\ x.task[t].merged \subseteq x.target
  /\ x.task[t].status = "done" => x.task[t].merge = "merged"

OneCurrent(x) ==
  /\ Working(x) => x.w.op \in DOMAIN x.op
  /\ \A i, j \in DOMAIN x.op : Current(x, i) /\ Current(x, j) => i = j
  /\ \A i \in DOMAIN x.op : Current(x, i) => x.task[Owner(i)].status # "done"

Checking(x) ==
  /\ x.w.pc = "verify" => x.w.check \in DOMAIN x.check
  /\ x.w.pc = "read" => x.w.recovering

Inv(x) ==
  /\ Shape(x)
  /\ \A i \in DOMAIN x.op : OpFits(x, i)
  /\ \A t \in Tasks : TaskFits(x, t)
  /\ OneCurrent(x)
  /\ Checking(x)

\* Users leave a task alone whose repair is being started, no request times out, and
\* no start is carried out late.
Patience == "can" \in DOMAIN left /\ left.can \cap {"impatient", "timeout", "late"} = {}
Repairing(x) ==
  /\ \A i \in DOMAIN x.op : x.op[i].turn = "active" => x.op[i].thread /\ x.op[i].state \in Held
  /\ x.w.pc \in {"tree", "thread", "verify"} => x.op[x.w.op].turn # "active"
  /\ x.w.pc \in {"turn", "wait"} => x.op[x.w.op].thread
  /\ x.w.pc = "turn" => x.op[x.w.op].state \in Held
  /\ x.late = {}

\* Where results are reviewed, no answer is lost and no usage limit met.
Steadies ==
  {c \in [can : SUBSET Operation, review : BOOLEAN, turns : Nat, moves : Nat, trouble : Nat] :
     c.review => c.can \cap {"lost", "timeout", "quota"} = {}}
Steady == Scenario \subseteq Steadies
Approved(x, t) == x.task[t].approved = x.task[t].result
Reviewing(x) ==
  /\ \A t \in Tasks : x.task[t].merge \in {"queued", "merging"} => Approved(x, t)
  /\ \A i \in DOMAIN x.op :
       /\ Current(x, i) /\ x.task[Owner(i)].merge = "blocked" => Approved(x, Owner(i))
       /\ x.op[i].state # "waiting_quota" /\ x.op[i].turn # "quota"
  /\ x.w.pc \in {"tree", "verify"} /\ ~x.w.recovering => x.op[x.w.op].state \notin Held

Good(x, review) ==
  /\ Inv(x)
  /\ Patience => Repairing(x)
  /\ Steady /\ review => Reviewing(x)

\* The worker handles id, whose repair is not under way.
Handles(x, id, review) ==
  /\ Good(x, review) /\ Working(x) /\ x.w.op = id
  /\ Patience => x.op[id].turn # "active"
  /\ Steady /\ review => x.w.recovering \/ x.op[id].state \notin Held
-----------------------------------------------------------------------------
\* The rest of the state.
SameRest(x, n) ==
  /\ n.check = x.check /\ n.target = x.target /\ n.dirty = x.dirty
  /\ n.commands = x.commands /\ n.local = x.local /\ n.late = x.late

LEMMA Members ==
  /\ {"blocked", "queued", "merging", "merged"} \subseteq Merges
  /\ Held \cup {"blocked", "superseded", "retry"} \subseteq Operations
  /\ Interrupted \subseteq Operations
BY DEF Merges, Operations, Interrupted

\* What the helpers write, field by field.
LEMMA SetOpAt ==
  ASSUME NEW x, Shape(x), NEW id \in DOMAIN x.op, NEW state \in Operations
  PROVE  LET n == SetOp(x, id, state) IN
         /\ Shape(n) /\ SameRest(x, n) /\ n.task = x.task /\ n.w = x.w
         /\ DOMAIN n.op = DOMAIN x.op
         /\ \A i \in DOMAIN x.op : i # id => n.op[i] = x.op[i]
         /\ n.op[id].state = state
         /\ \A f \in OpFields : f # "state" => n.op[id][f] = x.op[id][f]
BY DEF SetOp, Shape, SameRest, StateFields, OpFields

LEMMA SetMergeAt ==
  ASSUME NEW x, Shape(x), NEW t \in Tasks, NEW merge \in Merges
  PROVE  LET n == SetMerge(x, t, merge) IN
         /\ Shape(n) /\ SameRest(x, n) /\ n.op = x.op /\ n.w = x.w
         /\ \A u \in Tasks : u # t => n.task[u] = x.task[u]
         /\ n.task[t].merge = merge
         /\ \A f \in TaskFields : f # "merge" => n.task[t][f] = x.task[t][f]
BY DEF SetMerge, Shape, SameRest, StateFields, TaskFields

LEMMA DoneAt ==
  ASSUME NEW x, Shape(x)
  PROVE  LET n == Done(x) IN
         /\ Shape(n) /\ SameRest(x, n) /\ n.op = x.op /\ n.task = x.task /\ n.w = Idle
BY DEF Done, Idle, Shape, SameRest, StateFields, WorkerFields, Steps

\* One operation and its task are written, and the worker may be done.
Writes(x, n, id) ==
  /\ Shape(n) /\ DOMAIN n.op = DOMAIN x.op
  /\ \A i \in DOMAIN x.op : i # id => n.op[i] = x.op[i]
  /\ \A u \in Tasks : u # Owner(id) => n.task[u] = x.task[u]

\* An operation and the mergeState of its task are set, and the worker is done.
LEMMA EndsAt ==
  ASSUME NEW x, Shape(x), NEW id \in DOMAIN x.op, Owner(id) \in Tasks,
         NEW state \in Operations, NEW merge \in Merges
  PROVE  LET n == Done(SetMerge(SetOp(x, id, state), Owner(id), merge)) IN
         /\ Writes(x, n, id) /\ SameRest(x, n) /\ n.w = Idle
         /\ n.op[id].state = state
         /\ \A f \in OpFields : f # "state" => n.op[id][f] = x.op[id][f]
         /\ n.task[Owner(id)].merge = merge
         /\ \A f \in TaskFields : f # "merge" => n.task[Owner(id)][f] = x.task[Owner(id)][f]
<1> DEFINE y == SetOp(x, id, state)
           z == SetMerge(y, Owner(id), merge)
           n == Done(z)
<1>1. /\ Shape(y) /\ SameRest(x, y) /\ y.task = x.task
      /\ DOMAIN y.op = DOMAIN x.op
      /\ \A i \in DOMAIN x.op : i # id => y.op[i] = x.op[i]
      /\ y.op[id].state = state
      /\ \A f \in OpFields : f # "state" => y.op[id][f] = x.op[id][f]
  BY SetOpAt
<1> HIDE DEF y
<1>2. /\ Shape(z) /\ SameRest(y, z) /\ z.op = y.op
      /\ \A u \in Tasks : u # Owner(id) => z.task[u] = y.task[u]
      /\ z.task[Owner(id)].merge = merge
      /\ \A f \in TaskFields : f # "merge" => z.task[Owner(id)][f] = y.task[Owner(id)][f]
  BY <1>1, SetMergeAt
<1> HIDE DEF z
<1>3. Shape(n) /\ SameRest(z, n) /\ n.op = z.op /\ n.task = z.task /\ n.w = Idle
  BY <1>2, DoneAt
<1> HIDE DEF n
<1>4. /\ Writes(x, n, id) /\ SameRest(x, n) /\ n.w = Idle
      /\ n.op[id].state = state
      /\ \A f \in OpFields : f # "state" => n.op[id][f] = x.op[id][f]
      /\ n.task[Owner(id)].merge = merge
      /\ \A f \in TaskFields : f # "merge" => n.task[Owner(id)][f] = x.task[Owner(id)][f]
  BY <1>1, <1>2, <1>3 DEF Writes, SameRest
<1> QED BY <1>4 DEF n, z, y
-----------------------------------------------------------------------------
\* The worker gives the operation up for now.
LEMMA EndsGood ==
  ASSUME NEW x, NEW id, NEW review, Good(x, review), Working(x), x.w.op = id,
         NEW state \in Operations,
         Patience => x.op[id].turn # "active" \/ state \in Held,
         NEW merge \in {"blocked", "queued"},
         merge = "queued" =>
           /\ x.task[Owner(id)].result # {}
           /\ Steady /\ review => Approved(x, Owner(id)),
         Steady /\ review => state \notin Interrupted
  PROVE  LET n == Done(SetMerge(SetOp(x, id, state), Owner(id), merge)) IN
         Good(n, review) /\ n.target = x.target
<1> DEFINE n == Done(SetMerge(SetOp(x, id, state), Owner(id), merge))
           o == Owner(id)
<1>1. /\ Inv(x) /\ Working(x) /\ x.w.op = id /\ id \in DOMAIN x.op /\ o \in Tasks
      /\ Patience => Repairing(x)
      /\ Steady /\ review => Reviewing(x)
  BY DEF Good, Inv, OneCurrent, OpFits
<1>2. /\ Writes(x, n, id) /\ SameRest(x, n) /\ n.w = Idle
      /\ n.op[id].state = state
      /\ \A f \in OpFields : f # "state" => n.op[id][f] = x.op[id][f]
      /\ n.task[o].merge = merge
      /\ \A f \in TaskFields : f # "merge" => n.task[o][f] = x.task[o][f]
  BY <1>1, EndsAt DEF Inv, Merges
<1> HIDE DEF n
<1>3. n.op[id].turn = x.op[id].turn /\ n.op[id].thread = x.op[id].thread
      /\ n.op[id].result = x.op[id].result
  BY <1>2 DEF OpFields
<1>4. /\ n.task[o].result = x.task[o].result /\ n.task[o].head = x.task[o].head
      /\ n.task[o].running = x.task[o].running /\ n.task[o].status = x.task[o].status
      /\ n.task[o].merged = x.task[o].merged /\ n.task[o].approved = x.task[o].approved
  BY <1>2 DEF TaskFields
<1>5. x.task[o].status # "done"
  BY <1>1 DEF Inv, OneCurrent, Current
<1>6. Inv(n)
  <2>1. \A i \in DOMAIN n.op : OpFits(n, i)
    BY <1>1, <1>2, <1>3 DEF Inv, Writes, OpFits
  <2>2. \A t \in Tasks : TaskFits(n, t)
    <3>1. TaskFits(n, o)
      BY <1>1, <1>2, <1>4, <1>5 DEF Inv, TaskFits, SameRest
    <3>2. ASSUME NEW t \in Tasks, t # o PROVE TaskFits(n, t)
      BY <1>1, <1>2, <3>2 DEF Inv, TaskFits, SameRest, Writes
    <3> QED BY <3>1, <3>2
  <2>3. OneCurrent(n)
    <3>1. ASSUME NEW i \in DOMAIN n.op, Current(n, i) PROVE i = id
      BY <1>1, <1>2, <3>1 DEF Inv, OneCurrent, Current, Working, Writes, Idle
    <3>2. ~Working(n)
      BY <1>2 DEF Working, Idle
    <3> QED BY <3>1, <3>2, <1>2, <1>4, <1>5 DEF OneCurrent
  <2>4. Checking(n)
    BY <1>2 DEF Checking, Idle
  <2> QED BY <2>1, <2>2, <2>3, <2>4, <1>2 DEF Inv, Writes
<1>7. ASSUME Patience PROVE Repairing(n)
  BY <1>1, <1>2, <1>3, <1>7 DEF Repairing, Writes, Idle, SameRest
<1>8. ASSUME Steady, review PROVE Reviewing(n)
  <2>1. Reviewing(x) /\ state \notin Interrupted
    BY <1>1, <1>8
  <2>2. \A t \in Tasks : n.task[t].merge \in {"queued", "merging"} => Approved(n, t)
    BY <2>1, <1>1, <1>2, <1>4, <1>8 DEF Reviewing, Approved, Writes
  <2>3. ASSUME NEW i \in DOMAIN n.op PROVE ~Current(n, i)
    BY <1>1, <1>2, <2>1 DEF Inv, OneCurrent, Current, Working, Writes, Idle
  <2>4. \A i \in DOMAIN n.op : n.op[i].state # "waiting_quota" /\ n.op[i].turn # "quota"
    BY <2>1, <1>2, <1>3 DEF Reviewing, Writes, Interrupted, Held
  <2> QED BY <2>2, <2>3, <2>4, <1>2 DEF Reviewing, Idle
<1>9. n.target = x.target
  BY <1>2 DEF SameRest
<1>10. Good(n, review)
  BY <1>6, <1>7, <1>8 DEF Good
<1> QED BY <1>9, <1>10 DEF n

\* What a failure keeps of a state.
Kept(x) == IF x.w.recovering THEN {"waiting_quota"} ELSE Held

\* An attempt fails: what may still run is kept, the rest is blocked.
LEMMA FailsAnyGood ==
  ASSUME NEW x, NEW id, NEW review, Good(x, review), Working(x), x.w.op = id,
         Patience => x.op[id].turn # "active" \/ x.op[id].state \in Kept(x),
         Steady /\ review => x.op[id].state \notin Kept(x)
  PROVE  Good(Fails(x), review) /\ Fails(x).target = x.target
<1> DEFINE state == IF x.op[id].state \in Kept(x) THEN x.op[id].state ELSE "blocked"
<1>1. Steady /\ review => state \notin Interrupted
  BY DEF Interrupted, Held
<1>2. Patience => x.op[id].turn # "active" \/ state \in Held
  BY DEF Kept, Held
<1>3. Fails(x) = Done(SetMerge(SetOp(x, id, state), Owner(id), "blocked"))
  BY DEF Fails, Kept
<1>4. state \in Operations
  BY Members DEF Good, Inv, Shape, OneCurrent
<1> HIDE DEF state
<1> QED BY <1>1, <1>2, <1>3, <1>4, EndsGood

LEMMA FailsGood ==
  ASSUME NEW x, NEW id, NEW review, Handles(x, id, review)
  PROVE  Good(Fails(x), review) /\ Fails(x).target = x.target
<1>1. id \in DOMAIN x.op
  BY DEF Handles, Good, Inv, OneCurrent
<1>2. Steady /\ review => x.op[id].state \notin Kept(x)
  BY <1>1 DEF Handles, Good, Reviewing, Kept
<1> QED BY <1>2, FailsAnyGood DEF Handles

\* The worker stops, with nothing recorded.
LEMMA DoneGood ==
  ASSUME NEW x, NEW review, Good(x, review)
  PROVE  Good(Done(x), review) /\ Done(x).target = x.target
<1> DEFINE n == Done(x)
<1>1. Shape(n) /\ SameRest(x, n) /\ n.op = x.op /\ n.task = x.task /\ n.w = Idle
  BY DoneAt DEF Good, Inv
<1> HIDE DEF n
<1>2. Inv(n)
  BY <1>1 DEF Good, Inv, SameRest, OpFits, TaskFits, OneCurrent, Current, Working, Checking, Idle
<1>3. ASSUME Patience PROVE Repairing(n)
  BY <1>1, <1>3 DEF Good, Repairing, Idle, SameRest
<1>4. ASSUME Steady, review PROVE Reviewing(n)
  BY <1>1, <1>4 DEF Good, Reviewing, Current, Working, Approved, Idle
<1>5. Good(n, review) /\ n.target = x.target
  BY <1>1, <1>2, <1>3, <1>4 DEF Good, SameRest
<1> QED BY <1>5 DEF n

LEMMA UnansweredGood ==
  ASSUME NEW x, NEW id, NEW review, Handles(x, id, review), NEW broken \in BOOLEAN
  PROVE  Good(Unanswered(x, broken), review) /\ Unanswered(x, broken).target = x.target
<1>2. Good(Done(x), review) /\ Done(x).target = x.target
  BY DoneGood DEF Handles
<1> QED BY <1>2, FailsGood DEF Unavailable, Unanswered

\* The result of an integration is recorded before it is published.
LEMMA ResultAt ==
  ASSUME NEW x, Shape(x), NEW id \in DOMAIN x.op
  PROVE  LET n == Publishing(x, id)
             result == x.op[id].head IN
         /\ Writes(x, n, id) /\ SameRest(x, n) /\ n.task = x.task /\ n.w = x.w
         /\ n.op[id].state = "publishing" /\ n.op[id].result = result
         /\ \A f \in OpFields : f \notin {"state", "result"} => n.op[id][f] = x.op[id][f]
<1> DEFINE result == x.op[id].head
           y == SetOp(x, id, "publishing")
           n == [y EXCEPT !.op[id].result = result]
<1>1. /\ Shape(y) /\ SameRest(x, y) /\ y.task = x.task /\ y.w = x.w
      /\ DOMAIN y.op = DOMAIN x.op
      /\ \A i \in DOMAIN x.op : i # id => y.op[i] = x.op[i]
      /\ y.op[id].state = "publishing"
      /\ \A f \in OpFields : f # "state" => y.op[id][f] = x.op[id][f]
  BY SetOpAt DEF Operations
<1> HIDE DEF y, result
<1>2. /\ Shape(n) /\ SameRest(y, n) /\ n.task = y.task /\ n.w = y.w
      /\ DOMAIN n.op = DOMAIN y.op
      /\ \A i \in DOMAIN y.op : i # id => n.op[i] = y.op[i]
      /\ n.op[id].result = result
      /\ \A f \in OpFields : f # "result" => n.op[id][f] = y.op[id][f]
  BY <1>1 DEF Shape, SameRest, StateFields, OpFields
<1> HIDE DEF n
<1>3. n.op[id].state = "publishing"
  BY <1>1, <1>2 DEF OpFields
<1>4. /\ Writes(x, n, id) /\ SameRest(x, n) /\ n.task = x.task /\ n.w = x.w
      /\ n.op[id].state = "publishing" /\ n.op[id].result = result
      /\ \A f \in OpFields : f \notin {"state", "result"} => n.op[id][f] = x.op[id][f]
  BY <1>1, <1>2, <1>3 DEF Writes, SameRest
<1> QED BY <1>4 DEF n, y, Publishing, result

\* An integration is over, field by field.
LEMMA MergedAt ==
  ASSUME NEW x, Shape(x), NEW id \in DOMAIN x.op, Owner(id) \in Tasks, NEW result,
         NEW n, n = Merged(x, id, result)
  PROVE  /\ Writes(x, n, id) /\ SameRest(x, n) /\ n.w = Idle
         /\ n.op[id].state = "completed" /\ n.op[id].result = result
         /\ \A f \in OpFields : f \notin {"state", "result"} => n.op[id][f] = x.op[id][f]
         /\ n.task[Owner(id)].merge = "merged" /\ n.task[Owner(id)].status = "done"
         /\ ~n.task[Owner(id)].running /\ n.task[Owner(id)].merged = Source(id)
         /\ \A f \in TaskFields : f \notin {"merge", "status", "running", "merged"} =>
              n.task[Owner(id)][f] = x.task[Owner(id)][f]
<1> DEFINE o == Owner(id)
<1>1. /\ DOMAIN n = StateFields /\ SameRest(x, n) /\ n.w = Idle
      /\ DOMAIN n.op = DOMAIN x.op /\ DOMAIN n.task = Tasks
      /\ \A i \in DOMAIN x.op : i # id => n.op[i] = x.op[i]
      /\ \A u \in Tasks : u # o => n.task[u] = x.task[u]
      /\ n.op[id] = [x.op[id] EXCEPT !.state = "completed", !.result = result]
      /\ n.task[o] = [x.task[o] EXCEPT !.merge = "merged", !.status = "done",
                                       !.running = FALSE, !.merged = Source(id)]
  BY DEF Merged, Shape, SameRest, StateFields
<1>2. /\ DOMAIN x.op[id] = OpFields /\ DOMAIN x.task[o] = TaskFields
  BY DEF Shape
<1>3. /\ DOMAIN n.op[id] = OpFields
      /\ n.op[id].state = "completed" /\ n.op[id].result = result
      /\ \A f \in OpFields : f \notin {"state", "result"} => n.op[id][f] = x.op[id][f]
  BY <1>1, <1>2 DEF OpFields
<1>4. /\ DOMAIN n.task[o] = TaskFields
      /\ n.task[o].merge = "merged" /\ n.task[o].status = "done"
      /\ ~n.task[o].running /\ n.task[o].merged = Source(id)
      /\ \A f \in TaskFields : f \notin {"merge", "status", "running", "merged"} =>
              n.task[o][f] = x.task[o][f]
  BY <1>1, <1>2 DEF TaskFields
<1>5. Shape(n)
  <2>1. DOMAIN n.w = WorkerFields /\ n.w.pc \in Steps
    BY <1>1 DEF Idle, WorkerFields, Steps
  <2>2. \A t \in Tasks : DOMAIN n.task[t] = TaskFields /\ n.task[t].merge \in Merges
    BY <1>1, <1>4 DEF Shape, Merges
  <2>3. n.op[id].state \in Operations /\ n.op[id].turn \in Turns
    BY <1>3 DEF Shape, OpFields, Operations
  <2>4. \A i \in DOMAIN n.op : /\ DOMAIN n.op[i] = OpFields
                              /\ n.op[i].state \in Operations /\ n.op[i].turn \in Turns
    BY <1>1, <1>3, <2>3 DEF Shape
  <2> QED BY <1>1, <2>1, <2>2, <2>4 DEF Shape
<1> QED BY <1>1, <1>3, <1>4, <1>5 DEF Writes

\* What the step from x to n adds to the target is the verified result of a task.
Adds(x, n, review) ==
  n.target # x.target =>
    \E i \in DOMAIN x.op :
      LET t == x.task[Owner(i)] IN
      /\ Source(i) \cup x.target \subseteq n.target
      /\ <<i, n.target, n.commands>> \in DOMAIN n.check
      /\ n.check[<<i, n.target, n.commands>>] = "passed"
      /\ t.result = Source(i) /\ t.head = Source(i) /\ ~t.paused
      /\ Steady /\ review => t.approved = Source(i)

\* A result that is in the target ends its task.
LEMMA MergedGood ==
  ASSUME NEW x, NEW id, NEW review, Handles(x, id, review), NEW result,
         Source(id) \subseteq result, result \subseteq x.target
  PROVE  LET n == Merged(x, id, result) IN Good(n, review) /\ n.target = x.target
<1> DEFINE n == Merged(x, id, result)
           o == Owner(id)
<1>1. /\ Inv(x) /\ Working(x) /\ x.w.op = id /\ id \in DOMAIN x.op /\ o \in Tasks
      /\ Patience => Repairing(x) /\ x.op[id].turn # "active"
      /\ Steady /\ review => Reviewing(x)
  BY DEF Handles, Good, Inv, OneCurrent, OpFits
<1>2. /\ Writes(x, n, id) /\ SameRest(x, n) /\ n.w = Idle
      /\ n.op[id].state = "completed" /\ n.op[id].result = result
      /\ \A f \in OpFields : f \notin {"state", "result"} => n.op[id][f] = x.op[id][f]
      /\ n.task[o].merge = "merged" /\ n.task[o].status = "done"
      /\ ~n.task[o].running /\ n.task[o].merged = Source(id)
      /\ \A f \in TaskFields : f \notin {"merge", "status", "running", "merged"} =>
              n.task[o][f] = x.task[o][f]
  <2>1. Shape(x)
    BY <1>1 DEF Inv
  <2> HIDE DEF n
  <2>2. n = Merged(x, id, result)
    BY DEF n
  <2> QED BY <1>1, <2>1, <2>2, MergedAt
<1> HIDE DEF n
<1>3. n.op[id].turn = x.op[id].turn /\ n.op[id].thread = x.op[id].thread
  BY <1>2 DEF OpFields
<1>4. n.task[o].result = x.task[o].result /\ n.task[o].head = x.task[o].head
  BY <1>2 DEF TaskFields
<1>5. ASSUME NEW i \in DOMAIN n.op PROVE ~Current(n, i)
  BY <1>1, <1>2 DEF Inv, OneCurrent, Current, Working, Writes, Idle, Interrupted, Held
<1>6. Inv(n)
  <2>1. \A i \in DOMAIN n.op : OpFits(n, i)
    BY <1>1, <1>2 DEF Inv, Writes, OpFits
  <2>2. \A t \in Tasks : TaskFits(n, t)
    <3>1. TaskFits(n, o)
      BY <1>1, <1>2, <1>4 DEF Inv, TaskFits, SameRest, OpFits
    <3>2. ASSUME NEW t \in Tasks, t # o PROVE TaskFits(n, t)
      BY <1>1, <1>2, <3>2 DEF Inv, TaskFits, SameRest, Writes
    <3> QED BY <3>1, <3>2
  <2>3. OneCurrent(n) /\ Checking(n)
    BY <1>2, <1>5 DEF OneCurrent, Checking, Working, Idle
  <2> QED BY <2>1, <2>2, <2>3, <1>2 DEF Inv, Writes
<1>7. ASSUME Patience PROVE Repairing(n)
  <2>1. ASSUME NEW i \in DOMAIN n.op, n.op[i].turn = "active"
        PROVE  n.op[i].thread /\ n.op[i].state \in Held
    BY <1>1, <1>2, <1>3, <1>7, <2>1 DEF Repairing, Writes
  <2> QED BY <2>1, <1>1, <1>2, <1>7 DEF Repairing, Idle, SameRest
<1>8. ASSUME Steady, review PROVE Reviewing(n)
  <2>1. Reviewing(x)
    BY <1>1, <1>8
  <2>2. \A t \in Tasks : n.task[t].merge \in {"queued", "merging"} => Approved(n, t)
    BY <2>1, <1>2 DEF Reviewing, Approved, Writes
  <2>3. \A i \in DOMAIN n.op : n.op[i].state # "waiting_quota" /\ n.op[i].turn # "quota"
    BY <2>1, <1>2, <1>3 DEF Reviewing, Writes
  <2> QED BY <2>2, <2>3, <1>5, <1>2 DEF Reviewing, Idle
<1>9. Good(n, review) /\ n.target = x.target
  BY <1>2, <1>6, <1>7, <1>8 DEF Good, SameRest
<1> QED BY <1>9 DEF n

\* The state before the branch is moved: its operation says what it is moved to.
LEMMA PublishingGood ==
  ASSUME NEW x, NEW id, NEW review, Handles(x, id, review),
         Source(id) \subseteq x.op[id].head, x.w.pc # "turn",
         x.task[Owner(id)].merge # "blocked"
  PROVE  LET n == Publishing(x, id)
             result == x.op[id].head IN
         /\ Handles(n, id, review) /\ SameRest(x, n) /\ n.task = x.task
         /\ n.op[id].result = result /\ id \in DOMAIN n.op
<1> DEFINE n == Publishing(x, id)
           o == Owner(id)
           result == x.op[id].head
<1>1. /\ Inv(x) /\ Working(x) /\ x.w.op = id /\ id \in DOMAIN x.op /\ o \in Tasks
      /\ Patience => Repairing(x) /\ x.op[id].turn # "active"
      /\ Steady /\ review => Reviewing(x)
  BY DEF Handles, Good, Inv, OneCurrent, OpFits
<1>2. /\ Writes(x, n, id) /\ SameRest(x, n) /\ n.task = x.task /\ n.w = x.w
      /\ n.op[id].state = "publishing" /\ n.op[id].result = result
      /\ \A f \in OpFields : f \notin {"state", "result"} => n.op[id][f] = x.op[id][f]
  BY <1>1, ResultAt DEF Inv
<1> HIDE DEF n
<1>3. n.op[id].turn = x.op[id].turn /\ n.op[id].thread = x.op[id].thread
  BY <1>2 DEF OpFields
<1>4. ASSUME NEW i \in DOMAIN n.op, Current(n, i) PROVE i = id
  BY <1>1, <1>2, <1>4 DEF Inv, OneCurrent, Current, Working, Writes
<1>5. Inv(n)
  <2>1. \A i \in DOMAIN n.op : OpFits(n, i)
    BY <1>1, <1>2 DEF Inv, Writes, OpFits
  <2>2. \A t \in Tasks : TaskFits(n, t)
    BY <1>1, <1>2 DEF Inv, TaskFits, SameRest
  <2>3. OneCurrent(n)
    BY <1>1, <1>2, <1>4 DEF Inv, OneCurrent, Current, Working, Writes
  <2>4. Checking(n)
    BY <1>1, <1>2 DEF Inv, Checking, SameRest
  <2> QED BY <2>1, <2>2, <2>3, <2>4, <1>2 DEF Inv, Writes
<1>6. ASSUME Patience PROVE Repairing(n)
  BY <1>1, <1>2, <1>3, <1>6 DEF Repairing, Writes, SameRest
<1>7. ASSUME Steady, review PROVE Reviewing(n)
  <2>1. Reviewing(x)
    BY <1>1, <1>7
  <2>2. \A t \in Tasks : n.task[t].merge \in {"queued", "merging"} => Approved(n, t)
    BY <2>1, <1>2 DEF Reviewing, Approved
  <2>3. ASSUME NEW i \in DOMAIN n.op, Current(n, i) PROVE n.task[Owner(i)].merge # "blocked"
    BY <1>2, <1>4, <2>3
  <2>4. \A i \in DOMAIN n.op : n.op[i].state # "waiting_quota" /\ n.op[i].turn # "quota"
    BY <2>1, <1>2, <1>3 DEF Reviewing, Writes
  <2>5. n.op[n.w.op].state \notin Held
    BY <1>1, <1>2 DEF Held
  <2> QED BY <2>2, <2>3, <2>4, <2>5 DEF Reviewing
<1>8. Handles(n, id, review)
  BY <1>1, <1>2, <1>3, <1>5, <1>6, <1>7 DEF Handles, Good, Working, Held
<1>9. /\ Handles(n, id, review) /\ SameRest(x, n) /\ n.task = x.task
      /\ n.op[id].result = result /\ id \in DOMAIN n.op
  BY <1>1, <1>2, <1>8 DEF Writes
<1> QED BY <1>9 DEF n

\* The branch moves on.
LEMMA TargetGood ==
  ASSUME NEW x, NEW review, Good(x, review), NEW target, x.target \subseteq target
  PROVE  LET n == [x EXCEPT !.target = target] IN
         /\ Good(n, review) /\ n.target = target
         /\ n.w = x.w /\ n.op = x.op /\ n.task = x.task /\ n.check = x.check
         /\ n.commands = x.commands /\ n.dirty = x.dirty /\ n.local = x.local
<1> DEFINE n == [x EXCEPT !.target = target]
<1>1. /\ Shape(n) /\ n.target = target
      /\ n.w = x.w /\ n.op = x.op /\ n.task = x.task /\ n.check = x.check
      /\ n.commands = x.commands /\ n.dirty = x.dirty /\ n.local = x.local
      /\ n.late = x.late
  BY DEF Good, Inv, Shape, StateFields
<1> HIDE DEF n
<1>2. Inv(n)
  BY <1>1 DEF Good, Inv, OpFits, TaskFits, OneCurrent, Current, Working, Checking
<1>3. ASSUME Patience PROVE Repairing(n)
  BY <1>1, <1>3 DEF Good, Repairing
<1>4. ASSUME Steady, review PROVE Reviewing(n)
  BY <1>1, <1>4 DEF Good, Reviewing, Current, Working, Approved
<1>5. Good(n, review)
  BY <1>2, <1>3, <1>4 DEF Good
<1> QED BY <1>1, <1>5 DEF n

\* A publication adds the verified candidate, or fails at the checkout.
LEMMA PublishGood ==
  ASSUME NEW x, NEW id, NEW review, Handles(x, id, review), x.w.pc # "turn",
         StillWanted(x, id), Acceptable(x, id), Unchanged(x, id), x.target = Target(id),
         CheckId(x, id) \in DOMAIN x.check, x.check[CheckId(x, id)] = "passed"
  PROVE  Good(Publish(x, id), review) /\ Adds(x, Publish(x, id), review)
<1> DEFINE result == x.op[id].head
           o == Owner(id)
           y == Publishing(x, id)
           z == [y EXCEPT !.target = result]
           n == Publish(x, id)
<1>1. n = IF ~CheckoutClean(x) THEN Fails(y) ELSE Merged(z, id, result)
  BY DEF Publish
<1>2. Source(id) \subseteq result /\ x.target \subseteq result
  BY DEF Acceptable
<1>3. Handles(y, id, review) /\ SameRest(x, y) /\ y.task = x.task
  BY <1>2, PublishingGood DEF StillWanted
<1> HIDE DEF n, y
<1>4. ASSUME ~CheckoutClean(x) PROVE Good(n, review) /\ n.target = x.target
  BY <1>1, <1>3, <1>4, FailsGood DEF SameRest
<1>5. ASSUME CheckoutClean(x)
      PROVE  /\ Good(n, review) /\ n.target = result
             /\ n.check = x.check /\ n.commands = x.commands
  <2>1. /\ Good(z, review) /\ z.target = result
        /\ z.w = y.w /\ z.op = y.op /\ z.task = y.task /\ z.check = x.check
        /\ z.commands = x.commands
    BY <1>2, <1>3, TargetGood DEF Handles, SameRest
  <2> HIDE DEF z
  <2>2. Handles(z, id, review)
    BY <1>3, <2>1 DEF Handles, Working
  <2>3. n = Merged(z, id, result)
    BY <1>1, <1>5
  <2>4. Good(n, review) /\ n.target = result
    BY <1>2, <2>1, <2>2, <2>3, MergedGood
  <2>5. SameRest(z, n)
    <3>1. Shape(z) /\ id \in DOMAIN z.op /\ Owner(id) \in Tasks
      BY <2>2 DEF Handles, Good, Inv, OneCurrent, OpFits
    <3> QED BY <3>1, <2>3, MergedAt
  <2> QED BY <2>1, <2>4, <2>5 DEF SameRest
<1>6. Good(n, review)
  BY <1>4, <1>5
<1>7. Adds(x, n, review)
  <2>1. CASE ~CheckoutClean(x)
    BY <1>4, <2>1 DEF Adds
  <2>2. CASE CheckoutClean(x)
    <3>1. n.target = result /\ n.check = x.check /\ n.commands = x.commands
      BY <1>5, <2>2
    <3>2. <<id, n.target, n.commands>> = CheckId(x, id)
      BY <3>1 DEF CheckId
    <3>3. id \in DOMAIN x.op /\ o \in Tasks
      BY DEF Handles, Good, Inv, OneCurrent, OpFits
    <3>4. /\ x.task[o].result = Source(id) /\ x.task[o].head = Source(id) /\ ~x.task[o].paused
          /\ x.task[o].merge = "merging"
      BY DEF Unchanged, StillWanted
    <3>5. Steady /\ review => x.task[o].approved = Source(id)
      BY <3>3, <3>4 DEF Handles, Good, Reviewing, Approved
    <3> QED BY <1>2, <3>1, <3>2, <3>3, <3>4, <3>5 DEF Adds
  <2> QED BY <2>1, <2>2
<1> QED BY <1>6, <1>7 DEF n

\* A target that has moved on makes the delivery wait again.
LEMMA SupersededGood ==
  ASSUME NEW x, NEW id, NEW review, Handles(x, id, review),
         StillWanted(x, id), Unchanged(x, id)
  PROVE  Good(Superseded(x, id), review) /\ Superseded(x, id).target = x.target
<1>1. id \in DOMAIN x.op /\ Owner(id) \in Tasks /\ Source(id) # {}
  BY DEF Handles, Good, Inv, OneCurrent, OpFits
<1>2. x.task[Owner(id)].result # {} /\ (Steady /\ review => Approved(x, Owner(id)))
  BY <1>1 DEF Unchanged, StillWanted, Handles, Good, Reviewing
<1>3. "superseded" \notin Interrupted
  BY DEF Interrupted, Held
<1>4. "superseded" \in Operations
  BY Members
<1> QED BY <1>2, <1>3, <1>4, EndsGood DEF Superseded, Handles

LEMMA StaysAdds ==
  ASSUME NEW x, NEW n, NEW review, n.target = x.target
  PROVE  Adds(x, n, review)
BY DEF Adds

\* The second reading publishes only on evidence.
LEMMA SecondPassGood ==
  ASSUME NEW x, NEW id, NEW review, Handles(x, id, review), x.w.pc # "turn", NEW checked,
         checked \in DOMAIN x.check, x.check[checked] = "passed"
  PROVE  Good(SecondPass(x, id, checked), review) /\ Adds(x, SecondPass(x, id, checked), review)
<1> DEFINE n == SecondPass(x, id, checked)
<1>1. CASE ~StillWanted(x, id) \/ ~Acceptable(x, id) \/ ~Unchanged(x, id)
  BY <1>1, FailsGood, StaysAdds DEF SecondPass
<1>2. CASE StillWanted(x, id) /\ Acceptable(x, id) /\ Unchanged(x, id) /\ x.target # Target(id)
  BY <1>2, SupersededGood, StaysAdds DEF SecondPass
<1>3. CASE StillWanted(x, id) /\ Acceptable(x, id) /\ Unchanged(x, id) /\ x.target = Target(id)
  <2>1. CASE checked # CheckId(x, id)
    BY <1>3, <2>1, FailsGood, StaysAdds DEF SecondPass
  <2>2. CASE checked = CheckId(x, id)
    BY <1>3, <2>2, PublishGood DEF SecondPass
  <2> QED BY <2>1, <2>2
<1> QED BY <1>1, <1>2, <1>3

\* One more verification begins.
LEMMA CheckAt ==
  ASSUME NEW x, Shape(x), NEW key,
         NEW n, n = Verifies(x, key)
  PROVE  /\ Shape(n) /\ n.task = x.task /\ n.op = x.op /\ n.target = x.target
         /\ n.commands = x.commands /\ n.dirty = x.dirty /\ n.local = x.local
         /\ n.late = x.late /\ key \in DOMAIN n.check
         /\ n.w.pc = "verify" /\ n.w.check = key
         /\ n.w.op = x.w.op /\ n.w.recovering = x.w.recovering
<1> DEFINE check == Recorded(x.check, key, "running")
           w == [x.w EXCEPT !.pc = "verify", !.check = key]
<1>1. key \in DOMAIN check
  BY DEF Recorded
<1> HIDE DEF check
<1>2. DOMAIN w = WorkerFields /\ w.pc = "verify" /\ w.check = key
      /\ w.op = x.w.op /\ w.recovering = x.w.recovering
  BY DEF Shape, WorkerFields
<1>3. /\ DOMAIN n = StateFields /\ n.task = x.task /\ n.op = x.op /\ n.target = x.target
      /\ n.commands = x.commands /\ n.dirty = x.dirty /\ n.local = x.local
      /\ n.late = x.late /\ n.check = check /\ n.w = w
  BY DEF Verifies, Shape, StateFields, check
<1> HIDE DEF w
<1> QED BY <1>1, <1>2, <1>3 DEF Shape, Steps

\* The first reading finds evidence or begins a verification.
LEMMA FirstPassGood ==
  ASSUME NEW x, NEW id, NEW review, Handles(x, id, review), x.w.pc # "turn"
  PROVE  Good(FirstPass(x, id), review) /\ Adds(x, FirstPass(x, id), review)
<1> DEFINE n == FirstPass(x, id)
           key == CheckId(x, id)
           state == IF key \in DOMAIN x.check THEN x.check[key] ELSE "none"
<1>1. CASE ~StillWanted(x, id) \/ ~Acceptable(x, id) \/ ~Unchanged(x, id)
  BY <1>1, FailsGood, StaysAdds DEF FirstPass
<1>2. CASE StillWanted(x, id) /\ Acceptable(x, id) /\ Unchanged(x, id) /\ x.target # Target(id)
  BY <1>2, SupersededGood, StaysAdds DEF FirstPass
<1>3. CASE StillWanted(x, id) /\ Acceptable(x, id) /\ Unchanged(x, id) /\ x.target = Target(id)
  <2>1. CASE x.commands = 0 \/ state = "running"
    BY <1>3, <2>1, FailsGood, StaysAdds DEF FirstPass
  <2>2. CASE x.commands # 0 /\ state = "passed"
    <3>1. key \in DOMAIN x.check /\ x.check[key] = "passed"
      BY <2>2
    <3>2. n = SecondPass(x, id, key)
      BY <1>3, <2>2 DEF FirstPass
    <3> QED BY <3>1, <3>2, SecondPassGood
  <2>3. CASE x.commands # 0 /\ state # "running" /\ state # "passed"
    <3>1. n = Verifies(x, key)
      BY <1>3, <2>3 DEF FirstPass
    <3> HIDE DEF n, key
    <3>2. Shape(x)
      BY DEF Handles, Good, Inv
    <3>3. /\ Shape(n) /\ n.task = x.task /\ n.op = x.op /\ n.target = x.target
          /\ n.late = x.late /\ key \in DOMAIN n.check
          /\ n.w.pc = "verify" /\ n.w.check = key
          /\ n.w.op = x.w.op /\ n.w.recovering = x.w.recovering
      BY <3>1, <3>2, CheckAt
    <3>4. Inv(n)
      BY <3>3 DEF Handles, Good, Inv, OpFits, TaskFits, OneCurrent, Current, Working, Checking
    <3>5. ASSUME Patience PROVE Repairing(n)
      BY <3>3, <3>5 DEF Handles, Good, Repairing
    <3>6. ASSUME Steady, review PROVE Reviewing(n)
      BY <3>3, <3>6 DEF Handles, Good, Reviewing, Current, Working, Approved
    <3>7. Good(n, review) /\ Adds(x, n, review)
      BY <3>3, <3>4, <3>5, <3>6, StaysAdds DEF Good
    <3> QED BY <3>7 DEF n
  <2> QED BY <2>1, <2>2, <2>3
<1> QED BY <1>1, <1>2, <1>3

\* What the proofs say of the operations of x holds of those of n.
Alike(x, n) ==
  /\ Shape(n) /\ SameRest(x, n) /\ n.task = x.task /\ n.w = x.w
  /\ DOMAIN n.op = DOMAIN x.op
  /\ \A i \in DOMAIN x.op :
       /\ n.op[i].state = x.op[i].state /\ n.op[i].thread = x.op[i].thread
       /\ n.op[i].turn = x.op[i].turn /\ n.op[i].result = x.op[i].result

LEMMA AlikeGood ==
  ASSUME NEW x, NEW n, NEW review, Good(x, review), Alike(x, n)
  PROVE  Good(n, review)
<1>1. Inv(n)
  BY DEF Good, Inv, Alike, SameRest, OpFits, TaskFits, OneCurrent, Current, Working, Checking
<1>2. ASSUME Patience PROVE Repairing(n)
  <2>1. Repairing(x) /\ (Working(x) => x.w.op \in DOMAIN x.op)
    BY <1>2 DEF Good, Inv, OneCurrent
  <2> QED BY <2>1 DEF Alike, Repairing, Working, SameRest
<1>3. ASSUME Steady, review PROVE Reviewing(n)
  <2>1. Reviewing(x) /\ (Working(x) => x.w.op \in DOMAIN x.op)
    BY <1>3 DEF Good, Inv, OneCurrent
  <2> QED BY <2>1 DEF Alike, Reviewing, Current, Working, Approved
<1> QED BY <1>1, <1>2, <1>3 DEF Good

LEMMA AlikeHandles ==
  ASSUME NEW x, NEW n, NEW id, NEW review, Handles(x, id, review), Alike(x, n)
  PROVE  Handles(n, id, review)
<1>1. Good(n, review)
  BY AlikeGood DEF Handles
<1>2. id \in DOMAIN x.op
  BY DEF Handles, Good, Inv, OneCurrent
<1> QED BY <1>1, <1>2 DEF Handles, Alike, Working

\* What is added to a state that differs in nothing that matters.
Before(x, y) ==
  /\ y.target = x.target /\ DOMAIN y.op \subseteq DOMAIN x.op
  /\ \A i \in DOMAIN y.op :
       LET r == x.task[Owner(i)]
           q == y.task[Owner(i)]
       IN q.result = r.result /\ q.head = r.head /\ q.paused = r.paused /\ q.approved = r.approved

LEMMA BeforeAdds ==
  ASSUME NEW x, NEW y, NEW n, NEW review, Before(x, y), Adds(y, n, review)
  PROVE  Adds(x, n, review)
BY DEF Before, Adds

\* A blocked integration that a restart finds goes on.
LEMMA AgainHandles ==
  ASSUME NEW x, NEW id, NEW review, Handles(x, id, review), x.task[Owner(id)].merge = "blocked"
  PROVE  LET n == SetMerge(x, Owner(id), "merging") IN
         Handles(n, id, review) /\ Before(x, n) /\ n.w = x.w
<1> DEFINE n == SetMerge(x, Owner(id), "merging")
           o == Owner(id)
<1>1. /\ Inv(x) /\ Working(x) /\ x.w.op = id /\ id \in DOMAIN x.op /\ o \in Tasks
      /\ Patience => Repairing(x)
      /\ Steady /\ review => Reviewing(x)
  BY DEF Handles, Good, Inv, OneCurrent, OpFits
<1>2. /\ Shape(n) /\ SameRest(x, n) /\ n.op = x.op /\ n.w = x.w
      /\ \A u \in Tasks : u # o => n.task[u] = x.task[u]
      /\ n.task[o].merge = "merging"
      /\ \A f \in TaskFields : f # "merge" => n.task[o][f] = x.task[o][f]
  BY <1>1, Members, SetMergeAt DEF Inv
<1> HIDE DEF n
<1>3. /\ n.task[o].result = x.task[o].result /\ n.task[o].head = x.task[o].head
      /\ n.task[o].running = x.task[o].running /\ n.task[o].status = x.task[o].status
      /\ n.task[o].merged = x.task[o].merged /\ n.task[o].approved = x.task[o].approved
      /\ n.task[o].paused = x.task[o].paused
  BY <1>2 DEF TaskFields
<1>4. Inv(n)
  <2>1. \A i \in DOMAIN n.op : OpFits(n, i)
    BY <1>1, <1>2 DEF Inv, OpFits
  <2>2. \A t \in Tasks : TaskFits(n, t)
    BY <1>1, <1>2, <1>3 DEF Inv, TaskFits, SameRest
  <2>3. \A i \in DOMAIN n.op : Owner(i) \in Tasks
    BY <1>1, <1>2 DEF Inv, OpFits
  <2>4. OneCurrent(n) /\ Checking(n)
    BY <1>1, <1>2, <1>3, <2>3 DEF Inv, OneCurrent, Current, Working, Checking, SameRest
  <2> QED BY <1>2, <2>1, <2>2, <2>4 DEF Inv
<1>5. ASSUME Patience PROVE Repairing(n)
  BY <1>1, <1>2, <1>5 DEF Repairing, SameRest
<1>6. ASSUME Steady, review PROVE Reviewing(n)
  <2>1. Reviewing(x) /\ Approved(x, o)
    BY <1>1, <1>6 DEF Reviewing, Current
  <2>2. \A i \in DOMAIN n.op : Owner(i) \in Tasks
    BY <1>1, <1>2 DEF Inv, OpFits
  <2> QED BY <1>2, <1>3, <2>1, <2>2 DEF Reviewing, Current, Working, Approved
<1>7. Handles(n, id, review)
  BY <1>1, <1>2, <1>4, <1>5, <1>6 DEF Handles, Good, Working
<1>8. Before(x, n)
  BY <1>1, <1>2, <1>3 DEF Before, SameRest, Inv, OpFits
<1>9. Handles(n, id, review) /\ Before(x, n) /\ n.w = x.w
  BY <1>2, <1>7, <1>8
<1> QED BY <1>9 DEF n

\* The end of a recovery: published already, to be published, or failed.
LEMMA ContinuedGood ==
  ASSUME NEW x, NEW id, NEW review, Handles(x, id, review), x.w.pc # "turn"
  PROVE  Good(Continued(x, id), review) /\ Adds(x, Continued(x, id), review)
<1> DEFINE t == x.task[Owner(id)]
           again == IF t.merge = "blocked" /\ t.op = id /\ ~t.paused
                      THEN SetMerge(x, Owner(id), "merging") ELSE x
           result == x.op[id].result
<1>1. CASE x.op[id].tree # "ready"
  BY <1>1, FailsGood, StaysAdds DEF Continued
<1>2. CASE x.op[id].tree = "ready" /\ result # {} /\ result \subseteq x.target
  <2>1. Source(id) \subseteq result
    BY <1>2 DEF Handles, Good, Inv, OneCurrent, OpFits
  <2>2. CASE Evidence(x, id)
    BY <1>2, <2>1, <2>2, MergedGood, StaysAdds DEF Continued
  <2>3. CASE ~Evidence(x, id)
    BY <1>2, <2>3, FailsGood, StaysAdds DEF Continued
  <2> QED BY <2>2, <2>3
<1>3. CASE x.op[id].tree = "ready" /\ ~(result # {} /\ result \subseteq x.target)
  <2>1. Continued(x, id) = FirstPass(again, id)
    BY <1>3 DEF Continued
  <2>2. Handles(again, id, review) /\ again.w = x.w /\ Before(x, again)
    <3>1. CASE t.merge = "blocked" /\ t.op = id /\ ~t.paused
      BY <3>1, AgainHandles
    <3>2. CASE ~(t.merge = "blocked" /\ t.op = id /\ ~t.paused)
      BY <3>2 DEF Before
    <3> QED BY <3>1, <3>2
  <2> HIDE DEF again
  <2>3. Good(FirstPass(again, id), review) /\ Adds(again, FirstPass(again, id), review)
    BY <2>2, FirstPassGood
  <2> QED BY <2>1, <2>2, <2>3, BeforeAdds
<1> QED BY <1>1, <1>2, <1>3

LEMMA GoesOnGood ==
  ASSUME NEW x, NEW id, NEW review, Handles(x, id, review), x.w.pc # "turn"
  PROVE  Good(GoesOn(x, id), review) /\ Adds(x, GoesOn(x, id), review)
BY ContinuedGood, FirstPassGood DEF GoesOn

\* The worker turns to the session that repairs the conflict.
LEMMA ThreadGood ==
  ASSUME NEW x, NEW id, NEW review, Handles(x, id, review),
         NEW n, n = [x EXCEPT !.w.pc = "thread"]
  PROVE  Good(n, review) /\ n.target = x.target
<1>1. /\ Shape(n) /\ SameRest(x, n) /\ n.op = x.op /\ n.task = x.task
      /\ n.w.pc = "thread" /\ n.w.op = x.w.op /\ n.w.recovering = x.w.recovering
  BY DEF Handles, Good, Inv, Shape, SameRest, StateFields, WorkerFields, Steps
<1>2. Inv(n)
  BY <1>1 DEF Handles, Good, Inv, SameRest, OpFits, TaskFits, OneCurrent, Current, Working,
              Checking
<1>3. ASSUME Patience PROVE Repairing(n)
  BY <1>1, <1>3 DEF Handles, Good, Repairing
<1>4. ASSUME Steady, review PROVE Reviewing(n)
  BY <1>1, <1>4 DEF Handles, Good, Reviewing, Current, Working, Approved
<1> QED BY <1>1, <1>2, <1>3, <1>4 DEF Good, SameRest

\* A conflict is resolved already, or its repair is turned to.
LEMMA ResolveGood ==
  ASSUME NEW x, NEW id, NEW review, Handles(x, id, review), x.w.pc # "turn"
  PROVE  Good(Resolve(x, id), review) /\ Adds(x, Resolve(x, id), review)
<1>1. CASE Source(id) \subseteq x.op[id].head /\ x.op[id].clean
  BY <1>1, GoesOnGood DEF Resolve
<1>2. CASE ~(Source(id) \subseteq x.op[id].head /\ x.op[id].clean)
  <2>1. Resolve(x, id) = [x EXCEPT !.w.pc = "thread"]
    BY <1>2 DEF Resolve
  <2> QED BY <2>1, ThreadGood, StaysAdds
<1> QED BY <1>1, <1>2

\* The merge in the candidate's worktree.
LEMMA IntegratesGood ==
  ASSUME NEW x, NEW id, NEW review, Handles(x, id, review), x.w.pc # "turn", NEW conflict
  PROVE  Good(Integrates(x, id, conflict), review) /\ Adds(x, Integrates(x, id, conflict), review)
<1> DEFINE y == [x EXCEPT !.op[id].clean = FALSE]
           z == [x EXCEPT !.op[id].head = @ \cup Source(id)]
<1>1. Shape(x) /\ id \in DOMAIN x.op
  BY DEF Handles, Good, Inv, OneCurrent
<1>2. Alike(x, y)
  BY <1>1 DEF Alike, Shape, SameRest, StateFields, OpFields
<1>3. Alike(x, z)
  BY <1>1 DEF Alike, Shape, SameRest, StateFields, OpFields
<1> HIDE DEF y, z
<1>4. ASSUME NEW n, Alike(x, n)
      PROVE  Good(Resolve(n, id), review) /\ Adds(x, Resolve(n, id), review)
  <2>1. Handles(n, id, review) /\ n.w.pc # "turn" /\ Before(x, n)
    BY <1>4, AlikeHandles DEF Alike, Before, SameRest
  <2> QED BY <2>1, ResolveGood, BeforeAdds
<1>5. Alike(x, x)
  BY <1>1 DEF Alike, SameRest
<1>6. Integrates(x, id, conflict) \in
        {FirstPass(x, id), Resolve(x, id), Resolve(y, id), Resolve(z, id)}
  BY DEF Integrates, y, z
<1> QED BY <1>2, <1>3, <1>4, <1>5, <1>6, FirstPassGood
-----------------------------------------------------------------------------
\* Operations change, and none goes on that did not before.
LEMMA OpsInv ==
  ASSUME NEW x, NEW n, Inv(x), Shape(n), SameRest(x, n), n.task = x.task,
         DOMAIN n.op = DOMAIN x.op,
         \A i \in DOMAIN x.op : n.op[i].result = x.op[i].result,
         \A i \in DOMAIN x.op : Current(n, i) => Current(x, i),
         Working(n) => n.w.op \in DOMAIN x.op,
         Checking(n)
  PROVE  Inv(n)
<1>1. \A i \in DOMAIN n.op : OpFits(n, i)
  BY DEF Inv, OpFits
<1>2. \A t \in Tasks : TaskFits(n, t)
  BY DEF Inv, TaskFits, SameRest
<1>3. OneCurrent(n)
  BY DEF Inv, OneCurrent
<1> QED BY <1>1, <1>2, <1>3 DEF Inv

\* The worker sets the state of its operation.
LEMMA SetOpGood ==
  ASSUME NEW x, NEW id, NEW review, Good(x, review), Working(x), x.w.op = id,
         NEW state \in Operations,
         Patience => ((x.op[id].turn # "active" /\ x.w.pc # "turn") \/ state \in Held),
         Steady /\ review =>
           /\ state # "waiting_quota"
           /\ x.w.recovering \/ state \notin Held
  PROVE  LET n == SetOp(x, id, state) IN
         /\ Good(n, review) /\ Working(n) /\ n.w = x.w /\ Before(x, n) /\ id \in DOMAIN n.op
         /\ n.op[id].state = state /\ n.op[id].turn = x.op[id].turn
<1> DEFINE n == SetOp(x, id, state)
<1>1. /\ Inv(x) /\ id \in DOMAIN x.op
      /\ Patience => Repairing(x)
      /\ Steady /\ review => Reviewing(x)
  BY DEF Good, Inv, OneCurrent
<1>2. /\ Shape(n) /\ SameRest(x, n) /\ n.task = x.task /\ n.w = x.w
      /\ DOMAIN n.op = DOMAIN x.op
      /\ \A i \in DOMAIN x.op : i # id => n.op[i] = x.op[i]
      /\ n.op[id].state = state
      /\ \A f \in OpFields : f # "state" => n.op[id][f] = x.op[id][f]
  BY <1>1, SetOpAt DEF Inv
<1> HIDE DEF n
<1>3. n.op[id].turn = x.op[id].turn /\ n.op[id].thread = x.op[id].thread
      /\ n.op[id].result = x.op[id].result
  BY <1>2 DEF OpFields
<1>4. \A i \in DOMAIN x.op : Current(n, i) => Current(x, i)
  BY <1>2 DEF Current, Working
<1>5. Inv(n)
  <2>1. Checking(n) /\ (Working(n) => n.w.op \in DOMAIN x.op)
    BY <1>1, <1>2 DEF Inv, Checking, SameRest
  <2> QED BY <1>1, <1>2, <1>3, <1>4, <2>1, OpsInv
<1>6. ASSUME Patience PROVE Repairing(n)
  BY <1>1, <1>2, <1>3, <1>6 DEF Repairing, SameRest
<1>7. ASSUME Steady, review PROVE Reviewing(n)
  BY <1>1, <1>2, <1>3, <1>4, <1>7 DEF Reviewing, Approved
<1>8. Good(n, review) /\ Working(n) /\ Before(x, n)
  BY <1>2, <1>5, <1>6, <1>7 DEF Good, Working, Before, SameRest
<1> QED BY <1>1, <1>2, <1>3, <1>8 DEF n

\* ... and goes on with it.
LEMMA SetOpHandles ==
  ASSUME NEW x, NEW id, NEW review, Good(x, review), Working(x), x.w.op = id,
         NEW state \in Operations,
         Patience => x.op[id].turn # "active" /\ x.w.pc # "turn",
         Steady /\ review => state \notin Held
  PROVE  LET n == SetOp(x, id, state) IN
         /\ Handles(n, id, review) /\ n.w = x.w /\ Before(x, n)
         /\ n.op[id].turn = x.op[id].turn
<1>1. Steady /\ review => state # "waiting_quota"
  BY DEF Held
<1> DEFINE n == SetOp(x, id, state)
<1>2. /\ Good(n, review) /\ Working(n) /\ n.w = x.w /\ Before(x, n) /\ id \in DOMAIN n.op
      /\ n.op[id].state = state /\ n.op[id].turn = x.op[id].turn
  BY <1>1, SetOpGood
<1> HIDE DEF n
<1>3. Handles(n, id, review)
  BY <1>2 DEF Handles
<1> QED BY <1>2, <1>3 DEF n

\* Operations of others change: none that is not interrupted becomes so, and no repair begins.
LEMMA CalmGood ==
  ASSUME NEW x, NEW n, NEW review, Good(x, review), Shape(n), SameRest(x, n),
         n.task = x.task, n.w = x.w, DOMAIN n.op = DOMAIN x.op,
         \A i \in DOMAIN x.op :
           /\ n.op[i].result = x.op[i].result /\ n.op[i].thread = x.op[i].thread
           /\ n.op[i].state = x.op[i].state \/ n.op[i].state \notin Interrupted
           /\ n.op[i].turn = x.op[i].turn \/ n.op[i].turn # "active"
           /\ Patience /\ n.op[i].turn = "active" => n.op[i].state = x.op[i].state
           /\ Steady /\ review => n.op[i].turn = x.op[i].turn \/ n.op[i].turn # "quota",
         Patience /\ x.w.pc = "turn" => n.op[x.w.op].state = x.op[x.w.op].state
  PROVE  Good(n, review)
<1>1. /\ Inv(x)
      /\ Patience => Repairing(x)
      /\ Steady /\ review => Reviewing(x)
      /\ Working(x) => x.w.op \in DOMAIN x.op
  BY DEF Good, Inv, OneCurrent
<1>2. \A i \in DOMAIN x.op : Current(n, i) => Current(x, i)
  BY DEF Current, Working
<1>3. Inv(n)
  <2>1. Checking(n) /\ (Working(n) => n.w.op \in DOMAIN x.op)
    BY <1>1 DEF Inv, Checking, SameRest, Working
  <2> QED BY <1>1, <1>2, <2>1, OpsInv
<1>4. ASSUME Patience PROVE Repairing(n)
  <2>1. \A i \in DOMAIN n.op : n.op[i].turn = "active" => n.op[i].thread /\ n.op[i].state \in Held
    BY <1>1, <1>4 DEF Repairing
  <2>2. Working(x) => n.op[x.w.op].turn = x.op[x.w.op].turn \/ n.op[x.w.op].turn # "active"
    BY <1>1
  <2>3. Working(x) => n.op[x.w.op].thread = x.op[x.w.op].thread
    BY <1>1
  <2> QED BY <1>1, <1>4, <2>1, <2>2, <2>3 DEF Repairing, Working, SameRest
<1>5. ASSUME Steady, review PROVE Reviewing(n)
  <2>1. \A i \in DOMAIN n.op : n.op[i].state # "waiting_quota" /\ n.op[i].turn # "quota"
    BY <1>1, <1>5 DEF Reviewing, Interrupted, Held
  <2>2. x.w.pc \in {"tree", "verify"} /\ ~x.w.recovering => n.op[x.w.op].state \notin Held
    BY <1>1, <1>5 DEF Reviewing, Interrupted, Held, Working
  <2> QED BY <1>1, <1>2, <1>5, <2>1, <2>2 DEF Reviewing, Approved
<1> QED BY <1>3, <1>4, <1>5 DEF Good

\* What the rest of the state does not depend on changes: nothing else does.
LEMMA RestGood ==
  ASSUME NEW x, NEW n, NEW review, Good(x, review), Shape(n),
         n.task = x.task, n.op = x.op, n.w = x.w, n.target = x.target,
         Patience => n.late = x.late,
         DOMAIN x.check \subseteq DOMAIN n.check
  PROVE  Good(n, review)
<1>1. Inv(n)
  BY DEF Good, Inv, OpFits, TaskFits, OneCurrent, Current, Working, Checking
<1>2. ASSUME Patience PROVE Repairing(n)
  BY <1>2 DEF Good, Repairing
<1>3. ASSUME Steady, review PROVE Reviewing(n)
  BY <1>3 DEF Good, Reviewing, Current, Working, Approved
<1> QED BY <1>1, <1>2, <1>3 DEF Good

\* A repair begins to run: where the board waits for it, unless a start comes late.
Runs(x, n, id) ==
  /\ Shape(n) /\ SameRest(x, n) /\ n.task = x.task /\ n.w = x.w
  /\ DOMAIN n.op = DOMAIN x.op
  /\ \A i \in DOMAIN x.op : i # id => n.op[i] = x.op[i]
  /\ n.op[id].turn = "active"
  /\ \A f \in OpFields : f # "turn" => n.op[id][f] = x.op[id][f]

LEMMA RunsAt ==
  ASSUME NEW x, Shape(x), NEW id \in DOMAIN x.op
  PROVE  Runs(x, [x EXCEPT !.op[id].turn = "active"], id)
BY DEF Runs, Shape, SameRest, StateFields, OpFields, Turns

LEMMA RunsGood ==
  ASSUME NEW x, NEW n, NEW id \in DOMAIN x.op, NEW review, Good(x, review), Runs(x, n, id),
         Patience => x.w.pc = "turn" /\ x.w.op = id
  PROVE  Good(n, review)
<1>1. /\ n.op[id].state = x.op[id].state /\ n.op[id].thread = x.op[id].thread
      /\ n.op[id].result = x.op[id].result
  BY DEF Runs, OpFields
<1>2. \A i \in DOMAIN x.op : Current(n, i) = Current(x, i)
  BY <1>1 DEF Runs, Current, Working
<1>3. Inv(n)
  <2>1. Inv(x) /\ Checking(n) /\ (Working(n) => n.w.op \in DOMAIN x.op)
    BY DEF Good, Inv, Runs, Checking, SameRest, OneCurrent, Working
  <2>2. \A i \in DOMAIN x.op : n.op[i].result = x.op[i].result
    BY <1>1 DEF Runs
  <2> QED BY <1>2, <2>1, <2>2, OpsInv DEF Runs
<1>4. ASSUME Patience PROVE Repairing(n)
  <2>1. /\ Repairing(x) /\ x.w.pc = "turn" /\ x.w.op = id
        /\ x.op[id].thread /\ x.op[id].state \in Held
    BY <1>4 DEF Good, Repairing
  <2> QED BY <1>1, <2>1 DEF Repairing, Runs, SameRest
<1>5. ASSUME Steady, review PROVE Reviewing(n)
  <2>1. Reviewing(x) /\ (Working(x) => x.w.op \in DOMAIN x.op)
    BY <1>5 DEF Good, Inv, OneCurrent
  <2> QED BY <1>1, <1>2, <2>1 DEF Runs, Reviewing, Working, Approved
<1> QED BY <1>3, <1>4, <1>5 DEF Good

\* A start that comes late, or may come.
LEMMA LateAt ==
  ASSUME NEW x, Shape(x), NEW late
  PROVE  LET n == [x EXCEPT !.late = late] IN
         /\ Shape(n) /\ n.task = x.task /\ n.op = x.op /\ n.w = x.w /\ n.target = x.target
         /\ n.check = x.check /\ n.late = late /\ n.dirty = x.dirty
         /\ n.commands = x.commands /\ n.local = x.local
BY DEF Shape, StateFields

\* The row of one task changes, which does not become done.
LEMMA RowGood ==
  ASSUME NEW x, NEW n, NEW review, Good(x, review), Shape(n), SameRest(x, n),
         n.op = x.op, n.w = x.w, NEW t \in Tasks,
         \A u \in Tasks : u # t => n.task[u] = x.task[u],
         TaskFits(n, t),
         n.task[t].status = "done" => x.task[t].status = "done",
         Steady /\ review =>
           /\ n.task[t].merge \in {"queued", "merging"} => Approved(n, t)
           /\ n.task[t].merge = "blocked" =>
                /\ x.task[t].merge \in {"queued", "merging", "blocked"}
                /\ n.task[t].approved = x.task[t].approved /\ n.task[t].result = x.task[t].result
  PROVE  Good(n, review)
<1>1. /\ Inv(x)
      /\ Patience => Repairing(x)
      /\ Steady /\ review => Reviewing(x)
      /\ Working(x) => x.w.op \in DOMAIN x.op
      /\ \A i \in DOMAIN x.op : Owner(i) \in Tasks
  BY DEF Good, Inv, OneCurrent, OpFits
<1>2. Inv(n)
  <2>1. \A i \in DOMAIN n.op : OpFits(n, i)
    BY <1>1 DEF Inv, OpFits
  <2>2. ASSUME NEW u \in Tasks PROVE TaskFits(n, u)
    BY <1>1 DEF Inv, TaskFits, SameRest
  <2>3. OneCurrent(n)
    BY <1>1 DEF Inv, OneCurrent, Current, Working
  <2>4. Checking(n)
    BY <1>1 DEF Inv, Checking, SameRest
  <2> QED BY <2>1, <2>2, <2>3, <2>4 DEF Inv
<1>3. ASSUME Patience PROVE Repairing(n)
  BY <1>1, <1>3 DEF Repairing, SameRest
<1>4. ASSUME Steady, review PROVE Reviewing(n)
  <2>1. \A u \in Tasks : n.task[u].merge \in {"queued", "merging"} => Approved(n, u)
    BY <1>1, <1>4 DEF Reviewing, Approved
  <2>2. ASSUME NEW i \in DOMAIN n.op, Current(n, i), n.task[Owner(i)].merge = "blocked"
        PROVE  Approved(n, Owner(i))
    <3>1. Current(x, i)
      BY <2>2 DEF Current, Working
    <3>2. CASE Owner(i) = t
      BY <1>1, <1>4, <2>2, <3>1, <3>2 DEF Reviewing, Approved
    <3>3. CASE Owner(i) # t
      BY <1>1, <1>4, <2>2, <3>1, <3>3 DEF Reviewing, Approved
    <3> QED BY <3>2, <3>3
  <2> QED BY <1>1, <1>4, <2>1, <2>2 DEF Reviewing
<1> QED BY <1>2, <1>3, <1>4 DEF Good
-----------------------------------------------------------------------------
\* What is left of a scenario is a scenario of the same kind.
Bounds == Steady => left \in Steadies

Sound == Bounds /\ Good(s, left.review)

\* What the hypotheses on the scenarios exclude.
LEMMA BoundsFacts ==
  ASSUME Bounds
  PROVE  /\ Patience => ~May("impatient") /\ ~May("timeout") /\ ~May("late")
         /\ Steady => left.moves \in Nat /\ left.moves - 1 # left.moves
         /\ Steady /\ left.review => ~May("lost") /\ ~May("timeout") /\ ~May("quota")
BY DEF Bounds, Patience, Steadies, May

LEMMA WorkingFacts ==
  ASSUME Sound, s.w.pc # "idle"
  PROVE  /\ Good(s, left.review) /\ Working(s) /\ Shape(s)
         /\ s.w.op \in DOMAIN s.op /\ Owner(s.w.op) \in Tasks
BY DEF Sound, Good, Inv, OneCurrent, OpFits, Working

\* The actions of the worker, one by one.
LEMMA TreeMadeGood ==
  ASSUME Sound, TreeMade
  PROVE  Good(s', left.review) /\ Adds(s, s', left.review)
<1> DEFINE id == s.w.op
           x == [s EXCEPT !.op[s.w.op].tree = "ready", !.op[s.w.op].head = Target(s.w.op)]
<1>1. Good(s, left.review) /\ Working(s) /\ Shape(s) /\ id \in DOMAIN s.op /\ s.w.pc = "tree"
  BY WorkingFacts DEF TreeMade, At
<1>2. Handles(s, id, left.review)
  BY <1>1 DEF Handles, Good, Repairing, Reviewing
<1>3. Alike(s, x)
  BY <1>1 DEF Alike, Shape, SameRest, StateFields, OpFields
<1>4. PICK c \in Conflicts : s' = Integrates(x, id, c)
  BY DEF TreeMade
<1> HIDE DEF x, id
<1>5. Handles(x, id, left.review) /\ Before(s, x) /\ x.w.pc # "turn"
  BY <1>1, <1>2, <1>3, AlikeHandles DEF Alike, Before, SameRest
<1>6. Good(s', left.review) /\ Adds(x, s', left.review)
  BY <1>4, <1>5, IntegratesGood
<1> QED BY <1>5, <1>6, BeforeAdds

LEMMA NotPreparedGood ==
  ASSUME Sound, NotPrepared
  PROVE  Good(s', left.review) /\ Adds(s, s', left.review)
<1> DEFINE id == s.w.op
           x == [s EXCEPT !.op[s.w.op].tree = "uncertain"]
<1>1. /\ Good(s, left.review) /\ Working(s) /\ Shape(s) /\ id \in DOMAIN s.op
      /\ s.w.pc \in {"tree", "thread"}
  BY WorkingFacts DEF NotPrepared, At
<1>2. ~(Steady /\ left.review)
  BY BoundsFacts DEF NotPrepared, GivesUp, Trouble, Sound
<1>3. Handles(s, id, left.review)
  BY <1>1, <1>2 DEF Handles, Good, Repairing
<1>4. Alike(s, x)
  BY <1>1 DEF Alike, Shape, SameRest, StateFields, OpFields
<1>5. PICK broken \in BOOLEAN : s' = Unanswered(x, broken) \/ s' = Unanswered(s, broken)
  BY DEF NotPrepared
<1> HIDE DEF x, id
<1>6. Handles(x, id, left.review) /\ x.target = s.target
  BY <1>3, <1>4, AlikeHandles DEF Alike, SameRest
<1>7. Good(s', left.review) /\ s'.target = s.target
  BY <1>3, <1>5, <1>6, UnansweredGood
<1> QED BY <1>7, StaysAdds

LEMMA ThreadMadeGood ==
  ASSUME Sound, ThreadMade
  PROVE  Good(s', left.review) /\ Adds(s, s', left.review)
<1> DEFINE id == s.w.op
<1>1. /\ Good(s, left.review) /\ Working(s) /\ Shape(s) /\ id \in DOMAIN s.op
      /\ s.w.pc = "thread"
  BY WorkingFacts DEF ThreadMade, At
<1>2. /\ Shape(s') /\ SameRest(s, s') /\ s'.task = s.task /\ DOMAIN s'.op = DOMAIN s.op
      /\ \A i \in DOMAIN s.op : i # id => s'.op[i] = s.op[i]
      /\ s'.op[id].thread /\ s'.op[id].state = "uncertain"
      /\ s'.op[id].turn = s.op[id].turn /\ s'.op[id].result = s.op[id].result
      /\ s'.w.pc = "turn" /\ s'.w.op = id
  <2>1. /\ DOMAIN s' = StateFields /\ SameRest(s, s') /\ s'.task = s.task
        /\ DOMAIN s'.op = DOMAIN s.op
        /\ \A i \in DOMAIN s.op : i # id => s'.op[i] = s.op[i]
        /\ s'.op[id] = [s.op[id] EXCEPT !.thread = TRUE, !.state = "uncertain"]
        /\ s'.w = [s.w EXCEPT !.pc = "turn"]
    BY <1>1 DEF ThreadMade, Shape, SameRest, StateFields
  <2>2. /\ DOMAIN s'.op[id] = OpFields
        /\ s'.op[id].thread /\ s'.op[id].state = "uncertain"
        /\ s'.op[id].turn = s.op[id].turn /\ s'.op[id].result = s.op[id].result
    BY <1>1, <2>1 DEF Shape, OpFields
  <2>3. DOMAIN s'.w = WorkerFields /\ s'.w.pc = "turn" /\ s'.w.op = id
    BY <1>1, <2>1 DEF Shape, WorkerFields
  <2>4. s'.op[id].state \in Operations /\ s'.w.pc \in Steps
    BY <2>2, <2>3 DEF Steps, Operations, Held
  <2> HIDE DEF id
  <2> QED BY <1>1, <2>1, <2>2, <2>3, <2>4 DEF Shape
<1> HIDE DEF id
<1>3. Inv(s')
  <2>1. Inv(s) /\ (\A i \in DOMAIN s.op : Current(s', i) => Current(s, i))
    BY <1>1, <1>2 DEF Good, Current, Working, id
  <2>2. Checking(s')
    BY <1>2 DEF Checking
  <2> QED BY <1>1, <1>2, <2>1, <2>2, OpsInv
<1>4. ASSUME Patience PROVE Repairing(s')
  BY <1>1, <1>2, <1>4 DEF Good, Repairing, Held, SameRest
<1>5. ASSUME Steady, left.review PROVE Reviewing(s')
  <2>1. \A i \in DOMAIN s.op : Current(s', i) => Current(s, i)
    BY <1>1, <1>2 DEF Current, Working, id
  <2> QED BY <1>1, <1>2, <1>5, <2>1 DEF Good, Reviewing, Approved
<1> QED BY <1>2, <1>3, <1>4, <1>5, StaysAdds DEF Good, SameRest

LEMMA TurnStartedGood ==
  ASSUME Sound, TurnStarted
  PROVE  Good(s', left.review) /\ Adds(s, s', left.review)
<1> DEFINE id == s.w.op
<1>1. /\ Good(s, left.review) /\ Working(s) /\ Shape(s) /\ id \in DOMAIN s.op
      /\ s.w.pc = "turn"
  BY WorkingFacts DEF TurnStarted, At
<1>2. /\ Shape(s') /\ SameRest(s, s') /\ s'.task = s.task /\ DOMAIN s'.op = DOMAIN s.op
      /\ \A i \in DOMAIN s.op : i # id => s'.op[i] = s.op[i]
      /\ s'.op[id].turn = "active" /\ s'.op[id].state = "agent_running"
      /\ s'.op[id].thread = s.op[id].thread /\ s'.op[id].result = s.op[id].result
      /\ s'.w.pc = "wait" /\ s'.w.op = id
  <2>1. /\ DOMAIN s' = StateFields /\ SameRest(s, s') /\ s'.task = s.task
        /\ DOMAIN s'.op = DOMAIN s.op
        /\ \A i \in DOMAIN s.op : i # id => s'.op[i] = s.op[i]
        /\ s'.op[id] = [s.op[id] EXCEPT !.turn = "active", !.state = "agent_running"]
        /\ s'.w = [s.w EXCEPT !.pc = "wait"]
    BY <1>1 DEF TurnStarted, Shape, SameRest, StateFields
  <2>2. /\ DOMAIN s'.op[id] = OpFields
        /\ s'.op[id].turn = "active" /\ s'.op[id].state = "agent_running"
        /\ s'.op[id].thread = s.op[id].thread /\ s'.op[id].result = s.op[id].result
    BY <1>1, <2>1 DEF Shape, OpFields
  <2>3. DOMAIN s'.w = WorkerFields /\ s'.w.pc = "wait" /\ s'.w.op = id
    BY <1>1, <2>1 DEF Shape, WorkerFields
  <2>4. s'.op[id].state \in Operations /\ s'.op[id].turn \in Turns /\ s'.w.pc \in Steps
    BY <2>2, <2>3 DEF Steps, Turns, Operations, Held
  <2> HIDE DEF id
  <2> QED BY <1>1, <2>1, <2>2, <2>3, <2>4 DEF Shape
<1> HIDE DEF id
<1>3. Inv(s')
  <2>1. Inv(s) /\ (\A i \in DOMAIN s.op : Current(s', i) => Current(s, i))
    BY <1>1, <1>2 DEF Good, Current, Working, id
  <2>2. Checking(s')
    BY <1>2 DEF Checking
  <2> QED BY <1>1, <1>2, <2>1, <2>2, OpsInv
<1>4. ASSUME Patience PROVE Repairing(s')
  <2>1. s.op[id].thread
    BY <1>1, <1>4 DEF Good, Repairing, id
  <2> QED BY <1>1, <1>2, <1>4, <2>1 DEF Good, Repairing, Held, SameRest
<1>5. ASSUME Steady, left.review PROVE Reviewing(s')
  <2>1. \A i \in DOMAIN s.op : Current(s', i) => Current(s, i)
    BY <1>1, <1>2 DEF Current, Working, id
  <2> QED BY <1>1, <1>2, <1>5, <2>1 DEF Good, Reviewing, Approved
<1> QED BY <1>2, <1>3, <1>4, <1>5, StaysAdds DEF Good, SameRest

\* A repair that may run although its start was not answered.
LEMMA AbandonedGood ==
  ASSUME Sound, NEW x \in Abandoned
  PROVE  /\ Good(x, left.review) /\ x.target = s.target /\ x.w = s.w
         /\ s.w.pc = "turn" /\ Patience => x.op[s.w.op].state \in Held
<1> DEFINE id == s.w.op
<1>1. Good(s, left.review) /\ Shape(s)
  BY DEF Sound, Good, Inv
<1>2. s.w.pc = "turn" => Working(s) /\ id \in DOMAIN s.op
  BY WorkingFacts
<1>3. s.w.pc = "turn" /\ Patience => s.op[id].state \in Held
  BY <1>1 DEF Good, Repairing
<1>4. CASE x = s
  BY <1>1, <1>3, <1>4
<1>5. CASE s.w.pc = "turn" /\ x = [s EXCEPT !.op[s.w.op].turn = "active"]
  <2>1. Runs(s, x, id)
    BY <1>1, <1>2, <1>5, RunsAt
  <2>2. /\ x.target = s.target /\ x.w = s.w /\ x.op[id].state = s.op[id].state
    BY <2>1 DEF Runs, SameRest, OpFields
  <2> QED BY <1>1, <1>2, <1>3, <1>5, <2>1, <2>2, RunsGood
<1>6. CASE s.w.pc = "turn" /\ May("late") /\ x = [s EXCEPT !.late = @ \cup {s.w.op}]
  <2>1. /\ Shape(x) /\ x.task = s.task /\ x.op = s.op /\ x.w = s.w /\ x.target = s.target
        /\ x.check = s.check
    BY <1>1, <1>6, LateAt
  <2>2. ~Patience
    BY <1>6, BoundsFacts DEF Sound
  <2> QED BY <1>1, <2>1, <2>2, RestGood
<1> QED BY <1>4, <1>5, <1>6 DEF Abandoned, At

LEMMA TurnLostGood ==
  ASSUME Sound, TurnLost
  PROVE  Good(s', left.review) /\ Adds(s, s', left.review)
<1> DEFINE id == s.w.op
<1>1. Working(s) /\ s.w.pc = "turn"
  BY WorkingFacts DEF TurnLost, At
<1>2. ~(Steady /\ left.review)
  BY BoundsFacts DEF TurnLost, GivesUp, Trouble, Sound
<1>3. PICK broken \in BOOLEAN, x \in Abandoned : GivesUp(broken) /\ s' = Unanswered(x, broken)
  BY DEF TurnLost
<1>4. Good(x, left.review) /\ Working(x) /\ x.w.op = id /\ x.target = s.target
  BY <1>1, AbandonedGood DEF Working
<1>5. Patience => broken /\ x.op[id].state \in Held
  BY <1>1, <1>3, AbandonedGood, BoundsFacts DEF GivesUp, Trouble, Sound
<1>6. Good(s', left.review) /\ s'.target = x.target
  <2>1. CASE broken /\ x.w.recovering
    BY <1>3, <1>4, <2>1, DoneGood DEF Unanswered, Unavailable
  <2>2. CASE ~(broken /\ x.w.recovering)
    <3>1. Patience => x.op[id].state \in Kept(x)
      BY <1>5, <2>2 DEF Kept
    <3> QED BY <1>2, <1>3, <1>4, <2>2, <3>1, FailsAnyGood DEF Unanswered, Unavailable
  <2> QED BY <2>1, <2>2
<1> QED BY <1>4, <1>6, StaysAdds

\* A start carried out that the board has given up.
LEMMA StartsLateGood ==
  ASSUME Sound, StartsLate
  PROVE  Good(s', left.review) /\ Adds(s, s', left.review)
<1>1. Good(s, left.review) /\ Shape(s)
  BY DEF Sound, Good, Inv
<1>2. PICK i \in DOMAIN s.op :
        i \in s.late /\ s' = [s EXCEPT !.op[i].turn = "active", !.late = @ \ {i}]
  BY DEF StartsLate
<1>3. ~Patience
  BY <1>1, <1>2 DEF Good, Repairing
<1> DEFINE x == [s EXCEPT !.late = @ \ {i}]
<1>4. s' = [x EXCEPT !.op[i].turn = "active"]
  BY <1>1, <1>2 DEF Shape, StateFields
<1>5. /\ Shape(x) /\ x.task = s.task /\ x.op = s.op /\ x.w = s.w /\ x.target = s.target
      /\ x.check = s.check
  BY <1>1, LateAt
<1> HIDE DEF x
<1>6. Good(x, left.review)
  BY <1>1, <1>3, <1>5, RestGood
<1>7. Runs(x, s', i)
  BY <1>4, <1>5, RunsAt
<1>8. Good(s', left.review) /\ s'.target = s.target
  BY <1>3, <1>5, <1>6, <1>7, RunsGood DEF Runs, SameRest
<1> QED BY <1>8, StaysAdds

LEMMA TurnRefusedGood ==
  ASSUME Sound, TurnRefused
  PROVE  Good(s', left.review) /\ Adds(s, s', left.review)
<1> DEFINE id == s.w.op
           x == SetOp(s, id, "waiting_quota")
<1>1. Good(s, left.review) /\ Working(s)
  BY WorkingFacts DEF TurnRefused, At
<1>2. ~(Steady /\ left.review)
  BY BoundsFacts DEF TurnRefused, Sound
<1>3. "waiting_quota" \in Held /\ "waiting_quota" \in Operations
  BY Members DEF Held
<1>4. /\ Good(x, left.review) /\ Working(x) /\ x.w = s.w /\ Before(s, x)
      /\ x.op[id].state = "waiting_quota"
  BY <1>1, <1>2, <1>3, SetOpGood
<1>5. s' = Fails(x)
  BY DEF TurnRefused
<1> HIDE DEF x
<1>6. x.op[id].state \in Kept(x)
  BY <1>4, <1>3 DEF Kept
<1>7. Good(s', left.review) /\ s'.target = x.target
  BY <1>2, <1>4, <1>5, <1>6, FailsAnyGood
<1> QED BY <1>4, <1>7, StaysAdds DEF Before

\* What the end of the repair's turn makes of the operation.
LEMMA CheckedHandles ==
  ASSUME NEW x, NEW id, NEW review, Good(x, review), Working(x), x.w.op = id,
         x.w.pc # "turn", x.op[id].turn # "active"
  PROVE  LET n == Checked(x, id) IN
         /\ Handles(n, id, review) /\ n.w = x.w /\ Before(x, n)
         /\ n.op[id].turn = x.op[id].turn
<1>1. id \in DOMAIN x.op
  BY DEF Good, Inv, OneCurrent
<1>2. Steady /\ review => x.op[id].turn # "quota"
  BY <1>1 DEF Good, Reviewing
<1>3. PICK state \in Operations :
                   /\ Checked(x, id) = SetOp(x, id, state)
                   /\ Steady /\ review => state \notin Held
  <2>1. CASE x.op[id].turn = "completed"
    <3>1. Checked(x, id) = SetOp(x, id, "verified_turn") /\ "verified_turn" \notin Held
      BY <2>1 DEF Checked, Held
    <3> QED BY <3>1, Members DEF Interrupted
  <2>2. CASE x.op[id].turn = "quota"
    <3>1. Checked(x, id) = SetOp(x, id, "waiting_quota")
      BY <2>2 DEF Checked
    <3> QED BY <1>2, <2>2, <3>1, Members DEF Held
  <2>3. CASE x.op[id].turn \notin {"completed", "quota"}
    <3>1. Checked(x, id) = SetOp(x, id, "blocked") /\ "blocked" \notin Held
      BY <2>3 DEF Checked, Held
    <3> QED BY <3>1, Members
  <2> QED BY <2>1, <2>2, <2>3
<1> QED BY <1>3, SetOpHandles

\* The repair is over.
LEMMA TurnOverGood ==
  ASSUME Sound, TurnOver
  PROVE  Good(s', left.review) /\ Adds(s, s', left.review)
<1> DEFINE id == s.w.op
           x == Checked(s, id)
<1>1. /\ Good(s, left.review) /\ Working(s) /\ s.w.pc = "wait" /\ s.op[id].turn # "active"
  BY WorkingFacts DEF TurnOver, At
<1>2. Handles(x, id, left.review) /\ x.w = s.w /\ Before(s, x)
  BY <1>1, CheckedHandles
<1>3. s' = Fails(x) \/ s' = GoesOn(x, id)
  BY DEF TurnOver
<1> HIDE DEF x, id
<1>4. Good(Fails(x), left.review) /\ Adds(x, Fails(x), left.review)
  BY <1>2, FailsGood, StaysAdds
<1>5. Good(GoesOn(x, id), left.review) /\ Adds(x, GoesOn(x, id), left.review)
  BY <1>1, <1>2, GoesOnGood
<1> QED BY <1>2, <1>3, <1>4, <1>5, BeforeAdds

\* The commands are over.
LEMMA RanHandles ==
  ASSUME NEW x, NEW id, NEW review, Handles(x, id, review), NEW passed, x.w.check \in DOMAIN x.check
  PROVE  LET n == Ran(x, passed) IN
         /\ Handles(n, id, review) /\ Before(x, n) /\ n.task = x.task /\ n.op = x.op
         /\ n.w = x.w /\ n.dirty = x.dirty /\ n.commands = x.commands /\ n.local = x.local
         /\ n.target = x.target /\ n.w.check \in DOMAIN n.check
         /\ passed => n.check[x.w.check] = "passed"
<1> DEFINE n == Ran(x, passed)
<1>1. /\ Shape(n) /\ n.task = x.task /\ n.op = x.op /\ n.w = x.w /\ n.dirty = x.dirty
      /\ n.commands = x.commands /\ n.local = x.local /\ n.late = x.late
      /\ n.target = x.target /\ DOMAIN n.check = DOMAIN x.check
      /\ passed => n.check[x.w.check] = "passed"
  BY DEF Ran, Handles, Good, Inv, Shape, StateFields
<1> HIDE DEF n
<1>2. Good(n, review)
  BY <1>1, RestGood DEF Handles
<1>3. Handles(n, id, review) /\ Before(x, n)
  BY <1>1, <1>2 DEF Handles, Working, Before
<1> QED BY <1>1, <1>3 DEF n

LEMMA VerifiedGood ==
  ASSUME Sound, Verified
  PROVE  Good(s', left.review) /\ Adds(s, s', left.review)
<1> DEFINE id == s.w.op
<1>1. /\ Good(s, left.review) /\ Working(s) /\ s.w.pc = "verify" /\ s.w.check \in DOMAIN s.check
  BY WorkingFacts DEF Verified, At, Good, Inv, Checking
<1>2. Handles(s, id, left.review)
  BY <1>1 DEF Handles, Good, Repairing, Reviewing
<1>3. PICK passed \in BOOLEAN :
        s' = IF passed THEN SecondPass(Ran(s, passed), id, s.w.check) ELSE Fails(Ran(s, passed))
  BY Zenon DEF Verified
<1> DEFINE x == Ran(s, passed)
<1> HIDE DEF id
<1>4. /\ Handles(x, id, left.review) /\ Before(s, x) /\ x.w = s.w /\ x.w.check \in DOMAIN x.check
      /\ passed => x.check[s.w.check] = "passed"
  BY <1>1, <1>2, RanHandles
<1>5. CASE passed
  <2>1. s' = SecondPass(x, id, s.w.check)
    BY <1>3, <1>5
  <2> HIDE DEF x
  <2>2. Good(s', left.review) /\ Adds(x, s', left.review)
    BY <1>1, <1>4, <1>5, <2>1, SecondPassGood
  <2> QED BY <1>4, <2>2, BeforeAdds
<1>6. CASE ~passed
  <2>1. s' = Fails(x)
    BY <1>3, <1>6
  <2> HIDE DEF x
  <2>2. Good(s', left.review) /\ Adds(x, s', left.review)
    BY <1>4, <2>1, FailsGood, StaysAdds
  <2> QED BY <1>4, <2>2, BeforeAdds
<1> QED BY <1>5, <1>6

\* The worker takes up an operation that was interrupted.
LEMMA ReadingGood ==
  ASSUME NEW x, NEW review, Good(x, review), ~Working(x), NEW id \in DOMAIN x.op,
         x.op[id].state \in Interrupted
  PROVE  LET n == Reading(x, id) IN
         /\ Good(n, review) /\ Working(n) /\ n.w.op = id /\ n.w.recovering /\ n.w.pc = "read"
         /\ n.op = x.op /\ Before(x, n)
<1> DEFINE n == Reading(x, id)
<1>1. /\ Shape(n) /\ SameRest(x, n) /\ n.op = x.op /\ n.task = x.task
      /\ n.w.pc = "read" /\ n.w.op = id /\ n.w.recovering
  BY DEF Reading, Idle, Good, Inv, Shape, SameRest, StateFields, WorkerFields, Steps
<1> HIDE DEF n
<1>2. \A i \in DOMAIN x.op : Current(n, i) => Current(x, i)
  BY <1>1 DEF Current, Working
<1>3. Inv(n)
  <2>1. Checking(n)
    BY <1>1 DEF Checking
  <2>2. Inv(x)
    BY DEF Good
  <2> QED BY <1>1, <1>2, <2>1, <2>2, OpsInv
<1>4. ASSUME Patience PROVE Repairing(n)
  BY <1>1, <1>4 DEF Good, Repairing, SameRest
<1>5. ASSUME Steady, review PROVE Reviewing(n)
  BY <1>1, <1>2, <1>5 DEF Good, Reviewing, Approved
<1>6. /\ Good(n, review) /\ Working(n) /\ n.w.op = id /\ n.w.recovering /\ n.w.pc = "read"
      /\ n.op = x.op /\ Before(x, n)
  BY <1>1, <1>3, <1>4, <1>5 DEF Good, Working, Before, SameRest
<1> QED BY <1>6 DEF n

LEMMA RecoverGood ==
  ASSUME Sound, NEW id \in DOMAIN s.op, Recover(id)
  PROVE  Good(s', left.review) /\ Adds(s, s', left.review)
<1> DEFINE x == Reading(s, id)
<1>1. Good(s, left.review) /\ ~Working(s) /\ s.op[id].state \in Interrupted
  BY DEF Recover, At, Working, Sound
<1>2. s' = IF s.op[id].thread THEN x ELSE Continued(x, id)
  BY DEF Recover
<1>3. /\ Good(x, left.review) /\ Working(x) /\ x.w.op = id /\ x.w.recovering
      /\ x.w.pc = "read" /\ x.op = s.op /\ Before(s, x)
  BY <1>1, ReadingGood
<1> HIDE DEF x
<1>4. CASE s.op[id].thread
  BY <1>2, <1>3, <1>4, StaysAdds DEF Before
<1>5. CASE ~s.op[id].thread
  <2>1. Patience => x.op[id].turn # "active"
    BY <1>3, <1>5 DEF Good, Repairing
  <2>2. Handles(x, id, left.review)
    BY <1>3, <2>1 DEF Handles
  <2>3. Good(s', left.review) /\ Adds(x, s', left.review)
    BY <1>2, <1>3, <1>5, <2>2, ContinuedGood
  <2> QED BY <1>3, <2>3, BeforeAdds
<1> QED BY <1>4, <1>5

\* What the thread of the repair shows.
LEMMA RecoverReadGood ==
  ASSUME Sound, RecoverRead
  PROVE  Good(s', left.review) /\ Adds(s, s', left.review)
<1> DEFINE id == s.w.op
           o == s.op[id]
<1>1. /\ Good(s, left.review) /\ Working(s) /\ s.w.pc = "read" /\ s.w.recovering
  BY WorkingFacts DEF RecoverRead, At, Good, Inv, Checking
<1>2. CASE o.turn = "active"
  <2> DEFINE x == SetOp(s, id, "agent_running")
  <2>1. s' = Done(x)
    BY <1>2 DEF RecoverRead
  <2>2. "agent_running" \in Held /\ "agent_running" \in Operations
    BY Members DEF Held
  <2>3. Good(x, left.review) /\ Before(s, x)
    BY <1>1, <2>2, SetOpGood
  <2> HIDE DEF x
  <2>4. Good(s', left.review) /\ s'.target = x.target
    BY <2>1, <2>3, DoneGood
  <2> QED BY <2>3, <2>4, StaysAdds DEF Before
<1>3. CASE o.turn # "active"
  <2>1. Handles(s, id, left.review)
    BY <1>1, <1>3 DEF Handles
  <2>2. CASE o.turn = "none" /\ o.state = "uncertain"
    <3>1. s' = Fails(s)
      BY <2>2 DEF RecoverRead
    <3> QED BY <2>1, <3>1, FailsGood, StaysAdds
  <2>3. CASE o.turn = "none" /\ o.state # "uncertain"
    <3>1. s' = Continued(s, id)
      BY <2>3 DEF RecoverRead
    <3> QED BY <1>1, <2>1, <3>1, ContinuedGood
  <2>4. CASE o.turn # "none" /\ o.state = "waiting_quota"
    <3>1. s' = Done(s) \/ s' = Resolve(s, id)
      BY <1>3, <2>4 DEF RecoverRead
    <3>2. CASE s' = Done(s)
      BY <1>1, <3>2, DoneGood, StaysAdds
    <3>3. CASE s' = Resolve(s, id)
      BY <1>1, <2>1, <3>3, ResolveGood
    <3> QED BY <3>1, <3>2, <3>3
  <2>5. CASE o.turn # "none" /\ o.state # "waiting_quota"
    <3> DEFINE x == Checked(s, id)
    <3>1. s' = Continued(x, id) \/ s' = Fails(x)
      BY <1>3, <2>5 DEF RecoverRead
    <3>2. Handles(x, id, left.review) /\ x.w = s.w /\ Before(s, x)
      BY <1>1, <1>3, CheckedHandles
    <3> HIDE DEF x
    <3>3. Good(Continued(x, id), left.review) /\ Adds(x, Continued(x, id), left.review)
      BY <1>1, <3>2, ContinuedGood
    <3>4. Good(Fails(x), left.review) /\ Adds(x, Fails(x), left.review)
      BY <3>2, FailsGood, StaysAdds
    <3> QED BY <3>1, <3>2, <3>3, <3>4, BeforeAdds
  <2> QED BY <2>2, <2>3, <2>4, <2>5
<1> QED BY <1>2, <1>3

\* A restart forgets the worker.
LEMMA CrashGood ==
  ASSUME Sound, Crash
  PROVE  Good(s', left.review) /\ Adds(s, s', left.review)
<1>1. PICK x \in Abandoned : s' = Done(x)
  BY DEF Crash
<1>2. Good(x, left.review) /\ x.target = s.target
  BY AbandonedGood
<1> QED BY <1>1, <1>2, DoneGood, StaysAdds

\* The thread of the repair is not read.
LEMMA NotRecoveredGood ==
  ASSUME Sound, NotRecovered
  PROVE  Good(s', left.review) /\ Adds(s, s', left.review)
<1>1. Good(s, left.review) /\ Working(s) /\ s.w.recovering
  BY WorkingFacts DEF NotRecovered, At, Good, Inv, Checking
<1>2. CASE s' = Done(s)
  BY <1>1, <1>2, DoneGood, StaysAdds
<1>3. CASE May("timeout") /\ s' = Fails(s)
  <2>1. ~Patience /\ ~(Steady /\ left.review)
    BY <1>3, BoundsFacts DEF Sound
  <2> QED BY <1>1, <1>3, <2>1, FailsAnyGood, StaysAdds
<1> QED BY <1>1, <1>2, <1>3 DEF NotRecovered, Unanswered, Unavailable, GivesUp, Trouble
-----------------------------------------------------------------------------
\* Of the state only the row of one task is written.
RowOnly(x, n, t) ==
  /\ Shape(n) /\ SameRest(x, n) /\ n.op = x.op /\ n.w = x.w
  /\ \A u \in Tasks : u # t => n.task[u] = x.task[u]

\* A turn of a task has ended, field by field.
LEMMA CompletedAt ==
  ASSUME NEW x, Shape(x), NEW t \in Tasks, NEW n, n = Completed(x, t)
  PROVE  /\ RowOnly(x, n, t)
         /\ n.task[t].head = x.task[t].head /\ n.task[t].approved = x.task[t].approved
         /\ n.task[t].merged = x.task[t].merged /\ ~n.task[t].running
         /\ n.task[t].paused = x.task[t].paused
         /\ \/ /\ n.task[t].result = x.task[t].result /\ n.task[t].merge = x.task[t].merge
               /\ n.task[t].status = x.task[t].status
            \/ /\ n.task[t].result = x.task[t].head
               /\ n.task[t].status \in {"in_review", "in_progress"}
               /\ n.task[t].merge = IF left.review THEN "pending_review" ELSE "queued"
<1> DEFINE r == x.task[t]
           merge == IF left.review THEN "pending_review" ELSE "queued"
           status == IF left.review THEN "in_review" ELSE "in_progress"
           q == IF ~r.clean THEN [r EXCEPT !.running = FALSE]
                ELSE [r EXCEPT !.running = FALSE, !.result = r.head,
                               !.status = status, !.merge = merge]
<1>1. DOMAIN r = TaskFields
  BY DEF Shape
<1>2. n = [x EXCEPT !.task[t] = q]
  BY DEF Completed
<1>3. status \in {"in_review", "in_progress"} /\ merge \in Merges
  BY DEF Merges
<1> HIDE DEF merge, status
<1> HIDE DEF r
<1>4. /\ DOMAIN q = TaskFields /\ ~q.running
      /\ q.head = r.head /\ q.approved = r.approved /\ q.merged = r.merged
      /\ q.paused = r.paused
      /\ \/ q.result = r.result /\ q.merge = r.merge /\ q.status = r.status
         \/ q.result = r.head /\ q.merge = merge /\ q.status = status
  <2>1. CASE r.clean
    <3> DEFINE p == [r EXCEPT !.running = FALSE, !.result = r.head,
                              !.status = status, !.merge = merge]
    <3>1. q = p
      BY <2>1
    <3>2. /\ DOMAIN p = TaskFields /\ ~p.running
          /\ p.head = r.head /\ p.approved = r.approved /\ p.merged = r.merged
          /\ p.paused = r.paused
          /\ p.result = r.head /\ p.merge = merge /\ p.status = status
      BY <1>1 DEF TaskFields
    <3> HIDE DEF p, q
    <3> QED BY <3>1, <3>2
  <2>2. CASE ~r.clean
    <3> DEFINE p == [r EXCEPT !.running = FALSE]
    <3>1. q = p
      BY <2>2
    <3>2. /\ DOMAIN p = TaskFields /\ ~p.running
          /\ p.head = r.head /\ p.approved = r.approved /\ p.merged = r.merged
          /\ p.paused = r.paused
          /\ p.result = r.result /\ p.merge = r.merge /\ p.status = r.status
      BY <1>1 DEF TaskFields
    <3> HIDE DEF p, q
    <3> QED BY <3>1, <3>2
  <2> QED BY <2>1, <2>2
<1> HIDE DEF q
<1>5. /\ Shape(n) /\ SameRest(x, n) /\ n.op = x.op /\ n.w = x.w
      /\ \A u \in Tasks : u # t => n.task[u] = x.task[u]
      /\ n.task[t] = q
  <2>1. q.merge \in Merges
    BY <1>3, <1>4 DEF Shape, r
  <2> QED BY <1>2, <1>4, <2>1 DEF Shape, SameRest, StateFields
<1> QED BY <1>3, <1>4, <1>5 DEF RowOnly, merge, r

\* What the actions need of the invariant.
LEMMA SoundFacts ==
  ASSUME Sound
  PROVE  /\ Good(s, left.review) /\ Shape(s)
         /\ \A t \in Tasks : TaskFits(s, t)
         /\ Steady /\ left.review =>
              \A t \in Tasks : s.task[t].merge \in {"queued", "merging"} => Approved(s, t)
BY DEF Sound, Good, Inv, Reviewing

LEMMA TurnEndsGood ==
  ASSUME Sound, NEW t \in Tasks, TurnEnds(t)
  PROVE  Good(s', left.review) /\ Adds(s, s', left.review)
<1> USE SoundFacts
<1>1. PICK clean \in BOOLEAN :
        s' = Completed([s EXCEPT !.task[t].head = @ \cup {<<t, left.turns>>},
                                 !.task[t].clean = clean], t)
  BY Zenon DEF TurnEnds
<1> DEFINE y == [s EXCEPT !.task[t].head = @ \cup {<<t, left.turns>>}, !.task[t].clean = clean]
<1>2. /\ RowOnly(s, y, t)
      /\ y.task[t].head = s.task[t].head \cup {<<t, left.turns>>}
      /\ y.task[t].approved = s.task[t].approved /\ y.task[t].merged = s.task[t].merged
      /\ y.task[t].result = s.task[t].result /\ y.task[t].merge = s.task[t].merge
      /\ y.task[t].status = s.task[t].status
  BY DEF RowOnly, Shape, SameRest, StateFields, TaskFields
<1>3. s' = Completed(y, t)
  BY <1>1
<1> HIDE DEF y
<1>4. /\ RowOnly(y, s', t)
      /\ s'.task[t].head = y.task[t].head /\ s'.task[t].approved = y.task[t].approved
      /\ s'.task[t].merged = y.task[t].merged /\ ~s'.task[t].running
      /\ \/ /\ s'.task[t].result = y.task[t].result /\ s'.task[t].merge = y.task[t].merge
            /\ s'.task[t].status = y.task[t].status
         \/ /\ s'.task[t].result = y.task[t].head
            /\ s'.task[t].status \in {"in_review", "in_progress"}
            /\ s'.task[t].merge = IF left.review THEN "pending_review" ELSE "queued"
  BY <1>2, <1>3, CompletedAt DEF RowOnly
<1>5. RowOnly(s, s', t)
  BY <1>2, <1>4 DEF RowOnly, SameRest
<1>6. TaskFits(s', t)
  <2>1. s'.target = s.target
    BY <1>5 DEF RowOnly, SameRest
  <2>2. CASE s'.task[t].result = y.task[t].result /\ s'.task[t].merge = y.task[t].merge
             /\ s'.task[t].status = y.task[t].status
    BY <1>2, <1>4, <2>1, <2>2 DEF TaskFits
  <2>3. CASE s'.task[t].result = y.task[t].head
             /\ s'.task[t].status \in {"in_review", "in_progress"}
             /\ s'.task[t].merge = IF left.review THEN "pending_review" ELSE "queued"
    BY <1>2, <1>4, <2>1, <2>3 DEF TaskFits
  <2> QED BY <1>4, <2>2, <2>3
<1>7. s'.task[t].status = "done" => s.task[t].status = "done"
  BY <1>2, <1>4
<1>8. Steady /\ left.review =>
        /\ s'.task[t].merge \in {"queued", "merging"} => Approved(s', t)
        /\ s'.task[t].merge = "blocked" =>
             /\ s.task[t].merge \in {"queued", "merging", "blocked"}
             /\ s'.task[t].approved = s.task[t].approved /\ s'.task[t].result = s.task[t].result
  BY <1>2, <1>4 DEF Approved
<1>9. Good(s', left.review) /\ s'.target = s.target
  BY <1>5, <1>6, <1>7, <1>8, RowGood DEF RowOnly, SameRest
<1> QED BY <1>9, StaysAdds

LEMMA ResettleGood ==
  ASSUME Sound, NEW t \in Tasks, Resettle(t)
  PROVE  Good(s', left.review) /\ Adds(s, s', left.review)
<1> USE SoundFacts
<1>1. /\ RowOnly(s, s', t)
      /\ s'.task[t].head = s.task[t].head /\ s'.task[t].approved = s.task[t].approved
      /\ s'.task[t].merged = s.task[t].merged /\ ~s'.task[t].running
      /\ \/ /\ s'.task[t].result = s.task[t].result /\ s'.task[t].merge = s.task[t].merge
            /\ s'.task[t].status = s.task[t].status
         \/ /\ s'.task[t].result = s.task[t].head
            /\ s'.task[t].status \in {"in_review", "in_progress"}
            /\ s'.task[t].merge = IF left.review THEN "pending_review" ELSE "queued"
  BY CompletedAt DEF Resettle
<1>2. TaskFits(s', t)
  <2>1. s'.target = s.target /\ s.task[t].result # {}
    BY <1>1 DEF RowOnly, SameRest, Resettle
  <2>2. CASE s'.task[t].result = s.task[t].result /\ s'.task[t].merge = s.task[t].merge
             /\ s'.task[t].status = s.task[t].status
    BY <1>1, <2>1, <2>2 DEF TaskFits
  <2>3. CASE s'.task[t].result = s.task[t].head
             /\ s'.task[t].status \in {"in_review", "in_progress"}
             /\ s'.task[t].merge = IF left.review THEN "pending_review" ELSE "queued"
    BY <1>1, <2>1, <2>3 DEF TaskFits
  <2> QED BY <1>1, <2>2, <2>3
<1>3. s'.task[t].status = "done" => s.task[t].status = "done"
  BY <1>1
<1>4. Steady /\ left.review =>
        /\ s'.task[t].merge \in {"queued", "merging"} => Approved(s', t)
        /\ s'.task[t].merge = "blocked" =>
             /\ s.task[t].merge \in {"queued", "merging", "blocked"}
             /\ s'.task[t].approved = s.task[t].approved /\ s'.task[t].result = s.task[t].result
  BY <1>1 DEF Approved
<1>5. Good(s', left.review) /\ s'.target = s.target
  BY <1>1, <1>2, <1>3, <1>4, RowGood DEF RowOnly, SameRest
<1> QED BY <1>5, StaysAdds

\* Another turn of the task: nothing waits for its integration.
LEMMA EnqueuedGood ==
  ASSUME Sound, NEW t \in Tasks, s' = Enqueued(s, t)
  PROVE  Good(s', left.review) /\ Adds(s, s', left.review)
<1> USE SoundFacts
<1>1. /\ RowOnly(s, s', t)
      /\ s'.task[t].head = s.task[t].head /\ s'.task[t].result = s.task[t].result
      /\ s'.task[t].merged = s.task[t].merged
      /\ s'.task[t].status = "in_progress" /\ s'.task[t].merge = "none"
  BY DEF Enqueued, RowOnly, Shape, SameRest, StateFields, TaskFields, Merges
<1>2. TaskFits(s', t)
  BY <1>1 DEF TaskFits, RowOnly, SameRest
<1>3. Good(s', left.review) /\ s'.target = s.target
  BY <1>1, <1>2, RowGood DEF RowOnly, SameRest
<1> QED BY <1>3, StaysAdds

LEMMA ResumeGood ==
  ASSUME Sound, NEW t \in Tasks, Resume(t)
  PROVE  Good(s', left.review) /\ Adds(s, s', left.review)
<1> USE SoundFacts
<1>1. CASE s' = Enqueued(s, t)
  BY <1>1, EnqueuedGood
<1>2. CASE s' = [s EXCEPT !.task[t].paused = FALSE]
  <2>1. /\ RowOnly(s, s', t)
        /\ s'.task[t].head = s.task[t].head /\ s'.task[t].result = s.task[t].result
        /\ s'.task[t].merged = s.task[t].merged /\ s'.task[t].approved = s.task[t].approved
        /\ s'.task[t].status = s.task[t].status /\ s'.task[t].merge = s.task[t].merge
        /\ s'.task[t].running = s.task[t].running
    BY <1>2 DEF RowOnly, Shape, SameRest, StateFields, TaskFields
  <2>2. TaskFits(s', t)
    BY <2>1 DEF TaskFits, RowOnly, SameRest
  <2>3. Good(s', left.review) /\ s'.target = s.target
    BY <2>1, <2>2, RowGood DEF RowOnly, SameRest, Approved
  <2> QED BY <2>3, StaysAdds
<1> QED BY <1>1, <1>2 DEF Resume

\* The operations of a task end, those of the others stay.
LEMMA ApproveGood ==
  ASSUME Sound, NEW t \in Tasks, Approve(t)
  PROVE  Good(s', left.review) /\ Adds(s, s', left.review)
<1> USE SoundFacts
<1> DEFINE mine == {i \in DOMAIN s.op : Owner(i) = t}
           ops == [i \in DOMAIN s.op |->
                     IF i \in mine /\ s.op[i].state \in Held \cup {"blocked"}
                       THEN [s.op[i] EXCEPT !.state = "retry"] ELSE s.op[i]]
           y == [s EXCEPT !.op = ops]
<1>1. /\ s.task[t].result # {} /\ s.task[t].merge \in {"pending_review", "blocked", "queued"}
      /\ \A i \in mine : s.op[i].state \in Held => s.op[i].turn # "active"
      /\ Patience => ~Starting(t)
      /\ s' = [s EXCEPT !.op = ops, !.task[t].merge = "queued", !.task[t].approved = s.task[t].result]
  BY BoundsFacts DEF Approve, Patient, Sound
<1>2. /\ DOMAIN ops = DOMAIN s.op
      /\ \A i \in DOMAIN s.op :
           /\ DOMAIN ops[i] = OpFields
           /\ ops[i].result = s.op[i].result /\ ops[i].thread = s.op[i].thread
           /\ ops[i].turn = s.op[i].turn
           /\ ops[i].state = s.op[i].state \/
                (i \in mine /\ s.op[i].state \in Held \cup {"blocked"} /\ ops[i].state = "retry")
  BY DEF Shape, OpFields
<1> HIDE DEF ops
<1>3. /\ Shape(y) /\ SameRest(s, y) /\ y.task = s.task /\ y.w = s.w /\ y.op = ops
  BY <1>2 DEF Shape, SameRest, StateFields, Operations
<1>4. /\ Shape(s') /\ SameRest(s, s') /\ s'.w = s.w /\ s'.op = ops
      /\ \A u \in Tasks : u # t => s'.task[u] = s.task[u]
      /\ s'.task[t].merge = "queued" /\ s'.task[t].approved = s.task[t].result
      /\ \A f \in TaskFields : f \notin {"merge", "approved"} => s'.task[t][f] = s.task[t][f]
  <2> DEFINE r == s.task[t]
             q == [r EXCEPT !.merge = "queued", !.approved = r.result]
  <2>1. DOMAIN r = TaskFields
    BY DEF Shape
  <2> HIDE DEF r
  <2>2. /\ DOMAIN q = TaskFields /\ q.merge = "queued" /\ q.approved = r.result
        /\ \A f \in TaskFields : f \notin {"merge", "approved"} => q[f] = r[f]
    BY <2>1 DEF TaskFields
  <2>3. s' = [s EXCEPT !.op = ops, !.task[t] = q]
    BY <1>1 DEF r
  <2> HIDE DEF q
  <2>4. /\ Shape(s') /\ SameRest(s, s') /\ s'.w = s.w /\ s'.op = ops
        /\ \A u \in Tasks : u # t => s'.task[u] = s.task[u]
        /\ s'.task[t] = q
    BY <1>2, <2>2, <2>3 DEF Shape, SameRest, StateFields, Operations, Merges
  <2> QED BY <2>2, <2>4 DEF r
<1> HIDE DEF y
<1>5. Good(y, left.review)
  <2>1. ASSUME NEW i \in DOMAIN s.op
        PROVE  /\ y.op[i].result = s.op[i].result /\ y.op[i].thread = s.op[i].thread
               /\ y.op[i].state = s.op[i].state \/ y.op[i].state \notin Interrupted
               /\ y.op[i].turn = s.op[i].turn
    BY <1>2, <1>3 DEF Interrupted, Held
  <2>2. ASSUME Patience, NEW i \in DOMAIN s.op, y.op[i].turn = "active"
        PROVE  y.op[i].state = s.op[i].state
    <3>1. s.op[i].turn = "active" /\ s.op[i].state \in Held
      BY <1>2, <1>3, <2>2 DEF Good, Repairing
    <3> QED BY <1>1, <1>2, <1>3, <3>1
  <2>3. ASSUME Patience, s.w.pc = "turn" PROVE y.op[s.w.op].state = s.op[s.w.op].state
    <3>1. s.w.op \in DOMAIN s.op /\ s.w.op \notin mine
      BY <1>1, <2>3, WorkingFacts DEF Starting
    <3> QED BY <1>2, <1>3, <3>1
  <2> HIDE DEF mine
  <2>4. DOMAIN y.op = DOMAIN s.op
    BY <1>2, <1>3
  <2> QED BY <1>3, <2>1, <2>2, <2>3, <2>4, CalmGood
<1>6. /\ s'.task[t].result = s.task[t].result /\ s'.task[t].head = s.task[t].head
      /\ s'.task[t].running = s.task[t].running /\ s'.task[t].status = s.task[t].status
      /\ s'.task[t].merged = s.task[t].merged
  BY <1>4 DEF TaskFields
<1>7. RowOnly(y, s', t)
  BY <1>3, <1>4 DEF RowOnly, SameRest
<1>8. TaskFits(s', t)
  BY <1>1, <1>4, <1>6 DEF TaskFits, SameRest
<1>9. Good(s', left.review) /\ s'.target = s.target
  BY <1>3, <1>4, <1>5, <1>6, <1>7, <1>8, RowGood DEF RowOnly, SameRest, Approved
<1> QED BY <1>9, StaysAdds

\* A pause interrupts the repairs of its task.
LEMMA PauseGood ==
  ASSUME Sound, NEW t \in Tasks, Pause(t)
  PROVE  Good(s', left.review) /\ Adds(s, s', left.review)
<1> USE SoundFacts
<1> DEFINE mine == {i \in DOMAIN s.op : Owner(i) = t}
           ops == [i \in DOMAIN s.op |->
                     IF i \notin mine \/ ~s.op[i].thread THEN s.op[i]
                     ELSE [s.op[i] EXCEPT !.turn = IF @ = "active" THEN "interrupted" ELSE @,
                                          !.state = IF @ = "completed" THEN @ ELSE "blocked"]]
           y == [s EXCEPT !.op = ops]
<1>1. PICK merge : /\ merge = s.task[t].merge \/ (s.task[t].merge = "merging" /\ merge = "blocked")
                   /\ s' = [s EXCEPT !.op = ops, !.task[t].paused = TRUE, !.task[t].merge = merge]
  <2> DEFINE checking == \E k \in DOMAIN s.check : Owner(k[1]) = t /\ s.check[k] = "running"
  <2>1. s' = [s EXCEPT !.op = ops, !.task[t].paused = TRUE,
                       !.task[t].merge = IF @ = "merging" /\ ~checking THEN "blocked" ELSE @]
    BY DEF Pause
  <2> HIDE DEF checking, ops
  <2>2. CASE s.task[t].merge = "merging" /\ ~checking
    <3>1. s' = [s EXCEPT !.op = ops, !.task[t].paused = TRUE, !.task[t].merge = "blocked"]
      BY <2>1, <2>2 DEF Shape, StateFields, TaskFields
    <3> QED BY <2>2, <3>1
  <2>3. CASE ~(s.task[t].merge = "merging" /\ ~checking)
    <3>1. s' = [s EXCEPT !.op = ops, !.task[t].paused = TRUE, !.task[t].merge = s.task[t].merge]
      BY <2>1, <2>3 DEF Shape, StateFields, TaskFields
    <3> QED BY <3>1
  <2> QED BY <2>2, <2>3
<1>2. Patience => ~Starting(t)
  BY BoundsFacts DEF Pause, Patient, Sound
<1>3. /\ DOMAIN ops = DOMAIN s.op
      /\ \A i \in DOMAIN s.op :
           /\ DOMAIN ops[i] = OpFields
           /\ ops[i].result = s.op[i].result /\ ops[i].thread = s.op[i].thread
           /\ ops[i].turn = s.op[i].turn \/ ops[i].turn = "interrupted"
           /\ ops[i].state = s.op[i].state \/ ops[i].state = "blocked"
           /\ i \notin mine => ops[i] = s.op[i]
           /\ i \in mine /\ s.op[i].thread => ops[i].turn # "active"
  <2>1. ASSUME NEW i \in DOMAIN s.op, i \notin mine \/ ~s.op[i].thread PROVE ops[i] = s.op[i]
    BY <2>1
  <2>2. ASSUME NEW i \in DOMAIN s.op, i \in mine, s.op[i].thread
        PROVE  /\ DOMAIN ops[i] = OpFields
               /\ ops[i].result = s.op[i].result /\ ops[i].thread = s.op[i].thread
               /\ ops[i].turn = s.op[i].turn \/ ops[i].turn = "interrupted"
               /\ ops[i].state = s.op[i].state \/ ops[i].state = "blocked"
               /\ ops[i].turn # "active"
    <3> DEFINE o == s.op[i]
               turn == IF o.turn = "active" THEN "interrupted" ELSE o.turn
               state == IF o.state = "completed" THEN o.state ELSE "blocked"
               q == [o EXCEPT !.turn = turn, !.state = state]
    <3>1. DOMAIN o = OpFields
      BY DEF Shape
    <3>2. ops[i] = q
      BY <2>2
    <3>3. turn # "active" /\ (turn = o.turn \/ turn = "interrupted")
          /\ (state = o.state \/ state = "blocked")
      OBVIOUS
    <3> HIDE DEF turn, state, ops
    <3>4. DOMAIN q = OpFields /\ q.result = o.result /\ q.thread = o.thread /\ q.turn = turn
          /\ q.state = state
      BY <3>1 DEF OpFields
    <3> QED BY <3>2, <3>3, <3>4
  <2>3. DOMAIN ops = DOMAIN s.op
    OBVIOUS
  <2>4. \A i \in DOMAIN s.op : DOMAIN s.op[i] = OpFields
    BY DEF Shape
  <2> HIDE DEF ops
  <2> QED BY <2>1, <2>2, <2>3, <2>4
<1> HIDE DEF ops
<1>4. /\ Shape(y) /\ SameRest(s, y) /\ y.task = s.task /\ y.w = s.w /\ y.op = ops
  BY <1>3 DEF Shape, SameRest, StateFields, Operations, Turns
<1>5. /\ Shape(s') /\ SameRest(s, s') /\ s'.w = s.w /\ s'.op = ops
      /\ \A u \in Tasks : u # t => s'.task[u] = s.task[u]
      /\ s'.task[t].merge = merge
      /\ \A f \in TaskFields : f \notin {"merge", "paused"} => s'.task[t][f] = s.task[t][f]
  <2> DEFINE r == s.task[t]
             q == [r EXCEPT !.paused = TRUE, !.merge = merge]
  <2>1. DOMAIN r = TaskFields
    BY DEF Shape
  <2> HIDE DEF r
  <2>2. /\ DOMAIN q = TaskFields /\ q.merge = merge
        /\ \A f \in TaskFields : f \notin {"merge", "paused"} => q[f] = r[f]
    BY <2>1 DEF TaskFields
  <2>3. s' = [s EXCEPT !.op = ops, !.task[t] = q]
    BY <1>1 DEF r
  <2> HIDE DEF q
  <2>4. /\ Shape(s') /\ SameRest(s, s') /\ s'.w = s.w /\ s'.op = ops
        /\ \A u \in Tasks : u # t => s'.task[u] = s.task[u]
        /\ s'.task[t] = q
    <3>1. merge \in Merges
      BY <1>1, Members DEF Shape
    <3>2. Shape([s EXCEPT !.op = ops])
      BY <1>4 DEF y
    <3> HIDE DEF mine, y
    <3> QED BY <1>3, <2>2, <2>3, <3>1, <3>2 DEF Shape, SameRest, StateFields
  <2> QED BY <2>2, <2>4 DEF r
<1> HIDE DEF y
<1>6. Good(y, left.review)
  <2>1. ASSUME NEW i \in DOMAIN s.op
        PROVE  /\ y.op[i].result = s.op[i].result /\ y.op[i].thread = s.op[i].thread
               /\ y.op[i].state = s.op[i].state \/ y.op[i].state \notin Interrupted
               /\ y.op[i].turn = s.op[i].turn \/ y.op[i].turn = "interrupted"
    BY <1>3, <1>4 DEF Interrupted, Held
  <2>2. ASSUME Patience, NEW i \in DOMAIN s.op, y.op[i].turn = "active"
        PROVE  y.op[i].state = s.op[i].state
    <3>1. i \notin mine
      <4>1. s.op[i].turn = "active"
        BY <2>1, <2>2
      <4>2. s.op[i].thread
        BY <2>2, <4>1 DEF Good, Repairing
      <4> QED BY <1>3, <1>4, <2>2, <4>2
    <3> QED BY <1>3, <1>4, <3>1
  <2>3. ASSUME Patience, s.w.pc = "turn" PROVE y.op[s.w.op].state = s.op[s.w.op].state
    <3>1. s.w.op \in DOMAIN s.op /\ s.w.op \notin mine
      BY <1>2, <2>3, WorkingFacts DEF Starting
    <3> QED BY <1>3, <1>4, <3>1
  <2> HIDE DEF mine
  <2>4. DOMAIN y.op = DOMAIN s.op
    BY <1>3, <1>4
  <2>5. \A i \in DOMAIN s.op : /\ y.op[i].turn = s.op[i].turn \/ y.op[i].turn # "active"
                               /\ y.op[i].turn = s.op[i].turn \/ y.op[i].turn # "quota"
    BY <2>1
  <2> QED BY <1>4, <2>1, <2>2, <2>3, <2>4, <2>5, CalmGood
<1>7. /\ s'.task[t].result = s.task[t].result /\ s'.task[t].head = s.task[t].head
      /\ s'.task[t].running = s.task[t].running /\ s'.task[t].status = s.task[t].status
      /\ s'.task[t].merged = s.task[t].merged /\ s'.task[t].approved = s.task[t].approved
  BY <1>5 DEF TaskFields
<1>8. RowOnly(y, s', t)
  BY <1>4, <1>5 DEF RowOnly, SameRest
<1>9. TaskFits(s', t)
  <2>1. s.task[t].status # "done" /\ s'.target = s.target
    BY <1>5 DEF Pause, SameRest
  <2> QED BY <1>1, <1>5, <1>7, <2>1 DEF TaskFits
<1>10. Steady /\ left.review =>
         /\ s'.task[t].merge \in {"queued", "merging"} => Approved(s', t)
         /\ s'.task[t].merge = "blocked" =>
              /\ y.task[t].merge \in {"queued", "merging", "blocked"}
              /\ s'.task[t].approved = y.task[t].approved /\ s'.task[t].result = y.task[t].result
  <2>1. merge \in {"queued", "merging"} => merge = s.task[t].merge
    BY <1>1
  <2> QED BY <1>1, <1>4, <1>5, <1>7, <2>1 DEF Approved
<1>11. s'.task[t].status = "done" => y.task[t].status = "done"
  BY <1>4, <1>7
<1>12. Good(s', left.review)
  BY <1>6, <1>8, <1>9, <1>10, <1>11, RowGood DEF RowOnly
<1> QED BY <1>5, <1>12, StaysAdds DEF SameRest

\* A worktree is named by the user.
LEMMA AttachGood ==
  ASSUME Sound, NEW t \in Tasks, Attach(t)
  PROVE  Good(s', left.review) /\ Adds(s, s', left.review)
<1> DEFINE id == s.task[t].op
<1>1. Good(s, left.review) /\ Shape(s)
  BY SoundFacts
<1>2. s' = [s EXCEPT !.op[id].tree = "ready", !.op[id].head = Target(id)]
  BY DEF Attach
<1> HIDE DEF id
<1>3. Alike(s, s')
  BY <1>1, <1>2 DEF Alike, Shape, SameRest, StateFields, OpFields
<1> QED BY <1>1, <1>3, AlikeGood, StaysAdds DEF Alike, SameRest

\* Others push to the target.
LEMMA PushGood ==
  ASSUME Sound, Push
  PROVE  Good(s', left.review)
<1>1. s' = [s EXCEPT !.target = s.target \cup {<<"push", left.moves>>}]
  BY DEF Push
<1>2. s.target \subseteq s.target \cup {<<"push", left.moves>>}
  OBVIOUS
<1> QED BY <1>1, <1>2, SoundFacts, TargetGood

\* Others commit in a worktree.
LEMMA TouchGood ==
  ASSUME Sound, Touch
  PROVE  Good(s', left.review) /\ Adds(s, s', left.review)
<1> USE SoundFacts
<1>1. ASSUME NEW t \in Tasks, s' = [s EXCEPT !.task[t].head = @ \cup {<<"touch", left.moves>>}]
      PROVE  Good(s', left.review) /\ Adds(s, s', left.review)
  <2>1. /\ RowOnly(s, s', t)
        /\ s.task[t].head \subseteq s'.task[t].head /\ s'.task[t].result = s.task[t].result
        /\ s'.task[t].merged = s.task[t].merged /\ s'.task[t].approved = s.task[t].approved
        /\ s'.task[t].status = s.task[t].status /\ s'.task[t].merge = s.task[t].merge
        /\ s'.task[t].running = s.task[t].running
    BY <1>1 DEF RowOnly, Shape, SameRest, StateFields, TaskFields
  <2>2. TaskFits(s', t)
    BY <2>1 DEF TaskFits, RowOnly, SameRest
  <2>3. Good(s', left.review) /\ s'.target = s.target
    BY <2>1, <2>2, RowGood DEF RowOnly, SameRest, Approved
  <2> QED BY <2>3, StaysAdds
<1>2. ASSUME NEW i \in DOMAIN s.op, s' = [s EXCEPT !.op[i].head = @ \cup {<<"touch", left.moves>>}]
      PROVE  Good(s', left.review) /\ Adds(s, s', left.review)
  <2>1. Alike(s, s')
    BY <1>2 DEF Alike, Shape, SameRest, StateFields, OpFields
  <2> QED BY <2>1, AlikeGood, StaysAdds DEF Alike, SameRest
<1> QED BY <1>1, <1>2 DEF Touch

\* The checkout, the settings and the turns in the checkout.
LEMMA SettingsGood ==
  ASSUME Sound, SetDirty \/ SetCommands \/ LocalTurn
  PROVE  Good(s', left.review) /\ Adds(s, s', left.review)
<1> USE SoundFacts
<1>1. /\ Shape(s') /\ s'.task = s.task /\ s'.op = s.op /\ s'.w = s.w /\ s'.target = s.target
      /\ s'.check = s.check /\ s'.late = s.late
  BY DEF SetDirty, SetCommands, LocalTurn, Shape, StateFields
<1> QED BY <1>1, RestGood, StaysAdds

\* The turn of a repair ends.
LEMMA RepairGood ==
  ASSUME Sound, Repair
  PROVE  Good(s', left.review) /\ Adds(s, s', left.review)
<1> USE SoundFacts
<1>1. PICK i \in DOMAIN s.op :
        /\ s.op[i].turn = "active"
        /\ \/ s' = [s EXCEPT !.op[i] = Repaired(@, i)]
           \/ s' = [s EXCEPT !.op[i].turn = "failed"]
           \/ May("quota") /\ s' = [s EXCEPT !.op[i].turn = "quota"]
  BY DEF Repair
<1>2. /\ Shape(s') /\ SameRest(s, s') /\ s'.task = s.task /\ s'.w = s.w
      /\ DOMAIN s'.op = DOMAIN s.op
      /\ \A j \in DOMAIN s.op : j # i => s'.op[j] = s.op[j]
      /\ s'.op[i].result = s.op[i].result /\ s'.op[i].thread = s.op[i].thread
      /\ s'.op[i].state = s.op[i].state
      /\ s'.op[i].turn # "active"
      /\ s'.op[i].turn = "quota" => May("quota")
  <2>1. CASE s' = [s EXCEPT !.op[i] = Repaired(@, i)]
    <3> DEFINE o == s.op[i]
               q == Repaired(o, i)
    <3>1. s' = [s EXCEPT !.op[i] = q]
      BY <2>1
    <3>2. DOMAIN o = OpFields
      BY DEF Shape
    <3> HIDE DEF o
    <3>3. /\ DOMAIN q = OpFields /\ q.turn = "completed" /\ q.state = o.state
          /\ q.thread = o.thread /\ q.result = o.result
      BY <3>2 DEF OpFields, Repaired
    <3> HIDE DEF q
    <3>4. /\ Shape(s') /\ SameRest(s, s') /\ s'.task = s.task /\ s'.w = s.w
          /\ DOMAIN s'.op = DOMAIN s.op
          /\ \A j \in DOMAIN s.op : j # i => s'.op[j] = s.op[j]
          /\ s'.op[i] = q
      BY <3>1, <3>3 DEF Shape, SameRest, StateFields, Turns, o
    <3> QED BY <3>3, <3>4 DEF o
  <2>2. CASE s' = [s EXCEPT !.op[i].turn = "failed"]
    BY <2>2 DEF Shape, SameRest, StateFields, OpFields, Turns
  <2>3. CASE May("quota") /\ s' = [s EXCEPT !.op[i].turn = "quota"]
    BY <2>3 DEF Shape, SameRest, StateFields, OpFields, Turns
  <2> QED BY <1>1, <2>1, <2>2, <2>3
<1>3. Steady /\ left.review => s'.op[i].turn # "quota"
  BY <1>2, BoundsFacts DEF Sound
<1>4. s.w.pc = "turn" => s'.op[s.w.op].state = s.op[s.w.op].state
  BY <1>2, WorkingFacts
<1>5. Good(s', left.review)
  BY <1>2, <1>3, <1>4, CalmGood
<1> QED BY <1>2, <1>5, StaysAdds DEF SameRest

\* A restart in the middle of a publication: the evidence and the intent are recorded.
LEMMA CrashPublishingGood ==
  ASSUME Sound, CrashPublishing
  PROVE  Good(s', left.review) /\ Adds(s, s', left.review)
<1> DEFINE id == s.w.op
           o == Owner(id)
           x == Ran(s, TRUE)
           y == Publishing(x, id)
           head == s.op[id].head
<1>1. /\ Good(s, left.review) /\ Working(s) /\ s.w.pc = "verify" /\ s.w.check \in DOMAIN s.check
      /\ id \in DOMAIN s.op /\ o \in Tasks
  BY WorkingFacts DEF CrashPublishing, At, Good, Inv, Checking
<1>2. Handles(s, id, left.review)
  BY <1>1 DEF Handles, Good, Repairing, Reviewing
<1>3. PICK done \in BOOLEAN : s' = Done([y EXCEPT !.target = IF done THEN head ELSE @])
  BY Zenon DEF CrashPublishing
<1>4. /\ s.w.check = CheckId(s, id) /\ s.target = Target(id)
      /\ StillWanted(x, id) /\ Acceptable(x, id) /\ Unchanged(x, id)
  BY DEF CrashPublishing
<1> HIDE DEF y
<1>5. /\ Handles(x, id, left.review) /\ x.task = s.task /\ x.op = s.op /\ x.w = s.w
      /\ x.commands = s.commands /\ x.target = s.target
      /\ s.w.check \in DOMAIN x.check /\ x.check[s.w.check] = "passed"
  <2>1. PICK passed \in BOOLEAN : passed /\ x = Ran(s, passed)
    OBVIOUS
  <2> HIDE DEF x, id
  <2> DEFINE n == Ran(s, passed)
  <2>2. /\ Handles(n, id, left.review) /\ n.task = s.task /\ n.op = s.op /\ n.w = s.w
        /\ n.commands = s.commands /\ n.target = s.target
        /\ n.w.check \in DOMAIN n.check
        /\ passed => n.check[s.w.check] = "passed"
    BY <1>1, <1>2, RanHandles
  <2> HIDE DEF n
  <2>3. x = n
    BY <2>1 DEF n
  <2> QED BY <2>1, <2>2, <2>3
<1> HIDE DEF x
<1>6. Source(id) \subseteq head /\ s.target \subseteq head
  BY <1>4, <1>5 DEF Acceptable
<1>7. /\ Handles(y, id, left.review) /\ SameRest(x, y) /\ y.task = x.task
  BY <1>1, <1>4, <1>5, <1>6, PublishingGood DEF StillWanted, y
<1> DEFINE target == IF done THEN head ELSE y.target
           z == [y EXCEPT !.target = target]
<1>8. y.target \subseteq target /\ s' = Done(z)
  BY <1>3, <1>5, <1>6, <1>7 DEF SameRest
<1>9. target = head \/ target = s.target
  BY <1>5, <1>7 DEF SameRest
<1> HIDE DEF target
<1>10. /\ Good(z, left.review) /\ z.target = target /\ z.check = y.check
       /\ z.commands = y.commands
  BY <1>7, <1>8, TargetGood DEF Handles
<1> HIDE DEF z
<1>11. Good(s', left.review) /\ s'.target = target
  BY <1>8, <1>10, DoneGood
<1>12. s'.check = x.check /\ s'.commands = x.commands
  <2>1. Shape(z)
    BY <1>10 DEF Good, Inv
  <2>2. SameRest(z, s')
    BY <1>8, <2>1, DoneAt
  <2> QED BY <2>2, <1>7, <1>10 DEF SameRest
<1>13. ASSUME target = head PROVE Adds(s, s', left.review)
  <2>1. <<id, s'.target, s'.commands>> = s.w.check
    BY <1>4, <1>5, <1>11, <1>12, <1>13 DEF CheckId
  <2>2. /\ s.task[o].result = Source(id) /\ s.task[o].head = Source(id) /\ ~s.task[o].paused
        /\ s.task[o].merge = "merging"
    BY <1>4, <1>5 DEF Unchanged, StillWanted
  <2>3. Steady /\ left.review => s.task[o].approved = Source(id)
    BY <1>1, <2>2 DEF Good, Reviewing, Approved
  <2> HIDE DEF o, head
  <2>4. /\ Source(id) \cup s.target \subseteq s'.target
        /\ <<id, s'.target, s'.commands>> \in DOMAIN s'.check
        /\ s'.check[<<id, s'.target, s'.commands>>] = "passed"
    BY <1>5, <1>6, <1>11, <1>12, <1>13, <2>1
  <2> QED BY <1>1, <2>2, <2>3, <2>4 DEF Adds, o
<1> QED BY <1>9, <1>11, <1>13, StaysAdds

\* An attempt begins, when nothing else is to go on.
LEMMA BeginsHandles ==
  ASSUME NEW review, Good(s, review), ~Working(s), NEW t \in Tasks,
         s.task[t].merge = "queued",
         \A i \in DOMAIN s.op : s.op[i].state \notin Interrupted,
         NEW id, id = <<t, s.task[t].result, s.target>>
  PROVE  LET x == Begins(s, t, id) IN
         /\ Handles(x, id, review) /\ x.w.pc = "tree" /\ SameRest(s, x)
         /\ DOMAIN x.op = DOMAIN s.op \cup {id}
         /\ \A i \in Tasks : x.task[i].result = s.task[i].result /\ x.task[i].head = s.task[i].head
              /\ x.task[i].paused = s.task[i].paused /\ x.task[i].approved = s.task[i].approved
         /\ x.op[id].tree # "none" => id \in DOMAIN s.op
         /\ \A u \in Tasks : u # t => x.task[u] = s.task[u]
         /\ x.task[t].merge = "merging" /\ ~x.w.recovering
         /\ \A f \in TaskFields : f \notin {"merge", "op"} => x.task[t][f] = s.task[t][f]
         /\ x.op[id].state = "preparing"
         /\ \A i \in DOMAIN s.op : i # id => x.op[i] = s.op[i]
         /\ id \in DOMAIN s.op => \A f \in OpFields : f # "state" => x.op[id][f] = s.op[id][f]
         /\ id \notin DOMAIN s.op =>
              /\ x.op[id].head = {} /\ x.op[id].turn = "none"
              /\ ~x.op[id].thread /\ x.op[id].clean
<1> DEFINE old == IF id \in DOMAIN s.op THEN [s.op[id] EXCEPT !.state = "preparing"] ELSE NewOp
           ops == Recorded(s.op, id, old)
           row == [s.task[t] EXCEPT !.merge = "merging", !.op = id]
           x == Begins(s, t, id)
           r == s.task[t]
<1>1. Owner(id) = t /\ Source(id) = r.result /\ r.result # {}
  BY DEF Owner, Source, Good, Inv, TaskFits
<1>2. Shape(s) /\ r.status # "done"
  BY DEF Good, Inv, TaskFits
<1>3. /\ DOMAIN old = OpFields /\ old.state = "preparing" /\ old.turn \in Turns
      /\ old.tree # "none" => id \in DOMAIN s.op
      /\ id \in DOMAIN s.op =>
           old.turn = s.op[id].turn /\ old.thread = s.op[id].thread /\ old.result = s.op[id].result
      /\ id \notin DOMAIN s.op =>
           /\ old.turn = "none" /\ old.result = {} /\ old.head = {}
           /\ ~old.thread /\ old.clean
      /\ id \in DOMAIN s.op => \A f \in OpFields : f # "state" => old[f] = s.op[id][f]
  <2>1. CASE id \in DOMAIN s.op
    <3> DEFINE q == [s.op[id] EXCEPT !.state = "preparing"]
    <3>1. old = q
      BY <2>1
    <3>2. DOMAIN s.op[id] = OpFields /\ s.op[id].turn \in Turns
      BY <1>2, <2>1 DEF Shape
    <3>3. /\ DOMAIN q = OpFields /\ q.state = "preparing"
          /\ q.turn = s.op[id].turn /\ q.thread = s.op[id].thread /\ q.result = s.op[id].result
          /\ \A f \in OpFields : f # "state" => q[f] = s.op[id][f]
      BY <3>2 DEF OpFields
    <3> HIDE DEF old, q
    <3> QED BY <2>1, <3>1, <3>2, <3>3
  <2>2. CASE id \notin DOMAIN s.op
    <3>1. old = NewOp
      BY <2>2
    <3> HIDE DEF old
    <3> QED BY <2>2, <3>1 DEF NewOp, OpFields, Turns
  <2> QED BY <2>1, <2>2
<1> HIDE DEF old
<1>4. /\ DOMAIN ops = DOMAIN s.op \cup {id} /\ ops[id] = old
      /\ \A i \in DOMAIN s.op : i # id => ops[i] = s.op[i]
  BY DEF Recorded
<1> HIDE DEF ops
<1>5. /\ DOMAIN row = TaskFields /\ row.merge = "merging"
      /\ \A f \in TaskFields : f \notin {"merge", "op"} => row[f] = r[f]
  <2>1. DOMAIN r = TaskFields
    BY <1>2 DEF Shape
  <2> HIDE DEF r
  <2>2. row = [r EXCEPT !.merge = "merging", !.op = id]
    BY DEF r
  <2> HIDE DEF row
  <2> QED BY <2>1, <2>2 DEF TaskFields
<1>6. /\ row.result = r.result /\ row.head = r.head /\ row.paused = r.paused
      /\ row.approved = r.approved /\ row.running = r.running /\ row.status = r.status
      /\ row.merged = r.merged
  BY <1>5 DEF TaskFields
<1> DEFINE w == [Idle EXCEPT !.pc = "tree", !.op = id]
<1>7. x = [s EXCEPT !.op = ops, !.task[t] = row, !.w = w]
  BY DEF Begins, ops, old
<1>16. DOMAIN w = WorkerFields /\ w.pc = "tree" /\ w.op = id /\ ~w.recovering
  BY DEF Idle, WorkerFields
<1> HIDE DEF row, w, x
<1>8. /\ x.op = ops /\ SameRest(s, x) /\ Shape(x)
      /\ \A u \in Tasks : u # t => x.task[u] = s.task[u]
      /\ x.task[t] = row
      /\ x.w.pc = "tree" /\ x.w.op = id /\ ~x.w.recovering
  <2>1. /\ DOMAIN x = StateFields /\ x.op = ops /\ x.w = w /\ SameRest(s, x)
        /\ DOMAIN x.task = Tasks /\ x.task[t] = row
        /\ \A u \in Tasks : u # t => x.task[u] = s.task[u]
    BY <1>2, <1>7 DEF Shape, SameRest, StateFields
  <2>2. \A i \in DOMAIN x.op : /\ DOMAIN x.op[i] = OpFields
                              /\ x.op[i].state \in Operations /\ x.op[i].turn \in Turns
    BY <1>2, <1>3, <1>4, <2>1 DEF Shape, Operations
  <2> QED BY <2>1, <2>2, <1>2, <1>5, <1>16 DEF Shape, Merges, Steps
<1>9. ASSUME NEW i \in DOMAIN x.op, Current(x, i) PROVE i = id
  BY <1>4, <1>8, <1>9 DEF Current
<1>10. Inv(x)
  <2>1. \A i \in DOMAIN x.op : OpFits(x, i)
    BY <1>1, <1>3, <1>4, <1>8 DEF Good, Inv, OpFits
  <2>2. \A u \in Tasks : TaskFits(x, u)
    BY <1>2, <1>5, <1>6, <1>8 DEF Good, Inv, TaskFits, SameRest
  <2>3. OneCurrent(x)
    BY <1>1, <1>2, <1>4, <1>6, <1>8, <1>9 DEF OneCurrent
  <2>4. Checking(x)
    BY <1>8 DEF Checking
  <2> QED BY <1>8, <2>1, <2>2, <2>3, <2>4 DEF Inv
<1>11. ASSUME Patience PROVE Repairing(x) /\ x.op[id].turn # "active"
  <2>1. \A i \in DOMAIN s.op : s.op[i].turn # "active"
    BY <1>11 DEF Good, Repairing, Interrupted
  <2>2. \A i \in DOMAIN x.op : x.op[i].turn # "active"
    BY <2>1, <1>3, <1>4, <1>8
  <2> QED BY <2>2, <1>4, <1>8, <1>11 DEF Good, Repairing, SameRest
<1>12. ASSUME Steady, review PROVE Reviewing(x)
  <2>1. \A u \in Tasks : x.task[u].merge \in {"queued", "merging"} => Approved(x, u)
    BY <1>6, <1>8, <1>12 DEF Good, Reviewing, Approved
  <2>2. \A i \in DOMAIN x.op : x.op[i].state # "waiting_quota" /\ x.op[i].turn # "quota"
    BY <1>3, <1>4, <1>8, <1>12 DEF Good, Reviewing
  <2>3. x.op[id].state \notin Held
    BY <1>3, <1>4, <1>8 DEF Held
  <2> QED BY <1>1, <1>5, <1>8, <1>9, <2>1, <2>2, <2>3 DEF Reviewing
<1>13. x.op[id].state \notin Held
  BY <1>3, <1>4, <1>8 DEF Held
<1>14. Handles(x, id, review)
  BY <1>8, <1>10, <1>11, <1>12, <1>13 DEF Handles, Good, Working
<1>15. \A i \in Tasks : x.task[i].result = s.task[i].result /\ x.task[i].head = s.task[i].head
         /\ x.task[i].paused = s.task[i].paused /\ x.task[i].approved = s.task[i].approved
  BY <1>6, <1>8
<1>17. /\ x.task[t].merge = "merging" /\ x.op[id].state = "preparing"
       /\ \A f \in TaskFields : f \notin {"merge", "op"} => x.task[t][f] = s.task[t][f]
       /\ \A i \in DOMAIN s.op : i # id => x.op[i] = s.op[i]
       /\ id \in DOMAIN s.op => \A f \in OpFields : f # "state" => x.op[id][f] = s.op[id][f]
       /\ id \notin DOMAIN s.op =>
            /\ x.op[id].head = {} /\ x.op[id].turn = "none"
            /\ ~x.op[id].thread /\ x.op[id].clean
  BY <1>3, <1>4, <1>5, <1>8
<1> QED BY <1>3, <1>4, <1>8, <1>14, <1>15, <1>17 DEF x

\* An integration is refused, resumed, or begins.
LEMMA PrepareGood ==
  ASSUME Sound, NEW t \in Tasks, Prepare(t)
  PROVE  Good(s', left.review) /\ Adds(s, s', left.review)
<1> USE SoundFacts
<1> DEFINE id == <<t, s.task[t].result, s.target>>
           x == Begins(s, t, id)
           tree == x.op[id].tree
<1>1. /\ ~Working(s) /\ s.task[t].merge = "queued"
      /\ \A i \in DOMAIN s.op : s.op[i].state \in Interrupted => s.op[i].state \in Held
      /\ IF Refuses(t, id) THEN s' = SetMerge(s, t, "blocked")
         ELSE CASE tree = "ready" -> \E c \in Conflicts : s' = Integrates(x, id, c)
                [] tree = "none" -> s' = [x EXCEPT !.op[id].tree = "creating"]
                [] OTHER -> s' = Fails(x)
  BY DEF Prepare, Working
<1>2. CASE Refuses(t, id)
  <2>1. s' = SetMerge(s, t, "blocked")
    BY <1>1, <1>2
  <2>2. /\ Shape(s') /\ SameRest(s, s') /\ s'.op = s.op /\ s'.w = s.w
        /\ \A u \in Tasks : u # t => s'.task[u] = s.task[u]
        /\ s'.task[t].merge = "blocked"
        /\ \A f \in TaskFields : f # "merge" => s'.task[t][f] = s.task[t][f]
    <3>1. Shape(s) /\ "blocked" \in Merges
      BY Members
    <3> HIDE DEF id, x, tree
    <3> QED BY <2>1, <3>1, SetMergeAt
  <2>3. /\ s'.task[t].result = s.task[t].result /\ s'.task[t].head = s.task[t].head
        /\ s'.task[t].running = s.task[t].running /\ s'.task[t].status = s.task[t].status
        /\ s'.task[t].merged = s.task[t].merged /\ s'.task[t].approved = s.task[t].approved
    BY <2>2 DEF TaskFields
  <2>4. TaskFits(s', t)
    BY <1>1, <2>2, <2>3 DEF TaskFits, SameRest
  <2>5. Good(s', left.review)
    BY <1>1, <2>2, <2>3, <2>4, RowGood
  <2> QED BY <2>2, <2>5, StaysAdds DEF SameRest
<1>3. CASE ~Refuses(t, id)
  <2>1. \A i \in DOMAIN s.op : s.op[i].state \notin Interrupted
    BY <1>1, <1>3 DEF Refuses
  <2>2. /\ Handles(x, id, left.review) /\ x.w.pc = "tree" /\ SameRest(s, x)
        /\ DOMAIN x.op = DOMAIN s.op \cup {id}
        /\ \A i \in Tasks : x.task[i].result = s.task[i].result /\ x.task[i].head = s.task[i].head
             /\ x.task[i].paused = s.task[i].paused /\ x.task[i].approved = s.task[i].approved
        /\ x.op[id].tree # "none" => id \in DOMAIN s.op
    BY <1>1, <2>1, BeginsHandles
  <2>3. \/ tree = "ready" /\ \E c \in Conflicts : s' = Integrates(x, id, c)
        \/ s' = [x EXCEPT !.op[id].tree = "creating"]
        \/ s' = Fails(x)
    BY <1>1, <1>3
  <2> HIDE DEF x, id
  <2>4. CASE tree = "ready" /\ \E c \in Conflicts : s' = Integrates(x, id, c)
    <3>1. Before(s, x)
      BY <2>2, <2>4 DEF Before, SameRest, Handles, Good, Inv, OpFits
    <3>2. PICK c \in Conflicts : s' = Integrates(x, id, c)
      BY <2>4
    <3>3. Good(s', left.review) /\ Adds(x, s', left.review)
      BY <2>2, <3>2, IntegratesGood
    <3> QED BY <3>1, <3>3, BeforeAdds
  <2>5. CASE s' = [x EXCEPT !.op[id].tree = "creating"]
    <3>1. Shape(x) /\ Good(x, left.review)
      BY <2>2 DEF Handles, Good, Inv
    <3>2. Alike(x, s')
      BY <2>5, <3>1 DEF Alike, Shape, SameRest, StateFields, OpFields
    <3> QED BY <2>2, <3>1, <3>2, AlikeGood, StaysAdds DEF Alike, SameRest
  <2>6. CASE s' = Fails(x)
    BY <2>2, <2>6, FailsGood, StaysAdds DEF SameRest
  <2> QED BY <2>3, <2>4, <2>5, <2>6
<1> QED BY <1>2, <1>3
-----------------------------------------------------------------------------
\* Every step keeps what is sound, and adds to the target what was verified unless
\* someone else moves it.
LEMMA SoundStep ==
  ASSUME Sound, [Next]_vars
  PROVE  /\ Good(s', left.review)
         /\ Steady /\ left'.moves = left.moves => Adds(s, s', left.review)
<1>1. CASE \E t \in Tasks : Prepare(t)
  BY <1>1, PrepareGood
<1>2. CASE TreeMade
  BY <1>2, TreeMadeGood
<1>3. CASE ThreadMade
  BY <1>3, ThreadMadeGood
<1>4. CASE TurnStarted
  BY <1>4, TurnStartedGood
<1>5. CASE TurnOver
  BY <1>5, TurnOverGood
<1>6. CASE Verified
  BY <1>6, VerifiedGood
<1>7. CASE RecoverRead
  BY <1>7, RecoverReadGood
<1>8. CASE \E i \in DOMAIN s.op : Recover(i)
  BY <1>8, RecoverGood
<1>9. CASE NotPrepared \/ TurnLost \/ TurnRefused
  BY <1>9, NotPreparedGood, TurnLostGood, TurnRefusedGood
<1>10. CASE NotRecovered \/ Crash \/ CrashPublishing
  BY <1>10, NotRecoveredGood, CrashGood, CrashPublishingGood
<1>11. CASE \E t \in Tasks : TurnEnds(t) \/ Resettle(t)
  BY <1>11, TurnEndsGood, ResettleGood
<1>12. CASE \E t \in Tasks : Rework(t) \/ Approve(t) \/ Pause(t) \/ Resume(t) \/ Attach(t)
  <2>1. ASSUME NEW t \in Tasks, Rework(t) PROVE Good(s', left.review) /\ Adds(s, s', left.review)
    BY <2>1, EnqueuedGood DEF Rework
  <2> QED BY <1>12, <2>1, ApproveGood, PauseGood, ResumeGood, AttachGood
<1>13. CASE Push
  <2>1. Steady => left'.moves # left.moves
    BY <1>13, BoundsFacts DEF Push, Move, Sound, Bounds, Steadies
  <2> QED BY <1>13, <2>1, PushGood
<1>14. CASE Touch \/ SetDirty \/ SetCommands \/ LocalTurn \/ Repair \/ StartsLate
  BY <1>14, TouchGood, SettingsGood, RepairGood, StartsLateGood
<1>15. CASE UNCHANGED vars
  BY <1>15, SoundFacts, StaysAdds DEF vars
<1> QED
  BY <1>1, <1>2, <1>3, <1>4, <1>5, <1>6, <1>7, <1>8, <1>9, <1>10, <1>11, <1>12, <1>13, <1>14,
     <1>15 DEF Next, Worker

\* A step uses up nothing of the scenario, or one of its bounds.
LEMMA LeftStep ==
  ASSUME [Next]_vars
  PROVE  \/ left' = left
         \/ left.turns > 0 /\ left' = [left EXCEPT !.turns = @ - 1]
         \/ left.moves > 0 /\ left' = [left EXCEPT !.moves = @ - 1]
         \/ left.trouble > 0 /\ left' = [left EXCEPT !.trouble = @ - 1]
<1>1. CASE \E t \in Tasks : Prepare(t)
  BY <1>1 DEF Prepare, Free
<1>2. CASE TreeMade \/ ThreadMade \/ TurnStarted \/ TurnOver
  BY <1>2 DEF TreeMade, ThreadMade, TurnStarted, TurnOver, Free
<1>3. CASE Verified \/ RecoverRead \/ TurnRefused
  BY <1>3 DEF Verified, RecoverRead, TurnRefused, Free
<1>4. CASE \E i \in DOMAIN s.op : Recover(i)
  BY <1>4 DEF Recover, Free
<1>5. CASE NotPrepared \/ TurnLost \/ NotRecovered \/ Crash \/ CrashPublishing
  BY <1>5 DEF NotPrepared, TurnLost, NotRecovered, Crash, CrashPublishing, GivesUp, Trouble, Free
<1>6. CASE \E t \in Tasks : TurnEnds(t) \/ Resettle(t)
  BY <1>6 DEF TurnEnds, Resettle, Move
<1>7. CASE \E t \in Tasks : Rework(t) \/ Approve(t) \/ Pause(t) \/ Resume(t) \/ Attach(t)
  BY <1>7 DEF Rework, Approve, Pause, Resume, Attach, Move, Free
<1>8. CASE Push \/ Touch \/ SetDirty \/ SetCommands \/ LocalTurn
  BY <1>8 DEF Push, Touch, SetDirty, SetCommands, LocalTurn, Move
<1>9. CASE Repair \/ StartsLate
  BY <1>9 DEF Repair, StartsLate, Free
<1>10. CASE UNCHANGED vars
  BY <1>10 DEF vars
<1> QED
  BY <1>1, <1>2, <1>3, <1>4, <1>5, <1>6, <1>7, <1>8, <1>9, <1>10 DEF Next, Worker

\* The scenario stays what it was.
LEMMA BoundsStep ==
  ASSUME Bounds, [Next]_vars
  PROVE  Bounds' /\ (Steady => left'.review = left.review) /\ (Patience' <=> Patience)
<1>1. Patience' <=> Patience
  BY LeftStep DEF Patience
<1>2. ASSUME Steady PROVE left' \in Steadies /\ left'.review = left.review
  <2>1. /\ left' \in [can : SUBSET Operation, review : BOOLEAN, turns : Nat, moves : Nat,
                      trouble : Nat]
        /\ left'.review = left.review /\ left'.can = left.can
    BY <1>2, LeftStep DEF Bounds, Steadies
  <2> QED BY <1>2, <2>1 DEF Bounds, Steadies
<1> QED BY <1>1, <1>2 DEF Bounds

LEMMA SoundNext ==
  ASSUME Sound, [Next]_vars
  PROVE  Sound'
<1>1. Bounds' /\ (Steady => left'.review = left.review) /\ (Patience' <=> Patience)
  BY BoundsStep DEF Sound
<1>2. Good(s', left.review)
  BY SoundStep
<1>3. Good(s', left'.review)
  BY <1>1, <1>2 DEF Good
<1> QED BY <1>1, <1>3 DEF Sound, Good

\* At first nothing is under way.
LEMMA SoundInit ==
  ASSUME Init
  PROVE  Sound
<1>1. /\ DOMAIN s = StateFields /\ DOMAIN s.task = Tasks /\ DOMAIN s.op = {}
      /\ \A t \in Tasks : s.task[t] = NewTask
      /\ s.w = Idle /\ s.late = {}
  BY DEF Init, StateFields
<1>2. /\ DOMAIN NewTask = TaskFields /\ NewTask.merge = "none" /\ NewTask.status = "in_progress"
      /\ NewTask.result = {} /\ NewTask.head = {} /\ NewTask.merged = {}
  BY DEF NewTask, TaskFields
<1>3. DOMAIN s.w = WorkerFields /\ s.w.pc = "idle"
  BY <1>1 DEF Idle, WorkerFields, Steps
<1>4. Inv(s)
  BY <1>1, <1>2, <1>3 DEF Inv, Shape, TaskFits, OneCurrent, Working, Checking, Merges, Steps
<1>5. Repairing(s) /\ Reviewing(s)
  BY <1>1, <1>2, <1>3 DEF Repairing, Reviewing
<1>6. Bounds
  BY DEF Init, Bounds, Steady
<1> QED BY <1>4, <1>5, <1>6 DEF Sound, Good

\* The invariant the theorems rest on.
THEOREM SoundAlways == Spec => []Sound
<1>1. Init => Sound
  BY SoundInit
<1>2. Sound /\ [Next]_vars => Sound'
  BY SoundNext
<1> QED BY <1>1, <1>2, PTL DEF Spec
-----------------------------------------------------------------------------
\* A task is done only when its delivery has reached the target, which never loses it,
\* whatever users, Codex and failures do (ParallelRuntime.merged, recover_operation).
THEOREM DeliveredIsIntegrated == Spec => []DoneIsIntegrated
<1>1. Sound => DoneIsIntegrated
  BY DEF Sound, Good, Inv, TaskFits, DoneIsIntegrated
<1> QED BY <1>1, SoundAlways, PTL

\* A scenario names operations and counts.
Scenarios ==
  [can : SUBSET Operation, review : BOOLEAN, turns : Nat, moves : Nat, trouble : Nat]

LEMMA Counted ==
  ASSUME Scenario \subseteq Scenarios
  PROVE  Spec => [](left \in Scenarios)
<1> DEFINE Counting == left \in Scenarios
<1>1. Init => Counting
  BY DEF Init
<1>2. Counting /\ [Next]_vars => Counting'
  BY LeftStep DEF Scenarios
<1> HIDE DEF Counting
<1>3. Spec => []Counting
  BY <1>1, <1>2, PTL DEF Spec
<1> QED BY <1>3 DEF Counting

\* The board never waits for two repairs of one repository (merge_task refuses while
\* another may run), and unless a request times out, a start comes late or users touch a
\* task whose repair is being started, a repair that runs is one it waits for.
THEOREM RepairsAlone == ASSUME Scenario \subseteq Scenarios PROVE Spec => []OneRepair
<1>1. Sound /\ left \in Scenarios => OneRepair
  <2> SUFFICES ASSUME Sound, left \in Scenarios PROVE OneRepair
    OBVIOUS
  <2> DEFINE held == {i \in DOMAIN s.op : s.op[i].state \in Held}
  <2>1. \A i, j \in held : i = j
    BY DEF Sound, Good, Inv, OneCurrent, Current, Interrupted
  <2>2. Cardinality(held) <= 1
    <3>1. CASE held = {}
      BY <3>1, FS_EmptySet
    <3>2. CASE held # {}
      <4>1. PICK i : i \in held
        BY <3>2
      <4>2. held = {i}
        BY <2>1, <4>1
      <4>3. Cardinality(held) = 1
        BY <4>2, FS_Singleton
      <4> QED BY <4>3
    <3> QED BY <3>1, <3>2
  <2>3. ASSUME left.can \cap {"impatient", "timeout", "late"} = {}
        PROVE  \A i \in DOMAIN s.op : s.op[i].turn = "active" => s.op[i].state \in Held
    <3>1. Patience
      BY <2>3 DEF Patience, Scenarios
    <3> QED BY <3>1 DEF Sound, Good, Repairing
  <2> QED BY <2>2, <2>3 DEF OneRepair
<1> QED BY <1>1, SoundAlways, Counted, PTL

\* Only the verified result of one task is added to the target (publish_merge), reviewed
\* where results are reviewed and no answer of Codex is lost nor a usage limit met.
THEOREM PublishesVerified == ASSUME Steady PROVE Spec => PublishedOnlyVerified
<1>1. Sound /\ [Next]_vars =>
        [s'.target # s.target /\ left'.moves = left.moves =>
           \E i \in DOMAIN s.op :
             LET t == s.task[Owner(i)] IN
             /\ Source(i) \cup s.target \subseteq s'.target
             /\ <<i, s'.target, s'.commands>> \in DOMAIN s'.check
             /\ s'.check[<<i, s'.target, s'.commands>>] = "passed"
             /\ t.result = Source(i) /\ t.head = Source(i) /\ ~t.paused
             /\ left.review => t.approved = Source(i)]_vars
  BY SoundStep DEF Adds
<1> QED BY <1>1, SoundAlways, PTL DEF Spec, PublishedOnlyVerified

-----------------------------------------------------------------------------
\* Rows, operations and worker are always in a state the code knows (mergeState of
\* task_runtime, state of merge_operations).
THEOREM MergeTyped == ASSUME Scenario \subseteq Scenarios PROVE Spec => []TypeOK
<1>1. Sound /\ left \in Scenarios => TypeOK
  <2> SUFFICES ASSUME Sound, left \in Scenarios PROVE TypeOK
    OBVIOUS
  <2>1. left.can \subseteq Operation /\ {left.turns, left.moves, left.trouble} \subseteq Nat
    BY DEF Scenarios
  <2>2. Shape(s) /\ (s.w.pc # "idle" => s.w.op \in DOMAIN s.op)
    BY DEF Sound, Good, Inv, OneCurrent, Working
  <2> QED BY <2>1, <2>2 DEF Shape, TypeOK, Merges, Operations, Turns, Steps
<1> QED BY <1>1, SoundAlways, Counted, PTL
-----------------------------------------------------------------------------
(* An integration never ends a task whose turn runs. A repair that may still    *)
(* run is kept while its task has another turn only where an answer was lost or *)
(* a usage limit was met, and a publication is told from an older one as long   *)
(* as its evidence counts.                                                     *)
Prudent(can) ==
  /\ can \subseteq Operation \ {"impatient", "timeout", "late"}
  /\ can \cap {"lost", "quota"} = {} \/ can \cap {"rework", "pause"} = {}
  /\ ~({"crash", "commands"} \subseteq can)
Prudents ==
  {c \in [can : SUBSET Operation, review : BOOLEAN, turns : Nat, moves : Nat, trouble : Nat] :
     Prudent(c.can)}
\* Changes by tasks are told from all others.
Named == Tasks \cap {"push", "touch", "repair"} = {}

Answered(can) == can \cap {"lost", "quota"} = {}
Undisturbed(can) == can \cap {"rework", "pause"} = {}

\* The commit has a change of t that the target does not have.
Missing(x, commit, t) == \E e \in commit \ x.target : e[1] = t
\* The publication of i was interrupted when it was over.
Landed(x, i) == x.op[i].state = "publishing" /\ x.op[i].result \subseteq x.target
LandedOf(x, t) == \E i \in DOMAIN x.op : Owner(i) = t /\ Landed(x, i)

\* The changes of tasks are of earlier turns than the next.
Past(commit, turns) == \A e \in commit : e[1] \in Tasks => e[2] \in Nat /\ e[2] > turns
\* The changes of tasks in it are in one of the others.
Within(commit, others) == \A e \in commit : e[1] \in Tasks => e \in others

\* What is known of a candidate, its repair and its publication.
Candidate(x, i) ==
  /\ Source(i) \subseteq x.task[Owner(i)].result /\ Target(i) \subseteq x.target
  /\ Within(x.op[i].head, Source(i) \cup Target(i))
Mended(x, i) ==
  /\ x.op[i].thread /\ x.op[i].turn # "completed" => ~x.op[i].clean
  /\ x.op[i].turn # "none" => x.op[i].thread
  /\ x.op[i].thread => x.op[i].tree = "ready"
  /\ x.op[i].turn = "completed" => x.op[i].clean /\ Source(i) \subseteq x.op[i].head
Shown(x, i, can) ==
  x.op[i].state = "publishing" =>
    /\ x.op[i].result # {} /\ x.op[i].tree = "ready" /\ x.op[i].clean /\ Evidence(x, i)
    /\ ~x.task[Owner(i)].running /\ "crash" \in can
Told(x, i, can) ==
  Answered(can) => x.op[i].state # "waiting_quota" /\ x.op[i].turn # "quota"
\* What goes on is not delivered yet, unless it is published, and is given up before
\* the task is blocked while a turn of it runs.
Due(x, i) ==
  Current(x, i) =>
    /\ Missing(x, Source(i), Owner(i)) \/ Landed(x, i)
    /\ x.task[Owner(i)].running => x.task[Owner(i)].merge = "none"
OpIdle(x, i, can) ==
  Candidate(x, i) /\ Mended(x, i) /\ Shown(x, i, can) /\ Told(x, i, can) /\ Due(x, i)

Waits == {"queued", "merging", "blocked", "pending_review"}
TaskIdle(x, t, can, turns) ==
  LET r == x.task[t] IN
  /\ Past(r.head, turns) /\ \A e \in r.head : e[1] \in Tasks => e[1] = t
  /\ r.merge \in Waits => Missing(x, r.result, t) \/ LandedOf(x, t)
  /\ r.status # "done" /\ ~r.running => Missing(x, r.head, t) \/ LandedOf(x, t)
  /\ r.running => r.merge \in {"none", "blocked"}
  /\ Undisturbed(can) => ~r.paused /\ (r.running => r.result = {})

Resting(x, can, turns) ==
  /\ \A i \in DOMAIN x.op : OpIdle(x, i, can)
  /\ \A t \in Tasks : TaskIdle(x, t, can, turns)
  /\ Past(x.target, turns)
  /\ "commands" \notin can => x.commands # 0

\* Where the worker is with its operation.
Placed(x, can) ==
  LET o == x.op[x.w.op] IN
  /\ x.w.pc \in {"thread", "turn"} => ~o.clean
  /\ x.w.pc = "turn" => o.turn # "active"
  /\ x.w.pc = "tree" => ~o.thread /\ o.state # "publishing"
  /\ x.w.pc \in {"thread", "verify"} => o.tree = "ready"
  /\ x.w.pc = "verify" => x.check[x.w.check] = "running"
  /\ Working(x) /\ Landed(x, x.w.op) => x.w.pc = "read"
  /\ Answered(can) =>
       /\ x.w.pc \in {"tree", "verify"} /\ ~x.w.recovering => o.state \notin Held
       /\ x.w.recovering => x.w.pc \in {"read", "verify"}

Idling(x, can, turns) == Resting(x, can, turns) /\ Placed(x, can)

\* No task is ended whose turn runs.
Ends(x, n) ==
  \A t \in Tasks : x.task[t].status # "done" /\ n.task[t].status = "done" => ~x.task[t].running
-----------------------------------------------------------------------------
\* An operation that is written by nobody.
LEMMA OpStays ==
  ASSUME NEW x, NEW n, NEW i, NEW can, OpIdle(x, i, can), n.op[i] = x.op[i], n.target = x.target,
         x.task[Owner(i)].result \subseteq n.task[Owner(i)].result,
         Current(n, i) => Current(x, i),
         Current(n, i) /\ n.task[Owner(i)].running => n.task[Owner(i)].merge = "none",
         x.op[i].state = "publishing" => ~n.task[Owner(i)].running /\ Evidence(n, i)
  PROVE  OpIdle(n, i, can)
<1>1. Candidate(n, i)
  BY DEF OpIdle, Candidate
<1>2. Mended(n, i) /\ Told(n, i, can)
  BY DEF OpIdle, Mended, Told
<1>3. Shown(n, i, can)
  BY DEF OpIdle, Shown
<1>4. Due(n, i)
  BY DEF OpIdle, Due, Missing, Landed
<1> QED BY <1>1, <1>2, <1>3, <1>4 DEF OpIdle

\* A task that is written by nobody.
LEMMA TaskStays ==
  ASSUME NEW x, NEW n, NEW t, NEW can, NEW turns, TaskIdle(x, t, can, turns),
         n.task[t] = x.task[t], n.target = x.target, LandedOf(x, t) => LandedOf(n, t)
  PROVE  TaskIdle(n, t, can, turns)
BY DEF TaskIdle, Missing

LEMMA Grows ==
  ASSUME NEW x, NEW commit, NEW more, NEW t, Missing(x, commit, t), commit \subseteq more
  PROVE  Missing(x, more, t)
BY DEF Missing

\* The worker's operation, and who else is under way.
LEMMA HandFacts ==
  ASSUME NEW x, NEW can, NEW turns, Inv(x), Resting(x, can, turns), NEW id \in DOMAIN x.op,
         Current(x, id)
  PROVE  /\ Owner(id) \in Tasks /\ Source(id) # {} /\ Shape(x)
         /\ Source(id) \subseteq x.task[Owner(id)].result
         /\ x.task[Owner(id)].result \subseteq x.task[Owner(id)].head
         /\ OpIdle(x, id, can) /\ TaskIdle(x, Owner(id), can, turns)
         /\ \A i \in DOMAIN x.op : Current(x, i) => i = id
         /\ x.task[Owner(id)].status # "done"
<1>1. Owner(id) \in Tasks /\ Source(id) # {}
  BY DEF Inv, OpFits
<1>2. OpIdle(x, id, can) /\ TaskIdle(x, Owner(id), can, turns)
  BY <1>1 DEF Resting
<1>3. x.task[Owner(id)].result \subseteq x.task[Owner(id)].head
  BY <1>1 DEF Inv, TaskFits
<1>4. \A i \in DOMAIN x.op : Current(x, i) => i = id
  BY DEF Inv, OneCurrent
<1>5. x.task[Owner(id)].status # "done"
  BY DEF Inv, OneCurrent
<1> QED BY <1>1, <1>2, <1>3, <1>4, <1>5 DEF OpIdle, Candidate, Inv

\* The worker gives an operation up for now; of the operation more may be recorded.
Ending(x, n, id, state, merge) ==
  /\ Writes(x, n, id) /\ SameRest(x, n) /\ n.w = Idle
  /\ n.op[id].state = state
  /\ \A f \in OpFields : f \notin {"state", "result"} => n.op[id][f] = x.op[id][f]
  /\ n.task[Owner(id)].merge = merge
  /\ \A f \in TaskFields : f # "merge" => n.task[Owner(id)][f] = x.task[Owner(id)][f]

LEMMA EndingIdle ==
  ASSUME NEW x, NEW n, NEW id \in DOMAIN x.op, NEW can, NEW turns,
         Inv(x), Resting(x, can, turns), Current(x, id),
         Missing(x, Source(id), Owner(id)),
         NEW state, NEW merge \in {"blocked", "queued"}, Ending(x, n, id, state, merge),
         state # "publishing", Answered(can) => state # "waiting_quota",
         merge = "queued" \/ state \in Interrupted => ~x.task[Owner(id)].running
  PROVE  Idling(n, can, turns) /\ Ends(x, n)
<1> DEFINE o == Owner(id)
<1>1. /\ o \in Tasks /\ Source(id) \subseteq x.task[o].result
      /\ x.task[o].result \subseteq x.task[o].head
      /\ OpIdle(x, id, can) /\ TaskIdle(x, o, can, turns)
      /\ \A i \in DOMAIN x.op : Current(x, i) => i = id
      /\ x.task[o].status # "done"
  BY HandFacts
<1>2. /\ DOMAIN n.op = DOMAIN x.op
      /\ \A i \in DOMAIN x.op : i # id => n.op[i] = x.op[i]
      /\ \A u \in Tasks : u # o => n.task[u] = x.task[u]
      /\ n.check = x.check /\ n.target = x.target /\ n.commands = x.commands /\ n.w = Idle
  BY DEF Ending, Writes, SameRest
<1>3. /\ n.op[id].state = state /\ n.op[id].tree = x.op[id].tree /\ n.op[id].head = x.op[id].head
      /\ n.op[id].clean = x.op[id].clean /\ n.op[id].thread = x.op[id].thread
      /\ n.op[id].turn = x.op[id].turn
  BY DEF Ending, OpFields
<1>4. /\ n.task[o].merge = merge /\ n.task[o].status = x.task[o].status
      /\ n.task[o].running = x.task[o].running /\ n.task[o].paused = x.task[o].paused
      /\ n.task[o].result = x.task[o].result /\ n.task[o].head = x.task[o].head
  BY DEF Ending, TaskFields
<1>5. \A i \in DOMAIN n.op : Current(n, i) => i = id /\ state \in Interrupted
  <2>1. ~Working(n)
    BY <1>2 DEF Working, Idle
  <2> QED BY <1>1, <1>2, <1>3, <2>1 DEF Current
<1>6. \A i \in DOMAIN x.op : x.op[i].state = "publishing" => i = id
  BY <1>1 DEF Current, Interrupted
<1>7. Missing(n, Source(id), o)
  BY <1>2 DEF Missing
<1>8. OpIdle(n, id, can)
  <2>1. Candidate(n, id)
    BY <1>1, <1>2, <1>3, <1>4 DEF OpIdle, Candidate
  <2>2. Mended(n, id)
    BY <1>1, <1>3 DEF OpIdle, Mended
  <2>3. Shown(n, id, can) /\ Told(n, id, can)
    BY <1>1, <1>3 DEF OpIdle, Shown, Told
  <2>4. Due(n, id)
    BY <1>4, <1>5, <1>2, <1>7 DEF Due
  <2> QED BY <2>1, <2>2, <2>3, <2>4 DEF OpIdle
<1>9. ASSUME NEW i \in DOMAIN n.op, i # id PROVE OpIdle(n, i, can)
  <2>1. OpIdle(x, i, can) /\ n.op[i] = x.op[i]
    BY <1>2, <1>9 DEF Resting
  <2>2. ~Current(n, i) /\ x.op[i].state # "publishing"
    BY <1>2, <1>5, <1>6, <1>9
  <2>3. x.task[Owner(i)].result \subseteq n.task[Owner(i)].result
    <3>1. Owner(i) \in Tasks
      BY <1>2, <1>9 DEF Inv, OpFits
    <3> QED BY <1>2, <1>4, <3>1
  <2> QED BY <1>2, <2>1, <2>2, <2>3, OpStays
<1>10. ~Landed(x, id)
  <2>1. x.op[id].result # {} => Source(id) \subseteq x.op[id].result
    BY DEF Inv, OpFits
  <2> QED BY <1>1, <2>1 DEF Landed, OpIdle, Shown, Missing
<1>11. \A t \in Tasks : ~LandedOf(x, t)
  BY <1>6, <1>10 DEF LandedOf, Landed
<1>12. TaskIdle(n, o, can, turns)
  <2>1. Missing(n, n.task[o].result, o) /\ Missing(n, n.task[o].head, o)
    BY <1>1, <1>4, <1>7, Grows
  <2>2. n.task[o].running => n.task[o].merge \in {"none", "blocked"}
    BY <1>4
  <2> QED BY <1>1, <1>4, <2>1, <2>2 DEF TaskIdle
<1>13. ASSUME NEW t \in Tasks, t # o PROVE TaskIdle(n, t, can, turns)
  BY <1>2, <1>11, <1>13, TaskStays DEF Resting
<1>14. Resting(n, can, turns)
  BY <1>2, <1>8, <1>9, <1>12, <1>13 DEF Resting
<1>15. Placed(n, can)
  BY <1>2 DEF Placed, Idle, Working
<1>16. Ends(x, n)
  BY <1>2, <1>4 DEF Ends
<1> QED BY <1>14, <1>15, <1>16 DEF Idling

\* An integration is over; what it adds to the target is the delivery.
Merging(x, n, id, target) ==
  /\ Writes(x, n, id) /\ n.w = Idle
  /\ n.check = x.check /\ n.commands = x.commands /\ n.target = target
  /\ n.op[id].state = "completed"
  /\ \A f \in OpFields : f \notin {"state", "result"} => n.op[id][f] = x.op[id][f]
  /\ n.task[Owner(id)].merge = "merged" /\ n.task[Owner(id)].status = "done"
  /\ ~n.task[Owner(id)].running
  /\ \A f \in TaskFields : f \notin {"merge", "status", "running", "merged"} =>
       n.task[Owner(id)][f] = x.task[Owner(id)][f]

LEMMA MergingIdle ==
  ASSUME NEW x, NEW n, NEW id \in DOMAIN x.op, NEW can, NEW turns,
         Inv(x), Resting(x, can, turns), Current(x, id), ~x.task[Owner(id)].running,
         NEW target, Merging(x, n, id, target), x.target \subseteq target,
         Within(target, x.target \cup Source(id))
  PROVE  Idling(n, can, turns) /\ Ends(x, n)
<1> DEFINE o == Owner(id)
<1>1. /\ o \in Tasks /\ Source(id) \subseteq x.task[o].head
      /\ OpIdle(x, id, can) /\ TaskIdle(x, o, can, turns)
      /\ \A i \in DOMAIN x.op : Current(x, i) => i = id
  BY HandFacts
<1>2. /\ DOMAIN n.op = DOMAIN x.op
      /\ \A i \in DOMAIN x.op : i # id => n.op[i] = x.op[i]
      /\ \A u \in Tasks : u # o => n.task[u] = x.task[u]
      /\ n.check = x.check /\ n.target = target /\ n.commands = x.commands /\ n.w = Idle
  BY DEF Merging, Writes
<1>3. /\ n.op[id].state = "completed" /\ n.op[id].tree = x.op[id].tree
      /\ n.op[id].head = x.op[id].head /\ n.op[id].turn = x.op[id].turn
      /\ n.op[id].clean = x.op[id].clean /\ n.op[id].thread = x.op[id].thread
  BY DEF Merging, OpFields
<1>4. /\ n.task[o].merge = "merged" /\ n.task[o].status = "done" /\ ~n.task[o].running
      /\ n.task[o].paused = x.task[o].paused
      /\ n.task[o].result = x.task[o].result /\ n.task[o].head = x.task[o].head
  BY DEF Merging, TaskFields
<1>5. \A i \in DOMAIN n.op : ~Current(n, i) /\ n.op[i].state # "publishing"
  <2>1. ~Working(n)
    BY <1>2 DEF Working, Idle
  <2>2. \A i \in DOMAIN x.op : x.op[i].state \in Interrupted => i = id
    BY <1>1 DEF Current
  <2>3. "completed" \notin Interrupted /\ "publishing" \in Interrupted
    BY DEF Interrupted, Held
  <2> QED BY <1>2, <1>3, <2>1, <2>2, <2>3 DEF Current
<1>6. ASSUME NEW i \in DOMAIN n.op PROVE OpIdle(n, i, can)
  <2>1. OpIdle(x, i, can) /\ Owner(i) \in Tasks
    BY <1>2 DEF Resting, Inv, OpFits
  <2>2. /\ n.op[i].tree = x.op[i].tree /\ n.op[i].head = x.op[i].head
        /\ n.op[i].turn = x.op[i].turn /\ n.op[i].clean = x.op[i].clean
        /\ n.op[i].thread = x.op[i].thread
        /\ n.op[i].state = x.op[i].state \/ n.op[i].state = "completed"
    BY <1>2, <1>3
  <2>3. n.task[Owner(i)].result = x.task[Owner(i)].result
    BY <1>2, <1>4, <2>1
  <2>4. Candidate(n, i)
    BY <1>2, <2>1, <2>2, <2>3 DEF OpIdle, Candidate
  <2>5. Mended(n, i) /\ Told(n, i, can)
    BY <2>1, <2>2 DEF OpIdle, Mended, Told
  <2> QED BY <1>5, <2>4, <2>5 DEF OpIdle, Shown, Due
<1>7. TaskIdle(n, o, can, turns)
  BY <1>1, <1>4 DEF TaskIdle, Waits
<1>8. ASSUME NEW t \in Tasks, t # o PROVE TaskIdle(n, t, can, turns)
  <2>1. TaskIdle(x, t, can, turns) /\ n.task[t] = x.task[t]
    BY <1>2, <1>8 DEF Resting
  <2>2. ~LandedOf(x, t)
    BY <1>1, <1>8 DEF LandedOf, Landed, Current, Interrupted
  <2>3. \A e \in x.task[t].head : e[1] = t /\ e \in target => e \in x.target
    BY <1>1, <1>8 DEF TaskIdle, Within
  <2>4. Missing(x, x.task[t].head, t) => Missing(n, x.task[t].head, t)
    BY <1>2, <2>3 DEF Missing
  <2>5. Missing(x, x.task[t].result, t) => Missing(n, x.task[t].result, t)
    <3>1. x.task[t].result \subseteq x.task[t].head
      BY DEF Inv, TaskFits
    <3> QED BY <1>2, <2>3, <3>1 DEF Missing
  <2> QED BY <2>1, <2>2, <2>4, <2>5 DEF TaskIdle
<1>9. Past(target, turns)
  BY <1>1 DEF Resting, Past, Within, TaskIdle
<1>10. Resting(n, can, turns)
  BY <1>2, <1>6, <1>7, <1>8, <1>9 DEF Resting
<1>11. Placed(n, can)
  BY <1>2 DEF Placed, Idle, Working
<1>12. Ends(x, n)
  BY <1>2 DEF Ends
<1> QED BY <1>10, <1>11, <1>12 DEF Idling

\* The worker holds an operation that is not published yet.
Carries(x, id, can, turns) ==
  /\ Resting(x, can, turns) /\ Missing(x, Source(id), Owner(id))
  /\ Answered(can) => x.w.recovering \/ x.op[id].state \notin Held

\* What a failure writes.
LEMMA FailsAt ==
  ASSUME NEW x, Shape(x), NEW id \in DOMAIN x.op, Owner(id) \in Tasks, x.w.op = id
  PROVE  Ending(x, Fails(x), id, IF x.op[id].state \in Kept(x) THEN x.op[id].state ELSE "blocked",
                "blocked")
<1> DEFINE state == IF x.op[id].state \in Kept(x) THEN x.op[id].state ELSE "blocked"
<1>1. Fails(x) = Done(SetMerge(SetOp(x, id, state), Owner(id), "blocked"))
  BY DEF Fails, Kept
<1>2. state \in Operations /\ "blocked" \in Merges
  BY Members DEF Shape
<1> HIDE DEF state
<1>3. Ending(x, Fails(x), id, state, "blocked")
  BY <1>1, <1>2, EndsAt DEF Ending
<1> QED BY <1>3 DEF state

\* A state that differs in the state and the result of the operation.
Recording(x, y, id) ==
  /\ Writes(x, y, id) /\ SameRest(x, y) /\ y.task = x.task /\ y.w = x.w
  /\ \A f \in OpFields : f \notin {"state", "result"} => y.op[id][f] = x.op[id][f]

LEMMA EndingFrom ==
  ASSUME NEW x, NEW y, NEW n, NEW id \in DOMAIN x.op, NEW state, NEW merge,
         Recording(x, y, id), Ending(y, n, id, state, merge)
  PROVE  Ending(x, n, id, state, merge)
<1>1. Writes(x, n, id) /\ SameRest(x, n) /\ n.w = Idle
  BY DEF Recording, Ending, Writes, SameRest
<1> QED BY <1>1 DEF Recording, Ending

\* While an operation goes on, only a task whose turns nobody starts may have one running
\* beside a repair that is kept.
LEMMA KeptIdle ==
  ASSUME NEW x, NEW id \in DOMAIN x.op, NEW can, NEW turns, Prudent(can), Inv(x),
         Resting(x, can, turns), ~Answered(can)
  PROVE  ~x.task[Owner(id)].running
<1>1. /\ Owner(id) \in Tasks /\ Source(id) # {} /\ Source(id) \subseteq x.task[Owner(id)].result
  BY DEF Inv, OpFits, Resting, OpIdle, Candidate
<1>2. Undisturbed(can)
  BY DEF Prudent, Answered, Undisturbed
<1> QED BY <1>1, <1>2 DEF Resting, TaskIdle

LEMMA FailsIdle ==
  ASSUME NEW x, NEW id \in DOMAIN x.op, NEW can, NEW turns, Prudent(can), Inv(x),
         Working(x), x.w.op = id, Carries(x, id, can, turns)
  PROVE  Idling(Fails(x), can, turns) /\ Ends(x, Fails(x))
<1> DEFINE state == IF x.op[id].state \in Kept(x) THEN x.op[id].state ELSE "blocked"
<1>1. Shape(x) /\ Owner(id) \in Tasks /\ Current(x, id)
  BY DEF Inv, OpFits, Current
<1>2. Ending(x, Fails(x), id, state, "blocked")
  BY <1>1, FailsAt
<1>3. Answered(can) => x.op[id].state \notin Kept(x)
  BY DEF Carries, Kept, Resting, OpIdle, Told
<1>4. state \in Interrupted => ~x.task[Owner(id)].running
  <2>1. state \in Interrupted => x.op[id].state \in Kept(x)
    BY DEF Interrupted, Held
  <2> QED BY <1>3, <2>1, KeptIdle DEF Carries
<1>5. state # "publishing" /\ (Answered(can) => state # "waiting_quota")
  BY <1>3 DEF Kept, Held
<1> HIDE DEF state
<1> QED BY <1>1, <1>2, <1>4, <1>5, EndingIdle DEF Carries

\* ... and hands it on: the worker works on it, and a task that waits to be merged is idle.
Hand(x, id, can, turns) ==
  id \in DOMAIN x.op /\ Handles(x, id, FALSE) /\ Carries(x, id, can, turns)

LEMMA MergingIsIdle ==
  ASSUME NEW x, NEW id, NEW can, NEW turns, Hand(x, id, can, turns), StillWanted(x, id)
  PROVE  ~x.task[Owner(id)].running
<1>1. Owner(id) \in Tasks
  BY DEF Hand, Handles, Good, Inv, OpFits
<1> QED BY <1>1 DEF Hand, Handles, Good, Carries, Resting, TaskIdle, StillWanted

LEMMA SupersededIdle ==
  ASSUME NEW x, NEW id, NEW can, NEW turns, Hand(x, id, can, turns), StillWanted(x, id)
  PROVE  Idling(Superseded(x, id), can, turns) /\ Ends(x, Superseded(x, id))
<1>1. Shape(x) /\ Owner(id) \in Tasks /\ Current(x, id) /\ id \in DOMAIN x.op
  BY DEF Hand, Handles, Good, Inv, OpFits, Current
<1>2. Ending(x, Superseded(x, id), id, "superseded", "queued")
  BY <1>1, Members, EndsAt DEF Superseded, Ending
<1>3. Inv(x) /\ Resting(x, can, turns) /\ Missing(x, Source(id), Owner(id))
  BY DEF Hand, Handles, Good, Carries
<1>4. ~x.task[Owner(id)].running
  BY MergingIsIdle
<1> HIDE DEF Superseded
<1> QED BY <1>1, <1>2, <1>3, <1>4, EndingIdle

\* A verification begins that has not passed before.
LEMMA VerifiesIdle ==
  ASSUME NEW x, NEW id, NEW can, NEW turns, Hand(x, id, can, turns), x.op[id].tree = "ready",
         NEW key, key \notin DOMAIN x.check \/ x.check[key] # "passed"
  PROVE  Idling(Verifies(x, key), can, turns) /\ Ends(x, Verifies(x, key))
<1> DEFINE n == Verifies(x, key)
<1>1. /\ n.task = x.task /\ n.op = x.op /\ n.target = x.target /\ n.commands = x.commands
      /\ n.w.pc = "verify" /\ n.w.check = key /\ n.w.op = id /\ n.w.recovering = x.w.recovering
  BY CheckAt DEF Hand, Handles, Good, Inv
<1>2. n.check = Recorded(x.check, key, "running")
  BY DEF Verifies, Hand, Handles, Good, Inv, Shape, StateFields
<1>3. n.check[key] = "running"
  BY <1>2 DEF Recorded
<1>4. \A k \in DOMAIN x.check : x.check[k] = "passed" => k \in DOMAIN n.check /\ n.check[k] = "passed"
  BY <1>2 DEF Recorded
<1> HIDE DEF n
<1>5. ASSUME NEW i \in DOMAIN n.op PROVE OpIdle(n, i, can)
  <2>1. OpIdle(x, i, can)
    BY <1>1 DEF Hand, Handles, Good, Carries, Resting
  <2>2. Current(n, i) => Current(x, i)
    BY <1>1 DEF Current, Hand, Handles, Good, Working
  <2>3. x.op[i].state = "publishing" => ~n.task[Owner(i)].running /\ Evidence(n, i)
    BY <1>1, <1>4, <2>1 DEF OpIdle, Shown, Evidence
  <2>4. Current(x, i) /\ x.task[Owner(i)].running => x.task[Owner(i)].merge = "none"
    BY <2>1 DEF OpIdle, Due
  <2> QED BY <1>1, <2>1, <2>2, <2>3, <2>4, OpStays
<1>6. ASSUME NEW t \in Tasks PROVE TaskIdle(n, t, can, turns)
  BY <1>1, TaskStays DEF Hand, Handles, Good, Carries, Resting, LandedOf, Landed
<1>7. Resting(n, can, turns)
  BY <1>1, <1>5, <1>6 DEF Hand, Handles, Good, Carries, Resting
<1>8. ~Landed(n, id)
  <2>1. x.op[id].result # {} => Source(id) \subseteq x.op[id].result
    BY DEF Hand, Handles, Good, Inv, OpFits
  <2>2. OpIdle(x, id, can) /\ Missing(x, Source(id), Owner(id))
    BY DEF Hand, Handles, Good, Carries, Resting
  <2> QED BY <1>1, <2>1, <2>2 DEF Landed, OpIdle, Shown, Missing
<1>9. Placed(n, can)
  BY <1>1, <1>3, <1>8 DEF Placed, Hand, Handles, Good, Carries
<1>10. Idling(n, can, turns) /\ Ends(x, n)
  BY <1>1, <1>7, <1>9 DEF Idling, Ends
<1> QED BY <1>10 DEF n

\* The worker turns to the session that repairs the conflict.
LEMMA ThreadIdle ==
  ASSUME NEW x, NEW id, NEW can, NEW turns, Hand(x, id, can, turns), x.op[id].tree = "ready",
         ~x.op[id].clean, Answered(can) => ~x.w.recovering,
         NEW n, n = [x EXCEPT !.w.pc = "thread"]
  PROVE  Idling(n, can, turns) /\ Ends(x, n)
<1>1. /\ n.op = x.op /\ n.task = x.task /\ n.target = x.target /\ n.commands = x.commands
      /\ n.check = x.check
      /\ n.w.pc = "thread" /\ n.w.op = id /\ n.w.recovering = x.w.recovering
  BY DEF Hand, Handles, Good, Inv, Shape, StateFields, WorkerFields
<1>2. ASSUME NEW i \in DOMAIN n.op PROVE OpIdle(n, i, can)
  <2>1. OpIdle(x, i, can)
    BY <1>1 DEF Hand, Handles, Good, Carries, Resting
  <2>2. Current(n, i) => Current(x, i)
    BY <1>1 DEF Current, Hand, Handles, Good, Working
  <2>3. x.op[i].state = "publishing" => ~n.task[Owner(i)].running /\ Evidence(n, i)
    BY <1>1, <2>1 DEF OpIdle, Shown, Evidence
  <2>4. Current(x, i) /\ x.task[Owner(i)].running => x.task[Owner(i)].merge = "none"
    BY <2>1 DEF OpIdle, Due
  <2> QED BY <1>1, <2>1, <2>2, <2>3, <2>4, OpStays
<1>3. ASSUME NEW t \in Tasks PROVE TaskIdle(n, t, can, turns)
  BY <1>1, TaskStays DEF Hand, Handles, Good, Carries, Resting, LandedOf, Landed
<1>4. Resting(n, can, turns)
  BY <1>1, <1>2, <1>3 DEF Hand, Handles, Good, Carries, Resting
<1>5. ~Landed(n, id)
  <2>1. x.op[id].result # {} => Source(id) \subseteq x.op[id].result
    BY DEF Hand, Handles, Good, Inv, OpFits
  <2>2. OpIdle(x, id, can) /\ Missing(x, Source(id), Owner(id))
    BY DEF Hand, Handles, Good, Carries, Resting
  <2> QED BY <1>1, <2>1, <2>2 DEF Landed, OpIdle, Shown, Missing
<1>6. Placed(n, can)
  BY <1>1, <1>5 DEF Placed
<1> QED BY <1>1, <1>4, <1>6 DEF Idling, Ends

\* Only a task that is being merged is ended by a publication.
LEMMA PublishIdle ==
  ASSUME NEW x, NEW id, NEW can, NEW turns, Prudent(can), Hand(x, id, can, turns),
         StillWanted(x, id), Acceptable(x, id), x.target = Target(id)
  PROVE  Idling(Publish(x, id), can, turns) /\ Ends(x, Publish(x, id))
<1> DEFINE result == x.op[id].head
           y == Publishing(x, id)
           z == [y EXCEPT !.target = result]
           n == Publish(x, id)
<1>1. /\ Shape(x) /\ Owner(id) \in Tasks /\ Current(x, id) /\ id \in DOMAIN x.op
      /\ Inv(x) /\ Resting(x, can, turns) /\ Missing(x, Source(id), Owner(id))
      /\ x.w.op = id /\ OpIdle(x, id, can)
  BY DEF Hand, Handles, Good, Carries, Inv, OpFits, Current, Resting
<1>2. ~x.task[Owner(id)].running
  BY MergingIsIdle
<1>3. /\ Writes(x, y, id) /\ SameRest(x, y) /\ y.task = x.task /\ y.w = x.w
      /\ y.op[id].state = "publishing"
      /\ \A f \in OpFields : f \notin {"state", "result"} => y.op[id][f] = x.op[id][f]
  BY <1>1, ResultAt
<1>4. n = IF ~CheckoutClean(x) THEN Fails(y) ELSE Merged(z, id, result)
  BY DEF Publish
<1> HIDE DEF n, y, result
<1>5. ASSUME ~CheckoutClean(x) PROVE Idling(n, can, turns) /\ Ends(x, n)
  <2>1. Shape(y) /\ id \in DOMAIN y.op /\ y.w.op = id
    BY <1>1, <1>3 DEF Writes
  <2>2. y.op[id].state \notin Kept(y)
    BY <1>3 DEF Kept, Held
  <2>3. Ending(y, n, id, "blocked", "blocked")
    BY <1>1, <1>4, <1>5, <2>1, <2>2, FailsAt
  <2>4. Ending(x, n, id, "blocked", "blocked")
    BY <1>1, <1>3, <2>3, EndingFrom DEF Recording
  <2>5. "blocked" \in {"blocked", "queued"} /\ "blocked" # "publishing" /\ "blocked" # "waiting_quota"
    OBVIOUS
  <2> QED BY <1>1, <1>2, <2>4, <2>5, EndingIdle, Zenon
<1>6. ASSUME CheckoutClean(x) PROVE Idling(n, can, turns) /\ Ends(x, n)
  <2>1. /\ Shape(z) /\ z.target = result /\ z.op = y.op /\ z.task = y.task
        /\ z.check = x.check /\ z.commands = x.commands
    BY <1>3 DEF Writes, SameRest, Shape, StateFields
  <2>2. n = Merged(z, id, result)
    BY <1>4, <1>6
  <2> HIDE DEF z
  <2>3. id \in DOMAIN z.op
    BY <1>1, <1>3, <2>1 DEF Writes
  <2>4. /\ Writes(z, n, id) /\ SameRest(z, n) /\ n.w = Idle
        /\ n.op[id].state = "completed"
        /\ \A f \in OpFields : f \notin {"state", "result"} => n.op[id][f] = z.op[id][f]
        /\ n.task[Owner(id)].merge = "merged" /\ n.task[Owner(id)].status = "done"
        /\ ~n.task[Owner(id)].running
        /\ \A f \in TaskFields : f \notin {"merge", "status", "running", "merged"} =>
             n.task[Owner(id)][f] = z.task[Owner(id)][f]
    BY <1>1, <2>1, <2>2, <2>3, MergedAt
  <2>5. Merging(x, n, id, result)
    <3>1. Writes(x, n, id)
      BY <1>3, <2>1, <2>4 DEF Writes
    <3>2. n.check = x.check /\ n.commands = x.commands /\ n.target = result
      BY <2>1, <2>4 DEF SameRest
    <3> QED BY <1>3, <2>1, <2>4, <3>1, <3>2 DEF Merging
  <2>6. x.target \subseteq result /\ Within(result, x.target \cup Source(id))
    BY <1>1 DEF Acceptable, OpIdle, Candidate, Within, result
  <2> QED BY <1>1, <1>2, <2>5, <2>6, MergingIdle
<1> QED BY <1>5, <1>6 DEF n

LEMMA SecondPassIdle ==
  ASSUME NEW x, NEW id, NEW can, NEW turns, Prudent(can), Hand(x, id, can, turns), NEW checked
  PROVE  Idling(SecondPass(x, id, checked), can, turns) /\ Ends(x, SecondPass(x, id, checked))
<1>1. Idling(Fails(x), can, turns) /\ Ends(x, Fails(x))
  BY FailsIdle DEF Hand, Handles, Good
<1>2. CASE ~StillWanted(x, id) \/ ~Acceptable(x, id) \/ ~Unchanged(x, id)
  BY <1>1, <1>2 DEF SecondPass
<1>3. CASE StillWanted(x, id) /\ Acceptable(x, id) /\ Unchanged(x, id) /\ x.target # Target(id)
  BY <1>3, SupersededIdle DEF SecondPass
<1>4. CASE StillWanted(x, id) /\ Acceptable(x, id) /\ Unchanged(x, id) /\ x.target = Target(id)
  BY <1>1, <1>4, PublishIdle DEF SecondPass
<1> QED BY <1>2, <1>3, <1>4

LEMMA FirstPassIdle ==
  ASSUME NEW x, NEW id, NEW can, NEW turns, Prudent(can), Hand(x, id, can, turns),
         x.op[id].tree = "ready"
  PROVE  Idling(FirstPass(x, id), can, turns) /\ Ends(x, FirstPass(x, id))
<1> DEFINE key == CheckId(x, id)
           state == IF key \in DOMAIN x.check THEN x.check[key] ELSE "none"
<1>1. Idling(Fails(x), can, turns) /\ Ends(x, Fails(x))
  BY FailsIdle DEF Hand, Handles, Good
<1>2. CASE ~StillWanted(x, id) \/ ~Acceptable(x, id) \/ ~Unchanged(x, id)
  BY <1>1, <1>2 DEF FirstPass
<1>3. CASE StillWanted(x, id) /\ Acceptable(x, id) /\ Unchanged(x, id) /\ x.target # Target(id)
  BY <1>3, SupersededIdle DEF FirstPass
<1>4. CASE StillWanted(x, id) /\ Acceptable(x, id) /\ Unchanged(x, id) /\ x.target = Target(id)
  <2>1. \/ FirstPass(x, id) = Fails(x)
        \/ FirstPass(x, id) = SecondPass(x, id, key)
        \/ state # "passed" /\ FirstPass(x, id) = Verifies(x, key)
    BY <1>4 DEF FirstPass
  <2>2. state # "passed" => key \notin DOMAIN x.check \/ x.check[key] # "passed"
    OBVIOUS
  <2> HIDE DEF key, state
  <2>3. state # "passed" => Idling(Verifies(x, key), can, turns) /\ Ends(x, Verifies(x, key))
    BY <2>2, VerifiesIdle
  <2> QED BY <1>1, <2>1, <2>3, SecondPassIdle
<1> QED BY <1>2, <1>3, <1>4

\* What leads from x to n after another write.
LEMMA EndsAfter ==
  ASSUME NEW x, NEW y, NEW n, Ends(y, n),
         \A t \in Tasks : y.task[t].status = x.task[t].status /\ y.task[t].running = x.task[t].running
  PROVE  Ends(x, n)
BY DEF Ends

\* A blocked integration goes on only while no turn runs.
LEMMA AgainHand ==
  ASSUME NEW x, NEW id, NEW can, NEW turns, Hand(x, id, can, turns),
         x.task[Owner(id)].merge = "blocked"
  PROVE  LET n == SetMerge(x, Owner(id), "merging") IN
         /\ Hand(n, id, can, turns) /\ n.op = x.op /\ n.w = x.w
         /\ \A t \in Tasks : n.task[t].status = x.task[t].status /\ n.task[t].running = x.task[t].running
<1> DEFINE o == Owner(id)
           n == SetMerge(x, o, "merging")
<1>1. Handles(n, id, FALSE)
  BY AgainHandles DEF Hand
<1>2. /\ Inv(x) /\ Shape(x) /\ o \in Tasks /\ Current(x, id) /\ id \in DOMAIN x.op
      /\ Resting(x, can, turns) /\ Missing(x, Source(id), o) /\ x.w.op = id /\ Working(x)
      /\ Answered(can) => x.w.recovering \/ x.op[id].state \notin Held
  BY DEF Hand, Handles, Good, Carries, Inv, OpFits, Current
<1>3. /\ SameRest(x, n) /\ n.op = x.op /\ n.w = x.w
      /\ \A u \in Tasks : u # o => n.task[u] = x.task[u]
      /\ n.task[o].merge = "merging"
      /\ \A f \in TaskFields : f # "merge" => n.task[o][f] = x.task[o][f]
  BY <1>2, Members, SetMergeAt
<1> HIDE DEF n
<1>4. /\ n.task[o].result = x.task[o].result /\ n.task[o].head = x.task[o].head
      /\ n.task[o].running = x.task[o].running /\ n.task[o].status = x.task[o].status
      /\ n.task[o].paused = x.task[o].paused
  BY <1>3 DEF TaskFields
<1>5. ~x.task[o].running
  BY <1>2 DEF Resting, OpIdle, Due
<1>6. ASSUME NEW i \in DOMAIN n.op PROVE OpIdle(n, i, can)
  <2>1. OpIdle(x, i, can) /\ Owner(i) \in Tasks
    BY <1>2, <1>3 DEF Resting, Inv, OpFits
  <2>2. /\ n.task[Owner(i)].result = x.task[Owner(i)].result
        /\ n.task[Owner(i)].running = x.task[Owner(i)].running
        /\ n.task[Owner(i)].running => n.task[Owner(i)].merge = x.task[Owner(i)].merge
    BY <1>3, <1>4, <1>5, <2>1
  <2>3. Current(n, i) = Current(x, i)
    BY <1>3 DEF Current, Working
  <2>4. Evidence(n, i) = Evidence(x, i)
    BY <1>3 DEF Evidence, SameRest
  <2> QED BY <1>3, <2>1, <2>2, <2>3, <2>4, OpStays DEF OpIdle, Due, Shown, SameRest
<1>7. TaskIdle(n, o, can, turns)
  <2>1. TaskIdle(x, o, can, turns)
    BY <1>2 DEF Resting
  <2>2. LandedOf(n, o) = LandedOf(x, o)
    BY <1>3 DEF LandedOf, Landed, SameRest
  <2> QED BY <1>2, <1>3, <1>4, <1>5, <2>1, <2>2 DEF TaskIdle, Missing, SameRest, Waits
<1>8. ASSUME NEW t \in Tasks, t # o PROVE TaskIdle(n, t, can, turns)
  <2>1. TaskIdle(x, t, can, turns)
    BY <1>2 DEF Resting
  <2>2. LandedOf(n, t) = LandedOf(x, t)
    BY <1>3 DEF LandedOf, Landed, SameRest
  <2> QED BY <1>3, <1>8, <2>1, <2>2, TaskStays DEF SameRest
<1>9. Resting(n, can, turns)
  BY <1>2, <1>3, <1>6, <1>7, <1>8 DEF Resting, SameRest
<1>10. Hand(n, id, can, turns)
  BY <1>1, <1>2, <1>3, <1>9 DEF Hand, Carries, Missing, SameRest
<1> QED BY <1>3, <1>4, <1>10 DEF n

LEMMA ContinuedIdle ==
  ASSUME NEW x, NEW id, NEW can, NEW turns, Prudent(can), Hand(x, id, can, turns)
  PROVE  Idling(Continued(x, id), can, turns) /\ Ends(x, Continued(x, id))
<1> DEFINE t == x.task[Owner(id)]
           again == IF t.merge = "blocked" /\ t.op = id /\ ~t.paused
                      THEN SetMerge(x, Owner(id), "merging") ELSE x
<1>1. CASE x.op[id].tree # "ready"
  BY <1>1, FailsIdle DEF Continued, Hand, Handles, Good
<1>2. CASE x.op[id].tree = "ready"
  <2>1. ~(x.op[id].result # {} /\ x.op[id].result \subseteq x.target)
    <3>1. x.op[id].result # {} => Source(id) \subseteq x.op[id].result
      BY DEF Hand, Handles, Good, Inv, OpFits
    <3> QED BY <3>1 DEF Hand, Carries, Missing
  <2>2. Continued(x, id) = FirstPass(again, id)
    BY <1>2, <2>1 DEF Continued
  <2>3. /\ Hand(again, id, can, turns) /\ again.op = x.op
        /\ \A u \in Tasks : again.task[u].status = x.task[u].status
                            /\ again.task[u].running = x.task[u].running
    BY AgainHand
  <2> HIDE DEF again
  <2>4. /\ Idling(FirstPass(again, id), can, turns) /\ Ends(again, FirstPass(again, id))
    BY <1>2, <2>3, FirstPassIdle
  <2> QED BY <2>2, <2>3, <2>4, EndsAfter
<1> QED BY <1>1, <1>2

\* One operation is written, which goes on as before.
LEMMA OneOpIdle ==
  ASSUME NEW x, NEW n, NEW id \in DOMAIN x.op, NEW can, NEW turns, Resting(x, can, turns),
         SameRest(x, n), n.task = x.task, DOMAIN n.op = DOMAIN x.op,
         \A i \in DOMAIN x.op : i # id => n.op[i] = x.op[i],
         \A i \in DOMAIN x.op : Current(n, i) => Current(x, i),
         Landed(x, id) => Landed(n, id), OpIdle(n, id, can)
  PROVE  Resting(n, can, turns)
<1>1. ASSUME NEW i \in DOMAIN n.op, i # id PROVE OpIdle(n, i, can)
  <2>1. OpIdle(x, i, can) /\ n.op[i] = x.op[i]
    BY <1>1 DEF Resting
  <2>2. x.op[i].state = "publishing" => ~n.task[Owner(i)].running /\ Evidence(n, i)
    BY <2>1 DEF OpIdle, Shown, Evidence, SameRest
  <2>3. Current(x, i) /\ x.task[Owner(i)].running => x.task[Owner(i)].merge = "none"
    BY <2>1 DEF OpIdle, Due
  <2> QED BY <1>1, <2>1, <2>2, <2>3, OpStays DEF SameRest
<1>2. ASSUME NEW i \in DOMAIN x.op, Landed(x, i) PROVE Landed(n, i)
  BY <1>2 DEF Landed, SameRest
<1>3. ASSUME NEW t \in Tasks PROVE TaskIdle(n, t, can, turns)
  <2>1. LandedOf(x, t) => LandedOf(n, t)
    BY <1>2 DEF LandedOf
  <2> QED BY <2>1, TaskStays DEF Resting, SameRest
<1> QED BY <1>1, <1>3 DEF Resting, SameRest

LEMMA GoesOnIdle ==
  ASSUME NEW x, NEW id, NEW can, NEW turns, Prudent(can), Hand(x, id, can, turns),
         x.op[id].tree = "ready"
  PROVE  Idling(GoesOn(x, id), can, turns) /\ Ends(x, GoesOn(x, id))
BY ContinuedIdle, FirstPassIdle DEF GoesOn

LEMMA ResolveIdle ==
  ASSUME NEW x, NEW id, NEW can, NEW turns, Prudent(can), Hand(x, id, can, turns),
         x.op[id].tree = "ready", Answered(can) => ~x.w.recovering,
         x.op[id].clean => Source(id) \subseteq x.op[id].head
  PROVE  Idling(Resolve(x, id), can, turns) /\ Ends(x, Resolve(x, id))
<1>1. CASE Source(id) \subseteq x.op[id].head /\ x.op[id].clean
  BY <1>1, GoesOnIdle DEF Resolve
<1>2. CASE ~(Source(id) \subseteq x.op[id].head /\ x.op[id].clean)
  <2>1. Resolve(x, id) = [x EXCEPT !.w.pc = "thread"] /\ ~x.op[id].clean
    BY <1>2 DEF Resolve
  <2> QED BY <2>1, ThreadIdle
<1> QED BY <1>1, <1>2

\* The candidate of an operation that is not published yet is written.
LEMMA CandidateHand ==
  ASSUME NEW x, NEW id, NEW can, NEW turns, Hand(x, id, can, turns), x.op[id].state # "publishing",
         NEW n, Alike(x, n), \A i \in DOMAIN x.op : i # id => n.op[i] = x.op[i],
         Within(n.op[id].head, Source(id) \cup Target(id)), Mended(n, id)
  PROVE  Hand(n, id, can, turns)
<1>1. Handles(n, id, FALSE)
  BY AlikeHandles DEF Hand
<1>2. /\ id \in DOMAIN x.op /\ Resting(x, can, turns) /\ OpIdle(x, id, can)
      /\ Missing(x, Source(id), Owner(id))
      /\ Answered(can) => x.w.recovering \/ x.op[id].state \notin Held
  BY DEF Hand, Carries, Resting
<1>3. \A i \in DOMAIN x.op : Current(n, i) => Current(x, i)
  BY DEF Alike, Current, Working
<1>4. OpIdle(n, id, can)
  <2>1. Candidate(n, id)
    BY <1>2 DEF OpIdle, Candidate, Alike, SameRest
  <2>2. Shown(n, id, can) /\ Told(n, id, can)
    BY <1>2 DEF OpIdle, Shown, Told, Alike
  <2>3. Due(n, id)
    BY <1>2, <1>3 DEF OpIdle, Due, Missing, Landed, Alike, SameRest
  <2> QED BY <2>1, <2>2, <2>3 DEF OpIdle
<1>5. Resting(n, can, turns)
  BY <1>2, <1>3, <1>4, OneOpIdle DEF Alike, Landed
<1> QED BY <1>1, <1>2, <1>5 DEF Hand, Carries, Alike, SameRest, Missing

LEMMA IntegratesIdle ==
  ASSUME NEW x, NEW id, NEW can, NEW turns, Prudent(can), Hand(x, id, can, turns),
         x.op[id].tree = "ready", x.op[id].state # "publishing",
         Answered(can) => ~x.w.recovering, NEW conflict
  PROVE  Idling(Integrates(x, id, conflict), can, turns) /\ Ends(x, Integrates(x, id, conflict))
<1> DEFINE y == [x EXCEPT !.op[id].clean = FALSE]
           z == [x EXCEPT !.op[id].head = @ \cup Source(id)]
<1>1. Shape(x) /\ id \in DOMAIN x.op /\ OpIdle(x, id, can)
  BY DEF Hand, Handles, Good, Inv, Carries, Resting
<1>2. CASE Source(id) \subseteq x.op[id].head
  BY <1>2, FirstPassIdle DEF Integrates
<1>3. CASE Source(id) \notin SUBSET x.op[id].head /\ ~x.op[id].clean
  BY <1>3, ResolveIdle DEF Integrates
<1>4. CASE Source(id) \notin SUBSET x.op[id].head /\ x.op[id].clean
  <2>1. x.op[id].turn # "completed" /\ ~x.op[id].thread
    BY <1>1, <1>4 DEF OpIdle, Mended
  <2>2. CASE conflict
    <3>1. Integrates(x, id, conflict) = Resolve(y, id)
      BY <1>4, <2>2 DEF Integrates
    <3>2. /\ Alike(x, y) /\ y.task = x.task /\ y.w = x.w
          /\ \A i \in DOMAIN x.op : i # id => y.op[i] = x.op[i]
          /\ y.op[id].head = x.op[id].head /\ ~y.op[id].clean
          /\ y.op[id].tree = x.op[id].tree /\ y.op[id].turn = x.op[id].turn
          /\ y.op[id].thread = x.op[id].thread
      BY <1>1 DEF Alike, Shape, SameRest, StateFields, OpFields
    <3> HIDE DEF y
    <3>3. Within(y.op[id].head, Source(id) \cup Target(id)) /\ Mended(y, id)
      BY <1>1, <2>1, <3>2 DEF OpIdle, Candidate, Mended
    <3>4. Hand(y, id, can, turns)
      BY <3>2, <3>3, CandidateHand
    <3>5. Idling(Resolve(y, id), can, turns) /\ Ends(y, Resolve(y, id))
      BY <3>2, <3>4, ResolveIdle
    <3> QED BY <3>1, <3>2, <3>5, EndsAfter
  <2>3. CASE ~conflict
    <3>1. Integrates(x, id, conflict) = Resolve(z, id)
      BY <1>4, <2>3 DEF Integrates
    <3>2. /\ Alike(x, z) /\ z.task = x.task /\ z.w = x.w
          /\ \A i \in DOMAIN x.op : i # id => z.op[i] = x.op[i]
          /\ z.op[id].head = x.op[id].head \cup Source(id) /\ z.op[id].clean
          /\ z.op[id].tree = x.op[id].tree /\ z.op[id].turn = x.op[id].turn
          /\ z.op[id].thread = x.op[id].thread
      BY <1>1, <1>4 DEF Alike, Shape, SameRest, StateFields, OpFields
    <3> HIDE DEF z
    <3>3. Within(z.op[id].head, Source(id) \cup Target(id)) /\ Mended(z, id)
      BY <1>1, <2>1, <3>2 DEF OpIdle, Candidate, Mended, Within
    <3>4. Hand(z, id, can, turns)
      BY <3>2, <3>3, CandidateHand
    <3>5. Idling(Resolve(z, id), can, turns) /\ Ends(z, Resolve(z, id))
      BY <3>2, <3>4, ResolveIdle
    <3> QED BY <3>1, <3>2, <3>5, EndsAfter
  <2> QED BY <2>2, <2>3
<1> QED BY <1>2, <1>3, <1>4

-----------------------------------------------------------------------------
\* What is under way and has not landed is not in the target.
LEMMA NotLanded ==
  ASSUME NEW x, NEW id \in DOMAIN x.op, NEW can, NEW turns, Inv(x), Resting(x, can, turns),
         Current(x, id)
  PROVE  Missing(x, Source(id), Owner(id)) <=> ~Landed(x, id)
<1>1. OpIdle(x, id, can) /\ OpFits(x, id)
  BY DEF Inv, Resting
<1> QED BY <1>1 DEF OpIdle, OpFits, Due, Shown, Landed, Missing

\* The worker is done.
LEMMA DoneIdle ==
  ASSUME NEW x, NEW can, NEW turns, Inv(x), Resting(x, can, turns)
  PROVE  Idling(Done(x), can, turns) /\ Ends(x, Done(x))
<1> DEFINE n == Done(x)
<1>1. SameRest(x, n) /\ n.op = x.op /\ n.task = x.task /\ n.w = Idle
  BY DoneAt DEF Inv
<1> HIDE DEF n
<1>2. ~Working(n)
  BY <1>1 DEF Working, Idle
<1>3. ASSUME NEW i \in DOMAIN n.op PROVE OpIdle(n, i, can)
  <2>1. OpIdle(x, i, can) /\ (Current(n, i) => Current(x, i))
    BY <1>1, <1>2 DEF Resting, Current
  <2>2. x.op[i].state = "publishing" => ~n.task[Owner(i)].running /\ Evidence(n, i)
    BY <1>1, <2>1 DEF OpIdle, Shown, Evidence, SameRest
  <2>3. Current(x, i) /\ x.task[Owner(i)].running => x.task[Owner(i)].merge = "none"
    BY <2>1 DEF OpIdle, Due
  <2> QED BY <1>1, <2>1, <2>2, <2>3, OpStays DEF SameRest
<1>4. ASSUME NEW t \in Tasks PROVE TaskIdle(n, t, can, turns)
  BY <1>1, TaskStays DEF Resting, SameRest, LandedOf, Landed
<1>5. Resting(n, can, turns)
  BY <1>1, <1>3, <1>4 DEF Resting, SameRest
<1>6. Placed(n, can)
  BY <1>1 DEF Placed, Idle, Working
<1>7. Idling(n, can, turns) /\ Ends(x, n)
  BY <1>1, <1>5, <1>6 DEF Idling, Ends
<1> QED BY <1>7 DEF n

\* Evidence, settings or the worker's place are written.
LEMMA RestIdle ==
  ASSUME NEW x, NEW n, NEW can, NEW turns, Resting(x, can, turns),
         n.task = x.task, n.target = x.target, DOMAIN n.op = DOMAIN x.op,
         \A i \in DOMAIN x.op : n.op[i] = x.op[i],
         \A i \in DOMAIN x.op : Current(n, i) => Current(x, i),
         \A i \in DOMAIN x.op : x.op[i].state = "publishing" => Evidence(n, i),
         "commands" \notin can => n.commands # 0
  PROVE  Resting(n, can, turns)
<1>1. ASSUME NEW i \in DOMAIN n.op PROVE OpIdle(n, i, can)
  <2>1. OpIdle(x, i, can)
    BY DEF Resting
  <2>2. x.op[i].state = "publishing" => ~n.task[Owner(i)].running /\ Evidence(n, i)
    BY <2>1 DEF OpIdle, Shown
  <2>3. Current(x, i) /\ x.task[Owner(i)].running => x.task[Owner(i)].merge = "none"
    BY <2>1 DEF OpIdle, Due
  <2> QED BY <2>1, <2>2, <2>3, OpStays
<1>2. ASSUME NEW t \in Tasks PROVE TaskIdle(n, t, can, turns)
  BY TaskStays DEF Resting, LandedOf, Landed
<1> QED BY <1>1, <1>2 DEF Resting

\* The row of one task is written, which does not become done.
LEMMA RowIdle ==
  ASSUME NEW x, NEW n, NEW can, NEW turns, Inv(x), Idling(x, can, turns), NEW t \in Tasks,
         RowOnly(x, n, t), x.task[t].result \subseteq n.task[t].result, TaskIdle(n, t, can, turns),
         n.task[t].running => ~\E i \in DOMAIN x.op : Owner(i) = t /\ x.op[i].state = "publishing",
         n.task[t].running => n.task[t].merge = "none"
           \/ ~\E i \in DOMAIN x.op : Owner(i) = t /\ Current(x, i),
         n.task[t].status = "done" => x.task[t].status = "done"
  PROVE  Idling(n, can, turns) /\ Ends(x, n)
<1>1. /\ Resting(x, can, turns) /\ Placed(x, can) /\ n.op = x.op /\ n.w = x.w /\ SameRest(x, n)
      /\ \A u \in Tasks : u # t => n.task[u] = x.task[u]
      /\ \A i \in DOMAIN x.op : Owner(i) \in Tasks
  BY DEF Idling, RowOnly, Inv, OpFits
<1>2. ASSUME NEW i \in DOMAIN n.op PROVE OpIdle(n, i, can)
  <2>1. OpIdle(x, i, can) /\ Owner(i) \in Tasks /\ Current(n, i) = Current(x, i)
        /\ Evidence(n, i) = Evidence(x, i)
    BY <1>1 DEF Resting, Current, Working, Evidence, SameRest
  <2>2. x.task[Owner(i)].result \subseteq n.task[Owner(i)].result
    BY <1>1, <2>1
  <2>3. x.op[i].state = "publishing" => ~n.task[Owner(i)].running /\ Evidence(n, i)
    BY <1>1, <2>1 DEF OpIdle, Shown
  <2>4. Current(n, i) /\ n.task[Owner(i)].running => n.task[Owner(i)].merge = "none"
    BY <1>1, <2>1 DEF OpIdle, Due
  <2> QED BY <1>1, <2>1, <2>2, <2>3, <2>4, OpStays DEF SameRest
<1>3. ASSUME NEW u \in Tasks, u # t PROVE TaskIdle(n, u, can, turns)
  BY <1>1, <1>3, TaskStays DEF Resting, SameRest, LandedOf, Landed
<1>4. Resting(n, can, turns)
  BY <1>1, <1>2, <1>3 DEF Resting, SameRest
<1>5. Placed(n, can)
  BY <1>1 DEF Placed, SameRest, Working, Landed
<1>6. Ends(x, n)
  BY <1>1 DEF Ends
<1> QED BY <1>4, <1>5, <1>6 DEF Idling

\* What is past the next turn is past every later one.
LEMMA LessIdle ==
  ASSUME NEW x, NEW can, NEW turns \in Nat, NEW less \in Nat, less <= turns,
         Idling(x, can, turns)
  PROVE  Idling(x, can, less)
<1>1. ASSUME NEW commit, Past(commit, turns) PROVE Past(commit, less)
  BY <1>1 DEF Past
<1> QED BY <1>1 DEF Idling, Resting, TaskIdle

\* An interrupted publication that was over is found in the target.
LEMMA LandedIdle ==
  ASSUME NEW x, NEW y, NEW id \in DOMAIN x.op, NEW can, NEW turns, Inv(x),
         Resting(x, can, turns), Current(x, id), Landed(x, id),
         Recording(x, y, id), y.op[id].result = x.op[id].result
  PROVE  Idling(Continued(y, id), can, turns) /\ Ends(x, Continued(y, id))
<1> DEFINE n == Continued(y, id)
           result == y.op[id].result
<1>1. OpIdle(x, id, can) /\ Owner(id) \in Tasks
  BY DEF Resting, Inv, OpFits
<1>2. /\ Shape(y) /\ id \in DOMAIN y.op /\ SameRest(x, y) /\ y.op[id].tree = x.op[id].tree
  BY DEF Recording, Writes, OpFields
<1>3. y.op[id].tree = "ready" /\ result # {} /\ result \subseteq y.target /\ Evidence(y, id)
  BY <1>1, <1>2 DEF OpIdle, Shown, Landed, Evidence, SameRest
<1>4. n = Merged(y, id, result)
  BY <1>3 DEF Continued
<1> HIDE DEF n, result
<1>5. /\ Writes(y, n, id) /\ SameRest(y, n) /\ n.w = Idle
      /\ n.op[id].state = "completed"
      /\ \A f \in OpFields : f \notin {"state", "result"} => n.op[id][f] = y.op[id][f]
      /\ n.task[Owner(id)].merge = "merged" /\ n.task[Owner(id)].status = "done"
      /\ ~n.task[Owner(id)].running
      /\ \A f \in TaskFields : f \notin {"merge", "status", "running", "merged"} =>
           n.task[Owner(id)][f] = y.task[Owner(id)][f]
  BY <1>1, <1>2, <1>4, MergedAt
<1>6. Merging(x, n, id, x.target)
  <2>1. Writes(x, n, id)
    BY <1>5 DEF Recording, Writes
  <2> QED BY <1>5, <2>1 DEF Recording, SameRest, Merging
<1>7. ~x.task[Owner(id)].running /\ Within(x.target, x.target \cup Source(id))
  BY <1>1 DEF OpIdle, Shown, Landed, Within
<1>8. Idling(n, can, turns) /\ Ends(x, n)
  BY <1>6, <1>7, MergingIdle
<1> QED BY <1>8 DEF n

\* The end of the repair's turn is recorded with an operation that is not published yet.
LEMMA CheckedHand ==
  ASSUME NEW x, NEW id, NEW can, NEW turns, Good(x, FALSE), Working(x), x.w.op = id,
         x.w.pc # "turn", x.op[id].turn # "active", Resting(x, can, turns),
         Missing(x, Source(id), Owner(id))
  PROVE  LET n == Checked(x, id) IN
         /\ Hand(n, id, can, turns) /\ n.w = x.w /\ n.task = x.task
         /\ n.op[id].tree = x.op[id].tree /\ n.op[id].turn = x.op[id].turn
<1> DEFINE n == Checked(x, id)
<1>1. /\ id \in DOMAIN x.op /\ Shape(x) /\ Inv(x) /\ OpIdle(x, id, can) /\ Current(x, id)
  BY DEF Good, Inv, OneCurrent, Resting, Current
<1>2. Handles(n, id, FALSE)
  BY CheckedHandles
<1>3. PICK state \in Operations :
        /\ n = SetOp(x, id, state) /\ state # "publishing"
        /\ state \in Held => state = "waiting_quota" /\ x.op[id].turn = "quota"
  <2>1. CASE x.op[id].turn = "completed"
    <3>1. n = SetOp(x, id, "verified_turn") /\ "verified_turn" \notin Held
      BY <2>1 DEF Checked, Held
    <3> QED BY <3>1, Members DEF Interrupted
  <2>2. CASE x.op[id].turn = "quota"
    <3>1. n = SetOp(x, id, "waiting_quota")
      BY <2>2 DEF Checked
    <3> QED BY <2>2, <3>1, Members DEF Held
  <2>3. CASE x.op[id].turn \notin {"completed", "quota"}
    <3>1. n = SetOp(x, id, "blocked") /\ "blocked" \notin Held
      BY <2>3 DEF Checked, Held
    <3> QED BY <3>1, Members
  <2> QED BY <2>1, <2>2, <2>3
<1>4. /\ Shape(n) /\ SameRest(x, n) /\ n.task = x.task /\ n.w = x.w
      /\ DOMAIN n.op = DOMAIN x.op
      /\ \A i \in DOMAIN x.op : i # id => n.op[i] = x.op[i]
      /\ n.op[id].state = state
      /\ \A f \in OpFields : f # "state" => n.op[id][f] = x.op[id][f]
  BY <1>1, <1>3, SetOpAt
<1> HIDE DEF n
<1>5. /\ n.op[id].tree = x.op[id].tree /\ n.op[id].head = x.op[id].head
      /\ n.op[id].clean = x.op[id].clean /\ n.op[id].thread = x.op[id].thread
      /\ n.op[id].turn = x.op[id].turn
  BY <1>4 DEF OpFields
<1>6. Answered(can) => state \notin Held
  BY <1>1, <1>3 DEF OpIdle, Told
<1>7. \A i \in DOMAIN x.op : Current(n, i) => Current(x, i)
  BY <1>1, <1>4 DEF Current, Working
<1>8. Missing(n, Source(id), Owner(id))
  BY <1>4 DEF Missing, SameRest
<1>9. OpIdle(n, id, can)
  <2>1. Candidate(n, id) /\ Mended(n, id)
    BY <1>1, <1>4, <1>5 DEF OpIdle, Candidate, Mended, SameRest
  <2>2. Shown(n, id, can) /\ Told(n, id, can)
    BY <1>1, <1>3, <1>4, <1>5, <1>6 DEF OpIdle, Shown, Told, Held
  <2>3. Due(n, id)
    BY <1>1, <1>4, <1>8 DEF OpIdle, Due
  <2> QED BY <2>1, <2>2, <2>3 DEF OpIdle
<1>10. ~Landed(x, id)
  BY <1>1, NotLanded
<1>11. Resting(n, can, turns)
  BY <1>1, <1>4, <1>7, <1>9, <1>10, OneOpIdle
<1>12. Hand(n, id, can, turns)
  BY <1>1, <1>2, <1>4, <1>6, <1>8, <1>11 DEF Hand, Carries
<1> QED BY <1>4, <1>5, <1>12 DEF n

-----------------------------------------------------------------------------
\* The invariant, step by step; what it says of an operation in hand.
Settled == Sound /\ left \in Prudents /\ Idling(s, left.can, left.turns)

LEMMA SettledFacts ==
  ASSUME Settled
  PROVE  /\ Prudent(left.can) /\ left.turns \in Nat /\ Good(s, FALSE) /\ Inv(s) /\ Shape(s)
         /\ Resting(s, left.can, left.turns) /\ Placed(s, left.can)
         /\ May("lost") => ~Answered(left.can)
         /\ May("quota") => ~Answered(left.can)
         /\ Patience
<1>1. /\ left \in [can : SUBSET Operation, review : BOOLEAN, turns : Nat, moves : Nat,
                   trouble : Nat]
      /\ Prudent(left.can)
  BY DEF Settled, Prudents
<1>2. Patience
  BY <1>1 DEF Prudent, Patience
<1> QED BY <1>1, <1>2 DEF Settled, Sound, Good, Inv, Idling, May, Answered

\* A request that is given up is one whose connection is lost.
LEMMA LostIdle ==
  ASSUME Settled, NEW broken \in BOOLEAN, GivesUp(broken), NEW x
  PROVE  Unanswered(x, broken) = Unavailable(x) /\ ~Answered(left.can)
BY SettledFacts DEF GivesUp, Trouble, May, Patience, Unanswered

LEMMA InHand ==
  ASSUME Settled, s.w.pc # "idle"
  PROVE  /\ Working(s) /\ s.w.op \in DOMAIN s.op /\ Owner(s.w.op) \in Tasks
         /\ Current(s, s.w.op) /\ OpIdle(s, s.w.op, left.can)
         /\ s.w.pc # "read" =>
              /\ Missing(s, Source(s.w.op), Owner(s.w.op)) /\ ~Landed(s, s.w.op)
<1>1. Working(s) /\ s.w.op \in DOMAIN s.op /\ Owner(s.w.op) \in Tasks
  BY SettledFacts DEF Inv, OneCurrent, OpFits, Working
<1>2. Current(s, s.w.op) /\ OpIdle(s, s.w.op, left.can)
  BY <1>1, SettledFacts DEF Current, Resting
<1>3. s.w.pc # "read" => ~Landed(s, s.w.op)
  BY <1>1, SettledFacts DEF Placed
<1> QED BY <1>1, <1>2, <1>3, SettledFacts, NotLanded

\* The actions of the worker, one by one.
LEMMA TreeMadeIdle ==
  ASSUME Patience, Settled, TreeMade
  PROVE  Idling(s', left.can, left.turns) /\ Ends(s, s')
<1> DEFINE id == s.w.op
           x == [s EXCEPT !.op[s.w.op].tree = "ready", !.op[s.w.op].head = Target(s.w.op)]
<1> USE SettledFacts
<1>1. /\ s.w.pc = "tree" /\ Working(s) /\ id \in DOMAIN s.op /\ OpIdle(s, id, left.can)
      /\ Missing(s, Source(id), Owner(id))
  BY InHand DEF TreeMade, At
<1>2. /\ ~s.op[id].thread /\ s.op[id].state # "publishing"
      /\ Answered(left.can) => ~s.w.recovering /\ s.op[id].state \notin Held
  BY <1>1 DEF Placed
<1>3. Hand(s, id, left.can, left.turns)
  <2>1. s.op[id].turn # "active"
    BY <1>1 DEF Good, Repairing
  <2> QED BY <1>1, <1>2, <2>1 DEF Hand, Handles, Carries
<1>4. PICK c \in Conflicts : s' = Integrates(x, id, c)
  BY DEF TreeMade
<1>5. /\ Alike(s, x) /\ x.task = s.task /\ x.w = s.w
      /\ \A i \in DOMAIN s.op : i # id => x.op[i] = s.op[i]
      /\ x.op[id].head = Target(id) /\ x.op[id].tree = "ready"
      /\ x.op[id].clean = s.op[id].clean /\ x.op[id].turn = s.op[id].turn
      /\ x.op[id].thread = s.op[id].thread /\ x.op[id].state = s.op[id].state
  BY <1>1 DEF Alike, Shape, SameRest, StateFields, OpFields
<1> HIDE DEF x, id
<1>6. Within(x.op[id].head, Source(id) \cup Target(id)) /\ Mended(x, id)
  BY <1>1, <1>2, <1>5 DEF Within, OpIdle, Mended
<1>7. Hand(x, id, left.can, left.turns)
  BY <1>2, <1>3, <1>5, <1>6, CandidateHand
<1>8. Idling(s', left.can, left.turns) /\ Ends(x, s')
  BY <1>2, <1>4, <1>5, <1>7, IntegratesIdle
<1> QED BY <1>5, <1>8, EndsAfter

LEMMA NotPreparedIdle ==
  ASSUME Patience, Settled, NotPrepared
  PROVE  Idling(s', left.can, left.turns) /\ Ends(s, s')
<1> DEFINE id == s.w.op
           x == [s EXCEPT !.op[s.w.op].tree = "uncertain"]
<1> USE SettledFacts
<1>1. /\ s.w.pc \in {"tree", "thread"} /\ Working(s) /\ id \in DOMAIN s.op
      /\ OpIdle(s, id, left.can) /\ Missing(s, Source(id), Owner(id)) /\ ~Landed(s, id)
  BY InHand DEF NotPrepared, At
<1>2. /\ ~Answered(left.can)
      /\ \/ s.w.pc = "tree" /\ s' = Unavailable(x)
         \/ s.w.pc = "thread" /\ s' = Unavailable(s)
  <2>1. PICK broken \in BOOLEAN :
          /\ GivesUp(broken)
          /\ \/ At("tree") /\ s' = Unanswered(x, broken)
             \/ At("thread") /\ s' = Unanswered(s, broken)
    BY DEF NotPrepared
  <2> HIDE DEF x
  <2> QED BY <2>1, LostIdle DEF At
<1>3. Hand(s, id, left.can, left.turns)
  <2>1. s.op[id].turn # "active"
    BY <1>1 DEF Good, Repairing
  <2> QED BY <1>1, <1>2, <2>1 DEF Hand, Handles, Carries
<1>4. ASSUME NEW n, Hand(n, id, left.can, left.turns)
      PROVE  Idling(Unavailable(n), left.can, left.turns) /\ Ends(n, Unavailable(n))
  <2>1. Inv(n) /\ Resting(n, left.can, left.turns) /\ Working(n) /\ n.w.op = id
        /\ id \in DOMAIN n.op /\ Carries(n, id, left.can, left.turns)
    BY <1>4 DEF Hand, Handles, Good, Carries
  <2> QED BY <2>1, DoneIdle, FailsIdle DEF Unavailable
<1>5. CASE s' = Unavailable(s)
  BY <1>3, <1>4, <1>5
<1>6. CASE s.w.pc = "tree" /\ s' = Unavailable(x)
  <2>1. /\ Alike(s, x) /\ x.task = s.task /\ x.w = s.w
        /\ \A i \in DOMAIN s.op : i # id => x.op[i] = s.op[i]
        /\ x.op[id].head = s.op[id].head
        /\ x.op[id].clean = s.op[id].clean /\ x.op[id].turn = s.op[id].turn
        /\ x.op[id].thread = s.op[id].thread
    BY <1>1 DEF Alike, Shape, SameRest, StateFields, OpFields
  <2>2. ~s.op[id].thread /\ s.op[id].state # "publishing"
    BY <1>6 DEF Placed
  <2> HIDE DEF x
  <2>3. Within(x.op[id].head, Source(id) \cup Target(id)) /\ Mended(x, id)
    BY <1>1, <2>1, <2>2 DEF OpIdle, Candidate, Mended
  <2>4. Hand(x, id, left.can, left.turns)
    BY <1>3, <2>1, <2>2, <2>3, CandidateHand
  <2>5. Idling(s', left.can, left.turns) /\ Ends(x, s')
    BY <1>4, <1>6, <2>4
  <2> QED BY <2>1, <2>5, EndsAfter
<1> QED BY <1>2, <1>5, <1>6

\* The worker writes its operation, which is not published yet, and goes to pc.
Turning(x, n, id, pc) ==
  /\ SameRest(x, n) /\ n.task = x.task /\ DOMAIN n.op = DOMAIN x.op
  /\ \A i \in DOMAIN x.op : i # id => n.op[i] = x.op[i]
  /\ n.op[id].tree = x.op[id].tree /\ n.op[id].head = x.op[id].head
  /\ n.op[id].clean = x.op[id].clean /\ n.op[id].state \in Held
  /\ n.w.pc = pc /\ n.w.op = id /\ n.w.recovering = x.w.recovering

LEMMA TurningIdle ==
  ASSUME Settled, NEW id, id = s.w.op, s.w.pc \in {"thread", "turn"}, NEW n, NEW pc,
         Turning(s, n, id, pc), pc \in {"turn", "wait"}, Mended(n, id),
         pc = "turn" => n.op[id].turn # "active",
         Answered(left.can) => /\ n.op[id].state # "waiting_quota" /\ n.op[id].turn # "quota"
                               /\ ~s.w.recovering
  PROVE  Idling(n, left.can, left.turns) /\ Ends(s, n)
<1> USE SettledFacts
<1>1. /\ Working(s) /\ id \in DOMAIN s.op /\ OpIdle(s, id, left.can) /\ Current(s, id)
      /\ Missing(s, Source(id), Owner(id)) /\ ~Landed(s, id) /\ ~s.op[id].clean
  BY InHand DEF Placed
<1>2. n.op[id].state # "publishing"
  BY DEF Turning, Held
<1>3. \A i \in DOMAIN s.op : Current(n, i) => Current(s, i)
  BY <1>1 DEF Turning, Current, Working
<1>4. OpIdle(n, id, left.can)
  <2>1. Candidate(n, id)
    BY <1>1 DEF OpIdle, Candidate, Turning, SameRest
  <2>2. Shown(n, id, left.can) /\ Told(n, id, left.can)
    BY <1>2 DEF Shown, Told
  <2>3. Due(n, id)
    BY <1>1 DEF OpIdle, Due, Missing, Turning, SameRest
  <2> QED BY <2>1, <2>2, <2>3 DEF OpIdle
<1>5. Resting(n, left.can, left.turns)
  BY <1>1, <1>3, <1>4, OneOpIdle DEF Turning
<1>6. Placed(n, left.can)
  BY <1>1, <1>2 DEF Turning, Placed, Landed
<1> QED BY <1>5, <1>6 DEF Idling, Ends, Turning

LEMMA ThreadMadeIdle ==
  ASSUME Patience, Settled, ThreadMade
  PROVE  Idling(s', left.can, left.turns) /\ Ends(s, s')
<1> DEFINE id == s.w.op
<1> USE SettledFacts
<1>1. /\ s.w.pc = "thread" /\ id \in DOMAIN s.op /\ OpIdle(s, id, left.can)
  BY InHand DEF ThreadMade, At
<1>2. /\ ~s.op[id].clean /\ s.op[id].tree = "ready"
      /\ Answered(left.can) => ~s.w.recovering
  BY <1>1 DEF Placed
<1>3. s.op[id].turn # "active"
  BY <1>1 DEF Good, Repairing
<1>4. /\ Turning(s, s', id, "turn") /\ s'.op[id].thread /\ s'.op[id].state = "uncertain"
      /\ s'.op[id].turn = s.op[id].turn
  <2>1. /\ SameRest(s, s') /\ s'.task = s.task /\ DOMAIN s'.op = DOMAIN s.op
        /\ \A i \in DOMAIN s.op : i # id => s'.op[i] = s.op[i]
        /\ s'.op[id] = [s.op[id] EXCEPT !.thread = TRUE, !.state = "uncertain"]
        /\ s'.w = [s.w EXCEPT !.pc = "turn"]
    BY <1>1 DEF ThreadMade, Shape, SameRest, StateFields
  <2>2. DOMAIN s.op[id] = OpFields /\ DOMAIN s.w = WorkerFields /\ "uncertain" \in Held
    BY <1>1 DEF Shape, Held
  <2>3. /\ s'.op[id].thread /\ s'.op[id].state = "uncertain"
        /\ s'.op[id].turn = s.op[id].turn /\ s'.op[id].tree = s.op[id].tree
        /\ s'.op[id].head = s.op[id].head /\ s'.op[id].clean = s.op[id].clean
    BY <2>1, <2>2 DEF OpFields
  <2>4. s'.w.pc = "turn" /\ s'.w.op = id /\ s'.w.recovering = s.w.recovering
    BY <2>1, <2>2 DEF WorkerFields
  <2> HIDE DEF id
  <2> QED BY <2>1, <2>2, <2>3, <2>4 DEF Turning
<1> HIDE DEF id
<1>5. Mended(s', id)
  BY <1>1, <1>2, <1>4 DEF Turning, OpIdle, Mended
<1>6. Answered(left.can) => s'.op[id].turn # "quota" /\ s'.op[id].state # "waiting_quota"
  BY <1>1, <1>4 DEF OpIdle, Told
<1> QED BY <1>1, <1>2, <1>3, <1>4, <1>5, <1>6, TurningIdle DEF id

LEMMA TurnStartedIdle ==
  ASSUME Patience, Settled, TurnStarted
  PROVE  Idling(s', left.can, left.turns) /\ Ends(s, s')
<1> DEFINE id == s.w.op
<1> USE SettledFacts
<1>1. /\ s.w.pc = "turn" /\ id \in DOMAIN s.op /\ OpIdle(s, id, left.can)
  BY InHand DEF TurnStarted, At
<1>2. /\ ~s.op[id].clean /\ (Answered(left.can) => ~s.w.recovering) /\ s.op[id].thread
  BY <1>1 DEF Placed, Good, Repairing
<1>3. /\ Turning(s, s', id, "wait") /\ s'.op[id].thread = s.op[id].thread
      /\ s'.op[id].state = "agent_running" /\ s'.op[id].turn = "active"
  <2>1. /\ SameRest(s, s') /\ s'.task = s.task /\ DOMAIN s'.op = DOMAIN s.op
        /\ \A i \in DOMAIN s.op : i # id => s'.op[i] = s.op[i]
        /\ s'.op[id] = [s.op[id] EXCEPT !.turn = "active", !.state = "agent_running"]
        /\ s'.w = [s.w EXCEPT !.pc = "wait"]
    BY <1>1 DEF TurnStarted, Shape, SameRest, StateFields
  <2>2. DOMAIN s.op[id] = OpFields /\ DOMAIN s.w = WorkerFields /\ "agent_running" \in Held
    BY <1>1 DEF Shape, Held
  <2>3. /\ s'.op[id].thread = s.op[id].thread /\ s'.op[id].state = "agent_running"
        /\ s'.op[id].turn = "active" /\ s'.op[id].tree = s.op[id].tree
        /\ s'.op[id].head = s.op[id].head /\ s'.op[id].clean = s.op[id].clean
    BY <2>1, <2>2 DEF OpFields
  <2>4. s'.w.pc = "wait" /\ s'.w.op = id /\ s'.w.recovering = s.w.recovering
    BY <2>1, <2>2 DEF WorkerFields
  <2> HIDE DEF id
  <2> QED BY <2>1, <2>2, <2>3, <2>4 DEF Turning
<1> HIDE DEF id
<1>4. Mended(s', id)
  BY <1>1, <1>2, <1>3 DEF Turning, OpIdle, Mended
<1> QED BY <1>1, <1>2, <1>3, <1>4, TurningIdle DEF id

LEMMA AbandonedIdle ==
  ASSUME Settled, s.w.pc = "turn", NEW x \in Abandoned, NEW id, id = s.w.op
  PROVE  /\ SameRest(s, x) /\ x.task = s.task /\ x.w = s.w /\ id \in DOMAIN x.op
         /\ Inv(x) /\ Resting(x, left.can, left.turns) /\ Working(x)
         /\ x.op[id].state = s.op[id].state /\ x.op[id].thread = s.op[id].thread
<1> USE SettledFacts
<1>1. /\ id \in DOMAIN s.op /\ OpIdle(s, id, left.can) /\ Working(s) /\ ~Landed(s, id)
  BY InHand
<1>2. ~s.op[id].clean /\ s.op[id].thread
  BY <1>1 DEF Placed, Good, Repairing
<1>3. x = s \/ x = [s EXCEPT !.op[id].turn = "active"]
  BY DEF Abandoned, May, Patience
<1>4. CASE x = s
  BY <1>1, <1>4 DEF SameRest
<1>5. CASE x = [s EXCEPT !.op[id].turn = "active"]
  <2>1. Runs(s, x, id)
    BY <1>1, <1>5, RunsAt
  <2>2. /\ x.op[id].state = s.op[id].state /\ x.op[id].thread = s.op[id].thread
        /\ x.op[id].result = s.op[id].result /\ x.op[id].turn = "active"
        /\ x.op[id].tree = s.op[id].tree /\ x.op[id].head = s.op[id].head
        /\ x.op[id].clean = s.op[id].clean
    BY <2>1 DEF Runs, OpFields
  <2>3. /\ Shape(x) /\ SameRest(s, x) /\ x.task = s.task /\ x.w = s.w
        /\ DOMAIN x.op = DOMAIN s.op
        /\ \A i \in DOMAIN s.op : i # id => x.op[i] = s.op[i]
    BY <2>1 DEF Runs
  <2>4. \A i \in DOMAIN s.op : Current(x, i) => Current(s, i)
    BY <2>2, <2>3 DEF Current, Working
  <2>5. Inv(x)
    <3>1. Checking(x)
      BY <2>3 DEF Inv, Checking, SameRest
    <3>2. \A i \in DOMAIN s.op : x.op[i].result = s.op[i].result
      BY <2>2, <2>3
    <3>3. Working(x) => x.w.op \in DOMAIN s.op
      BY <1>1, <2>3
    <3> QED BY <2>3, <2>4, <3>1, <3>2, <3>3, OpsInv
  <2>6. OpIdle(x, id, left.can)
    <3>1. Candidate(x, id)
      BY <1>1, <2>2, <2>3 DEF OpIdle, Candidate, SameRest
    <3>2. Mended(x, id)
      BY <1>1, <1>2, <2>2 DEF OpIdle, Mended
    <3>3. Shown(x, id, left.can) /\ Told(x, id, left.can)
      BY <1>1, <1>2, <2>2 DEF OpIdle, Shown, Told
    <3>4. Due(x, id)
      BY <1>1, <2>2, <2>3, <2>4 DEF OpIdle, Due, Missing, Landed, SameRest
    <3> QED BY <3>1, <3>2, <3>3, <3>4 DEF OpIdle
  <2>7. Resting(x, left.can, left.turns)
    BY <1>1, <2>3, <2>4, <2>6, OneOpIdle
  <2> QED BY <1>1, <2>2, <2>3, <2>5, <2>7 DEF Working
<1> QED BY <1>3, <1>4, <1>5

LEMMA TurnLostIdle ==
  ASSUME Patience, Settled, TurnLost
  PROVE  Idling(s', left.can, left.turns) /\ Ends(s, s')
<1> DEFINE id == s.w.op
<1> USE SettledFacts
<1>1. s.w.pc = "turn" /\ Missing(s, Source(id), Owner(id)) /\ s.op[id].state \in Held
  BY InHand DEF TurnLost, At, Good, Repairing
<1>2. PICK broken \in BOOLEAN, x \in Abandoned : GivesUp(broken) /\ s' = Unanswered(x, broken)
  BY DEF TurnLost
<1>3. s' = Unavailable(x) /\ ~Answered(left.can)
  BY <1>2, LostIdle
<1>4. /\ SameRest(s, x) /\ x.task = s.task /\ x.w.op = id /\ id \in DOMAIN x.op
      /\ Inv(x) /\ Resting(x, left.can, left.turns) /\ Working(x)
      /\ x.op[id].state \in Held
  BY <1>1, AbandonedIdle
<1> HIDE DEF id
<1>5. Carries(x, id, left.can, left.turns)
  BY <1>1, <1>3, <1>4 DEF Carries, Missing, SameRest
<1>6. /\ Idling(Done(x), left.can, left.turns) /\ Ends(x, Done(x))
      /\ Idling(Fails(x), left.can, left.turns) /\ Ends(x, Fails(x))
  BY <1>4, <1>5, DoneIdle, FailsIdle
<1> QED BY <1>3, <1>4, <1>6, EndsAfter DEF Unavailable

LEMMA TurnRefusedIdle ==
  ASSUME Patience, Settled, TurnRefused
  PROVE  Idling(s', left.can, left.turns) /\ Ends(s, s')
<1> DEFINE id == s.w.op
           x == SetOp(s, id, "waiting_quota")
<1> USE SettledFacts
<1>1. /\ s.w.pc = "turn" /\ id \in DOMAIN s.op /\ OpIdle(s, id, left.can) /\ Working(s)
      /\ Missing(s, Source(id), Owner(id)) /\ ~Landed(s, id) /\ Current(s, id)
  BY InHand DEF TurnRefused, At
<1>2. ~Answered(left.can) /\ s' = Fails(x)
  BY DEF TurnRefused
<1>3. "waiting_quota" \in Held /\ "waiting_quota" \in Operations
  BY Members DEF Held
<1>4. Good(x, FALSE) /\ Working(x)
  BY <1>1, <1>3, SetOpGood
<1>5. /\ Shape(x) /\ SameRest(s, x) /\ x.task = s.task /\ x.w = s.w
      /\ DOMAIN x.op = DOMAIN s.op
      /\ \A i \in DOMAIN s.op : i # id => x.op[i] = s.op[i]
      /\ x.op[id].state = "waiting_quota"
      /\ \A f \in OpFields : f # "state" => x.op[id][f] = s.op[id][f]
  BY <1>1, <1>3, SetOpAt
<1> HIDE DEF x, id
<1>6. /\ x.op[id].tree = s.op[id].tree /\ x.op[id].head = s.op[id].head
      /\ x.op[id].clean = s.op[id].clean /\ x.op[id].thread = s.op[id].thread
      /\ x.op[id].turn = s.op[id].turn
  BY <1>5 DEF OpFields
<1>7. \A i \in DOMAIN s.op : Current(x, i) => Current(s, i)
  BY <1>1, <1>5 DEF Current, Working
<1>8. OpIdle(x, id, left.can)
  <2>1. Candidate(x, id) /\ Mended(x, id)
    BY <1>1, <1>5, <1>6 DEF OpIdle, Candidate, Mended, SameRest
  <2>2. Shown(x, id, left.can) /\ Told(x, id, left.can)
    BY <1>2, <1>5 DEF Shown, Told
  <2>3. Due(x, id)
    BY <1>1, <1>5 DEF OpIdle, Due, Missing, SameRest
  <2> QED BY <2>1, <2>2, <2>3 DEF OpIdle
<1>9. Resting(x, left.can, left.turns)
  BY <1>1, <1>5, <1>7, <1>8, OneOpIdle
<1>10. Idling(s', left.can, left.turns) /\ Ends(x, s')
  <2>1. Carries(x, id, left.can, left.turns)
    BY <1>1, <1>2, <1>5, <1>9 DEF Carries, Missing, SameRest
  <2>2. id \in DOMAIN x.op /\ x.w.op = id /\ Inv(x)
    BY <1>1, <1>4, <1>5 DEF Good, id
  <2> QED BY <1>2, <1>4, <2>1, <2>2, FailsIdle
<1> QED BY <1>5, <1>10, EndsAfter

\* A failure of an operation that is handed on.
LEMMA HandFails ==
  ASSUME NEW x, NEW id, NEW can, NEW turns, Prudent(can), Hand(x, id, can, turns)
  PROVE  Idling(Fails(x), can, turns) /\ Ends(x, Fails(x))
BY FailsIdle DEF Hand, Handles, Good

LEMMA TurnOverIdle ==
  ASSUME Patience, Settled, TurnOver
  PROVE  Idling(s', left.can, left.turns) /\ Ends(s, s')
<1> DEFINE id == s.w.op
           x == Checked(s, id)
<1> USE SettledFacts
<1>1. /\ s.w.pc = "wait" /\ id \in DOMAIN s.op /\ OpIdle(s, id, left.can) /\ Working(s)
      /\ Missing(s, Source(id), Owner(id)) /\ s.op[id].turn # "active"
  BY InHand DEF TurnOver, At
<1>2. s.op[id].tree = "ready"
  <2>1. s.op[id].thread
    BY <1>1 DEF Good, Repairing
  <2> QED BY <1>1, <2>1 DEF OpIdle, Mended
<1>3. /\ Hand(x, id, left.can, left.turns) /\ x.w = s.w /\ x.task = s.task
      /\ x.op[id].tree = s.op[id].tree /\ x.op[id].turn = s.op[id].turn
  BY <1>1, CheckedHand
<1>4. s' = Fails(x) \/ s' = GoesOn(x, id)
  BY DEF TurnOver
<1> HIDE DEF x, id
<1>5. Idling(s', left.can, left.turns) /\ Ends(x, s')
  BY <1>2, <1>3, <1>4, HandFails, GoesOnIdle
<1> QED BY <1>3, <1>5, EndsAfter

LEMMA VerifiedIdle ==
  ASSUME Patience, Settled, Verified
  PROVE  Idling(s', left.can, left.turns) /\ Ends(s, s')
<1> DEFINE id == s.w.op
<1> USE SettledFacts
<1>1. /\ s.w.pc = "verify" /\ id \in DOMAIN s.op /\ Working(s)
      /\ Missing(s, Source(id), Owner(id)) /\ s.w.check \in DOMAIN s.check
      /\ s.check[s.w.check] = "running"
      /\ Answered(left.can) => s.w.recovering \/ s.op[id].state \notin Held
  BY InHand DEF Verified, At, Inv, Checking, Placed
<1>2. Handles(s, id, FALSE)
  BY <1>1 DEF Handles, Good, Repairing
<1>3. PICK passed \in BOOLEAN :
        s' = IF passed THEN SecondPass(Ran(s, passed), id, s.w.check) ELSE Fails(Ran(s, passed))
  BY Zenon DEF Verified
<1> DEFINE x == Ran(s, passed)
           result == IF passed THEN "passed" ELSE "failed"
<1>4. /\ x.task = s.task /\ x.op = s.op /\ x.target = s.target /\ x.commands = s.commands
      /\ x.w = s.w /\ x.check = [s.check EXCEPT ![s.w.check] = result]
  BY DEF Ran, Shape, StateFields
<1>5. \A k \in DOMAIN s.check : s.check[k] = "passed" => k \in DOMAIN x.check /\ x.check[k] = "passed"
  BY <1>1, <1>4
<1>6. Handles(x, id, FALSE)
  BY <1>1, <1>2, RanHandles
<1> HIDE DEF x, id, result
<1>7. Resting(x, left.can, left.turns)
  <2>1. \A i \in DOMAIN s.op : Current(x, i) => Current(s, i)
    BY <1>4 DEF Current, Working
  <2>2. \A i \in DOMAIN s.op : s.op[i].state = "publishing" => Evidence(s, i)
    BY DEF Resting, OpIdle, Shown
  <2>3. \A i \in DOMAIN s.op : s.op[i].state = "publishing" => Evidence(x, i)
    BY <1>4, <1>5, <2>2 DEF Evidence
  <2>4. "commands" \notin left.can => x.commands # 0
    BY <1>4 DEF Resting
  <2> QED BY <1>4, <2>1, <2>3, <2>4, RestIdle
<1>8. Hand(x, id, left.can, left.turns)
  BY <1>1, <1>4, <1>6, <1>7 DEF Hand, Carries, Missing
<1>9. s' = SecondPass(x, id, s.w.check) \/ s' = Fails(x)
  BY <1>3 DEF x
<1>10. Idling(s', left.can, left.turns) /\ Ends(x, s')
  BY <1>8, <1>9, HandFails, SecondPassIdle
<1> QED BY <1>4, <1>10, EndsAfter

\* What a restart finds interrupted is taken up.
LEMMA RecoverIdle ==
  ASSUME Patience, Settled, NEW id \in DOMAIN s.op, Recover(id)
  PROVE  Idling(s', left.can, left.turns) /\ Ends(s, s')
<1> DEFINE x == Reading(s, id)
<1> USE SettledFacts
<1>1. ~Working(s) /\ s.op[id].state \in Interrupted
  BY DEF Recover, At, Working
<1>2. s' = IF s.op[id].thread THEN x ELSE Continued(x, id)
  BY DEF Recover
<1>3. /\ Good(x, FALSE) /\ Working(x) /\ x.w.op = id /\ x.w.recovering /\ x.w.pc = "read"
      /\ x.op = s.op
  BY <1>1, ReadingGood
<1>4. x.task = s.task /\ SameRest(s, x)
  BY DEF Reading, Shape, StateFields, SameRest
<1> HIDE DEF x
<1>5. Current(s, id) /\ Current(x, id)
  BY <1>1, <1>3 DEF Current
<1>6. Resting(x, left.can, left.turns)
  <2>1. \A i \in DOMAIN s.op : Current(x, i) => Current(s, i)
    BY <1>1, <1>3 DEF Current, Working
  <2>2. \A i \in DOMAIN s.op : s.op[i].state = "publishing" => Evidence(s, i)
    BY DEF Resting, OpIdle, Shown
  <2>3. \A i \in DOMAIN s.op : s.op[i].state = "publishing" => Evidence(x, i)
    BY <1>3, <1>4, <2>2 DEF Evidence, SameRest
  <2>4. "commands" \notin left.can => x.commands # 0
    BY <1>4 DEF Resting, SameRest
  <2> QED BY <1>3, <1>4, <2>1, <2>3, <2>4, RestIdle DEF SameRest
<1>7. CASE s.op[id].thread
  <2>1. Placed(x, left.can)
    BY <1>3 DEF Placed
  <2> QED BY <1>2, <1>4, <1>6, <1>7, <2>1 DEF Idling, Ends
<1>8. CASE ~s.op[id].thread
  <2>1. s' = Continued(x, id) /\ Inv(x) /\ id \in DOMAIN x.op
    BY <1>2, <1>3, <1>8 DEF Good
  <2>2. CASE Landed(x, id)
    <3>1. Recording(x, x, id)
      BY <2>1 DEF Recording, Writes, SameRest, Inv
    <3>2. Idling(s', left.can, left.turns) /\ Ends(x, s')
      BY <1>5, <1>6, <2>1, <2>2, <3>1, LandedIdle
    <3> QED BY <1>4, <3>2, EndsAfter
  <2>3. CASE ~Landed(x, id)
    <3>1. Missing(x, Source(id), Owner(id))
      BY <1>5, <1>6, <2>1, <2>3, NotLanded
    <3>2. x.op[id].turn # "active"
      BY <1>3, <1>8 DEF Good, Repairing
    <3>3. Hand(x, id, left.can, left.turns)
      BY <1>3, <1>6, <2>1, <3>1, <3>2 DEF Hand, Handles, Carries
    <3>4. Idling(s', left.can, left.turns) /\ Ends(x, s')
      BY <2>1, <3>3, ContinuedIdle
    <3> QED BY <1>4, <3>4, EndsAfter
  <2> QED BY <2>2, <2>3
<1> QED BY <1>7, <1>8

\* What the thread of the repair shows of an operation that is not published yet.
LEMMA ReadMissing ==
  ASSUME Patience, Settled, RecoverRead, NEW id, id = s.w.op,
         Missing(s, Source(id), Owner(id))
  PROVE  Idling(s', left.can, left.turns) /\ Ends(s, s')
<1> DEFINE o == s.op[id]
<1> USE SettledFacts
<1>1. /\ s.w.pc = "read" /\ s.w.recovering /\ id \in DOMAIN s.op /\ Working(s)
      /\ OpIdle(s, id, left.can) /\ Current(s, id)
  BY InHand DEF RecoverRead, At, Inv, Checking
<1>2. ~Landed(s, id)
  BY <1>1, NotLanded
<1>3. CASE o.turn = "active"
  <2> DEFINE x == SetOp(s, id, "agent_running")
  <2>1. s' = Done(x)
    BY <1>3 DEF RecoverRead
  <2>2. "agent_running" \in Held /\ "agent_running" \in Operations
    BY Members DEF Held
  <2>3. Good(x, FALSE)
    BY <1>1, <2>2, SetOpGood
  <2>4. /\ Shape(x) /\ SameRest(s, x) /\ x.task = s.task /\ x.w = s.w
        /\ DOMAIN x.op = DOMAIN s.op
        /\ \A i \in DOMAIN s.op : i # id => x.op[i] = s.op[i]
        /\ x.op[id].state = "agent_running"
        /\ \A f \in OpFields : f # "state" => x.op[id][f] = s.op[id][f]
    BY <1>1, <2>2, SetOpAt
  <2> HIDE DEF x
  <2>5. /\ x.op[id].tree = s.op[id].tree /\ x.op[id].head = s.op[id].head
        /\ x.op[id].clean = s.op[id].clean /\ x.op[id].thread = s.op[id].thread
        /\ x.op[id].turn = s.op[id].turn
    BY <2>4 DEF OpFields
  <2>6. \A i \in DOMAIN s.op : Current(x, i) => Current(s, i)
    BY <1>1, <2>4 DEF Current, Working
  <2>7. OpIdle(x, id, left.can)
    <3>1. Candidate(x, id) /\ Mended(x, id)
      BY <1>1, <2>4, <2>5 DEF OpIdle, Candidate, Mended, SameRest
    <3>2. Shown(x, id, left.can) /\ Told(x, id, left.can)
      BY <1>3, <2>4, <2>5 DEF Shown, Told
    <3>3. Due(x, id)
      BY <1>1, <2>4 DEF OpIdle, Due, Missing, SameRest
    <3> QED BY <3>1, <3>2, <3>3 DEF OpIdle
  <2>8. Resting(x, left.can, left.turns)
    BY <1>1, <1>2, <2>4, <2>6, <2>7, OneOpIdle
  <2>9. Idling(s', left.can, left.turns) /\ Ends(x, s')
    BY <2>1, <2>3, <2>8, DoneIdle DEF Good
  <2> QED BY <2>4, <2>9, EndsAfter
<1>4. CASE o.turn # "active"
  <2>1. Hand(s, id, left.can, left.turns)
    BY <1>1, <1>4 DEF Hand, Handles, Carries
  <2>2. CASE o.turn = "none"
    <3>1. s' = Fails(s) \/ s' = Continued(s, id)
      BY <2>2 DEF RecoverRead
    <3> QED BY <2>1, <3>1, HandFails, ContinuedIdle
  <2>3. CASE o.turn # "none" /\ o.state = "waiting_quota"
    <3>1. s' = Done(s) \/ s' = Resolve(s, id)
      BY <1>4, <2>3 DEF RecoverRead
    <3>2. o.tree = "ready" /\ (o.clean => Source(id) \subseteq o.head) /\ ~Answered(left.can)
      BY <1>1, <2>3 DEF OpIdle, Mended, Told
    <3> QED BY <2>1, <3>1, <3>2, DoneIdle, ResolveIdle
  <2>4. CASE o.turn # "none" /\ o.state # "waiting_quota"
    <3> DEFINE x == Checked(s, id)
    <3>1. s' = Continued(x, id) \/ s' = Fails(x)
      BY <1>4, <2>4 DEF RecoverRead
    <3>2. Hand(x, id, left.can, left.turns) /\ x.task = s.task
      BY <1>1, <1>4, CheckedHand
    <3> HIDE DEF x
    <3>3. Idling(s', left.can, left.turns) /\ Ends(x, s')
      BY <3>1, <3>2, HandFails, ContinuedIdle
    <3> QED BY <3>2, <3>3, EndsAfter
  <2> QED BY <2>2, <2>3, <2>4
<1> QED BY <1>3, <1>4

\* ... and of one whose publication was interrupted when it was over.
LEMMA ReadLanded ==
  ASSUME Patience, Settled, RecoverRead, NEW id, id = s.w.op, Landed(s, id)
  PROVE  Idling(s', left.can, left.turns) /\ Ends(s, s')
<1> DEFINE o == s.op[id]
<1> USE SettledFacts
<1>1. id \in DOMAIN s.op /\ OpIdle(s, id, left.can) /\ Current(s, id)
  BY InHand DEF RecoverRead, At
<1>2. o.state = "publishing" /\ o.clean /\ (o.thread => o.turn = "completed")
      /\ (o.turn # "none" => o.thread)
  BY <1>1 DEF Landed, OpIdle, Shown, Mended
<1>3. CASE o.turn = "none"
  <2>1. s' = Continued(s, id)
    BY <1>2, <1>3 DEF RecoverRead
  <2>2. Recording(s, s, id)
    BY <1>1 DEF Recording, Writes, SameRest
  <2> QED BY <1>1, <2>1, <2>2, LandedIdle
<1>4. CASE o.turn = "completed"
  <2> DEFINE x == SetOp(s, id, "verified_turn")
  <2>1. s' = Continued(x, id)
    BY <1>2, <1>4 DEF RecoverRead, Checked
  <2>2. "verified_turn" \in Operations
    BY DEF Operations
  <2>3. /\ Shape(x) /\ SameRest(s, x) /\ x.task = s.task /\ x.w = s.w
        /\ DOMAIN x.op = DOMAIN s.op
        /\ \A i \in DOMAIN s.op : i # id => x.op[i] = s.op[i]
        /\ \A f \in OpFields : f # "state" => x.op[id][f] = s.op[id][f]
    BY <1>1, <2>2, SetOpAt
  <2> HIDE DEF x
  <2>4. Recording(s, x, id) /\ x.op[id].result = s.op[id].result
    BY <2>3 DEF Recording, Writes, OpFields
  <2> QED BY <1>1, <2>1, <2>4, LandedIdle
<1> QED BY <1>2, <1>3, <1>4

LEMMA RecoverReadIdle ==
  ASSUME Patience, Settled, RecoverRead
  PROVE  Idling(s', left.can, left.turns) /\ Ends(s, s')
<1>1. Landed(s, s.w.op) \/ Missing(s, Source(s.w.op), Owner(s.w.op))
  BY SettledFacts, InHand, NotLanded DEF RecoverRead, At
<1> QED BY <1>1, ReadMissing, ReadLanded

LEMMA WorkerDoneIdle ==
  ASSUME Settled, NotRecovered \/ Crash \/ StartsLate
  PROVE  Idling(s', left.can, left.turns) /\ Ends(s, s')
<1> USE SettledFacts
<1>1. CASE NotRecovered
  <2>1. s.w.recovering
    BY <1>1 DEF NotRecovered, At, Inv, Checking
  <2>2. s' = Done(s)
    BY <1>1, <2>1, LostIdle DEF NotRecovered, Unavailable
  <2> QED BY <2>2, DoneIdle
<1>2. CASE Crash
  <2>1. PICK x \in Abandoned : s' = Done(x)
    BY <1>2 DEF Crash
  <2>2. CASE x = s
    BY <2>1, <2>2, DoneIdle
  <2>3. CASE x # s
    <3>1. s.w.pc = "turn"
      BY <2>3 DEF Abandoned, At
    <3>2. x.task = s.task /\ Inv(x) /\ Resting(x, left.can, left.turns)
      BY <3>1, AbandonedIdle
    <3> QED BY <2>1, <3>2, DoneIdle, EndsAfter
  <2> QED BY <2>2, <2>3
<1>3. CASE StartsLate
  BY <1>3 DEF StartsLate, Good, Repairing
<1> QED BY <1>1, <1>2, <1>3

\* A restart in the middle of a publication: it has landed, or is yet to be made.
LEMMA CrashPublishingIdle ==
  ASSUME Patience, Settled, CrashPublishing
  PROVE  Idling(s', left.can, left.turns) /\ Ends(s, s')
<1> DEFINE id == s.w.op
           o == Owner(id)
           x == Ran(s, TRUE)
           y == Publishing(x, id)
           head == s.op[id].head
           can == left.can
           turns == left.turns
<1> USE SettledFacts
<1>1. /\ s.w.pc = "verify" /\ id \in DOMAIN s.op /\ o \in Tasks /\ Working(s)
      /\ Current(s, id) /\ OpIdle(s, id, can) /\ TaskIdle(s, o, can, turns)
      /\ Missing(s, Source(id), o) /\ s.w.check \in DOMAIN s.check /\ s.op[id].tree = "ready"
  BY InHand DEF CrashPublishing, At, Inv, Checking, Placed, Resting
<1>2. "crash" \in can /\ s.commands # 0
  BY DEF CrashPublishing, Trouble, May, Prudent, Resting
<1>3. /\ s.w.check = CheckId(s, id) /\ s.target = Target(id)
      /\ StillWanted(x, id) /\ Acceptable(x, id)
  BY DEF CrashPublishing
<1>4. PICK target : /\ s' = Done([y EXCEPT !.target = target])
                    /\ target = head \/ target = y.target
  <2>1. PICK done \in BOOLEAN : s' = Done([y EXCEPT !.target = IF done THEN head ELSE @])
    BY Zenon DEF CrashPublishing
  <2>2. s' = Done([y EXCEPT !.target = IF done THEN head ELSE y.target])
    BY <2>1 DEF Publishing, SetOp, Ran, Shape, StateFields
  <2> HIDE DEF y, head
  <2> QED BY <2>2
<1>5. /\ Shape(x) /\ x.task = s.task /\ x.op = s.op /\ x.target = s.target
      /\ x.commands = s.commands /\ x.w = s.w /\ DOMAIN x.check = DOMAIN s.check
      /\ x.check[s.w.check] = "passed"
  BY <1>1 DEF Ran, Shape, StateFields
<1> HIDE DEF x
<1>6. /\ Writes(x, y, id) /\ SameRest(x, y) /\ y.task = x.task
      /\ y.op[id].state = "publishing" /\ y.op[id].result = head
      /\ \A f \in OpFields : f \notin {"state", "result"} => y.op[id][f] = x.op[id][f]
  BY <1>1, <1>5, ResultAt
<1> HIDE DEF y
<1> DEFINE z == [y EXCEPT !.target = target]
<1>7. /\ Shape(z) /\ z.op = y.op /\ z.task = y.task /\ z.target = target
      /\ z.check = y.check /\ z.commands = y.commands
  BY <1>6 DEF Writes, Shape, StateFields
<1>8. s' = Done(z)
  BY <1>4
<1> HIDE DEF z
<1>9. /\ s'.task = s.task /\ s'.target = target /\ s'.check = x.check
      /\ s'.commands = s.commands /\ s'.w = Idle /\ s'.op = y.op
  BY <1>5, <1>6, <1>7, <1>8, DoneAt DEF SameRest
<1>10. /\ DOMAIN y.op = DOMAIN s.op /\ \A i \in DOMAIN s.op : i # id => y.op[i] = s.op[i]
  BY <1>5, <1>6 DEF Writes
<1>11. /\ y.op[id].tree = s.op[id].tree /\ y.op[id].head = head
       /\ y.op[id].clean = s.op[id].clean /\ y.op[id].thread = s.op[id].thread
       /\ y.op[id].turn = s.op[id].turn
  BY <1>5, <1>6 DEF OpFields
<1>12. Source(id) \subseteq head /\ s.target \subseteq head /\ s.op[id].clean
  BY <1>3, <1>5 DEF Acceptable
<1>13. ~s.task[o].running /\ s.task[o].status # "done" /\ Source(id) # {}
       /\ Source(id) \subseteq s.task[o].head
       /\ \A i \in DOMAIN s.op : Current(s, i) => i = id
  <2>1. s.task[o].merge = "merging"
    BY <1>3, <1>5 DEF StillWanted
  <2>2. ~s.task[o].running
    BY <1>1, <2>1 DEF TaskIdle
  <2> QED BY <1>1, <2>2, HandFacts
<1>14. s.target \subseteq target /\ Within(target, s.target \cup Source(id))
  <2>1. target = head \/ target = s.target
    BY <1>4, <1>5, <1>6 DEF SameRest
  <2> QED BY <1>1, <1>3, <1>12, <2>1 DEF OpIdle, Candidate, Within
<1> HIDE DEF o
<1>15. ASSUME NEW i \in DOMAIN s.op, i # id PROVE ~Current(s', i) /\ s.op[i].state # "publishing"
  <2>1. ~Current(s, i)
    BY <1>13, <1>15
  <2>2. s.op[i].state \notin Interrupted /\ "publishing" \in Interrupted
    BY <2>1 DEF Current, Interrupted
  <2>3. ~Working(s')
    BY <1>9 DEF Working, Idle
  <2> QED BY <1>9, <1>10, <1>15, <2>2, <2>3 DEF Current
<1>16. ASSUME NEW i \in DOMAIN s.op, i # id PROVE OpIdle(s', i, can)
  <2>1. OpIdle(s, i, can) /\ s'.op[i] = s.op[i]
    BY <1>9, <1>10, <1>16 DEF Resting
  <2>2. Candidate(s', i) /\ Mended(s', i) /\ Told(s', i, can)
    BY <1>9, <1>14, <2>1 DEF OpIdle, Candidate, Mended, Told
  <2>3. Shown(s', i, can) /\ Due(s', i)
    BY <1>15, <1>16, <2>1 DEF Shown, Due
  <2> QED BY <2>2, <2>3 DEF OpIdle
<1>17. target = head => Landed(s', id)
  BY <1>6, <1>9 DEF Landed
<1>18. target # head => target = s.target
  BY <1>4, <1>5, <1>6 DEF SameRest
<1>19. OpIdle(s', id, can)
  <2>1. Candidate(s', id)
    BY <1>1, <1>9, <1>11, <1>14 DEF OpIdle, Candidate, o
  <2>2. Mended(s', id)
    BY <1>1, <1>9, <1>11 DEF OpIdle, Mended
  <2>3. Evidence(s', id)
    BY <1>2, <1>3, <1>5, <1>1, <1>6, <1>9 DEF Evidence, CheckId
  <2>4. Shown(s', id, can)
    <3>1. head # {}
      BY <1>12, <1>13
    <3>2. ~s'.task[Owner(id)].running
      BY <1>9, <1>13 DEF o
    <3> HIDE DEF id, head
    <3> QED BY <1>1, <1>2, <1>6, <1>9, <1>11, <1>12, <2>3, <3>1, <3>2 DEF Shown
  <2>5. Told(s', id, can)
    BY <1>1, <1>6, <1>9, <1>11 DEF OpIdle, Told
  <2>6. Due(s', id)
    <3>1. ~s'.task[Owner(id)].running
      BY <1>9, <1>13 DEF o
    <3>2. Missing(s', Source(id), Owner(id)) \/ Landed(s', id)
      BY <1>1, <1>9, <1>17, <1>18 DEF Missing, o
    <3> QED BY <3>1, <3>2 DEF Due
  <2> QED BY <2>1, <2>2, <2>4, <2>5, <2>6 DEF OpIdle
<1>20. TaskIdle(s', o, can, turns)
  <2>1. target = head => LandedOf(s', o)
    BY <1>1, <1>9, <1>10, <1>17 DEF LandedOf, o
  <2>2. ~LandedOf(s, o)
    <3>1. ~Landed(s, id)
      BY <1>1, NotLanded DEF o
    <3> QED BY <1>15, <3>1 DEF LandedOf, Landed
  <2> QED BY <1>1, <1>9, <1>18, <2>1, <2>2 DEF TaskIdle, Missing
<1>21. ASSUME NEW t \in Tasks, t # o PROVE TaskIdle(s', t, can, turns)
  <2>1. TaskIdle(s, t, can, turns) /\ s.task[t].result \subseteq s.task[t].head
    BY <1>21 DEF Resting, Inv, TaskFits
  <2>2. ~LandedOf(s, t)
    BY <1>15, <1>21 DEF LandedOf, Landed, o
  <2>3. \A e \in s.task[t].head : e[1] = t /\ e \in target => e \in s.target
    BY <1>1, <1>13, <1>14, <1>21, <2>1 DEF TaskIdle, Within
  <2> QED BY <1>9, <2>1, <2>2, <2>3 DEF TaskIdle, Missing
<1>22. Past(target, turns)
  BY <1>1, <1>13, <1>14 DEF Resting, Past, Within, TaskIdle
<1>23. Resting(s', can, turns)
  <2> HIDE DEF can, turns, head, id
  <2>1. DOMAIN s'.op = DOMAIN s.op /\ s'.target = target /\ s'.commands = s.commands
    BY <1>9, <1>10
  <2>2. \A i \in DOMAIN s'.op : OpIdle(s', i, can)
    BY <1>16, <1>19, <2>1
  <2>3. \A t \in Tasks : TaskIdle(s', t, can, turns)
    BY <1>20, <1>21
  <2> QED BY <1>2, <1>22, <2>1, <2>2, <2>3 DEF Resting
<1>24. Placed(s', can) /\ Ends(s, s')
  BY <1>9 DEF Placed, Idle, Working, Ends
<1> QED BY <1>23, <1>24 DEF Idling

-----------------------------------------------------------------------------
\* Users leave alone a task that is being published.
LEMMA PatientFacts ==
  ASSUME Patience, Settled, NEW t \in Tasks, Patient(t)
  PROVE  ~\E i \in DOMAIN s.op : Owner(i) = t /\ s.op[i].state = "publishing"
BY BoundsFacts DEF Settled, Sound, Patient, Unrecovered

LEMMA TurnEndsIdle ==
  ASSUME Patience, Settled, NEW t \in Tasks, TurnEnds(t)
  PROVE  Idling(s', left.can, left'.turns) /\ Ends(s, s')
<1> USE SettledFacts
<1> DEFINE e == <<t, left.turns>>
           less == left.turns - 1
<1>1. PICK clean \in BOOLEAN :
        s' = Completed([s EXCEPT !.task[t].head = @ \cup {e}, !.task[t].clean = clean], t)
  BY Zenon DEF TurnEnds
<1> DEFINE y == [s EXCEPT !.task[t].head = @ \cup {e}, !.task[t].clean = clean]
<1>2. /\ RowOnly(s, y, t)
      /\ y.task[t].head = s.task[t].head \cup {e}
      /\ y.task[t].result = s.task[t].result /\ y.task[t].merge = s.task[t].merge
      /\ y.task[t].status = s.task[t].status /\ y.task[t].paused = s.task[t].paused
  BY DEF RowOnly, Shape, SameRest, StateFields, TaskFields
<1>3. s' = Completed(y, t)
  BY <1>1
<1> HIDE DEF y
<1>4. /\ RowOnly(y, s', t)
      /\ s'.task[t].head = y.task[t].head /\ ~s'.task[t].running
      /\ s'.task[t].paused = y.task[t].paused
      /\ \/ /\ s'.task[t].result = y.task[t].result /\ s'.task[t].merge = y.task[t].merge
            /\ s'.task[t].status = y.task[t].status
         \/ /\ s'.task[t].result = y.task[t].head
            /\ s'.task[t].status \in {"in_review", "in_progress"}
  BY <1>2, <1>3, CompletedAt DEF RowOnly
<1>5. RowOnly(s, s', t)
  BY <1>2, <1>4 DEF RowOnly, SameRest
<1>6. left'.turns = less /\ less \in Nat /\ less <= left.turns /\ s.task[t].running
  BY DEF TurnEnds, Settled, Prudents
<1>7. TaskIdle(s, t, left.can, left.turns) /\ s.task[t].result \subseteq s.task[t].head
  BY DEF Resting, Inv, TaskFits
<1>8. e \notin s.target
  <2>1. e[1] = t /\ e[2] = left.turns
    OBVIOUS
  <2> QED BY <2>1 DEF Resting, Past
<1> HIDE DEF less
<1>9. TaskIdle(s', t, left.can, less)
  <2>1. s'.target = s.target /\ s'.op = s.op
    BY <1>5 DEF RowOnly, SameRest
  <2>2. e[1] = t /\ e[2] = left.turns /\ left.turns > less
    BY <1>6 DEF less
  <2> HIDE DEF e
  <2>3. Past(s'.task[t].head, less) /\ \A d \in s'.task[t].head : d[1] \in Tasks => d[1] = t
    BY <1>2, <1>4, <1>6, <1>7, <2>2 DEF TaskIdle, Past
  <2>4. Missing(s', s'.task[t].head, t)
    BY <1>2, <1>4, <1>8, <2>1, <2>2 DEF Missing
  <2>5. s'.task[t].merge \in Waits => Missing(s', s'.task[t].result, t) \/ LandedOf(s', t)
    BY <1>2, <1>4, <1>7, <2>1, <2>4 DEF TaskIdle, Missing, LandedOf, Landed
  <2> QED BY <1>2, <1>4, <1>7, <2>3, <2>4, <2>5 DEF TaskIdle
<1>10. Idling(s, left.can, less)
  BY <1>6, LessIdle DEF Settled
<1>11. s.task[t].result \subseteq s'.task[t].result
  BY <1>2, <1>4, <1>7
<1>12. s'.task[t].status = "done" => s.task[t].status = "done"
  BY <1>2, <1>4
<1> QED BY <1>4, <1>5, <1>6, <1>9, <1>10, <1>11, <1>12, RowIdle

LEMMA ResettleIdle ==
  ASSUME Patience, Settled, NEW t \in Tasks, Resettle(t)
  PROVE  Idling(s', left.can, left.turns) /\ Ends(s, s')
<1> USE SettledFacts
<1>1. /\ RowOnly(s, s', t)
      /\ s'.task[t].head = s.task[t].head /\ ~s'.task[t].running
      /\ s'.task[t].paused = s.task[t].paused
      /\ \/ /\ s'.task[t].result = s.task[t].result /\ s'.task[t].merge = s.task[t].merge
            /\ s'.task[t].status = s.task[t].status
         \/ /\ s'.task[t].result = s.task[t].head
            /\ s'.task[t].status \in {"in_review", "in_progress"}
  BY CompletedAt DEF Resettle
<1>2. TaskIdle(s, t, left.can, left.turns) /\ s.task[t].result \subseteq s.task[t].head
  BY DEF Resting, Inv, TaskFits
<1>3. TaskIdle(s', t, left.can, left.turns)
  <2>1. s'.target = s.target /\ s'.op = s.op
    BY <1>1 DEF RowOnly, SameRest
  <2>2. s.task[t].status # "done" /\ ~s.task[t].running
    BY DEF Resettle
  <2>3. Missing(s', s'.task[t].head, t) \/ LandedOf(s', t)
    BY <1>1, <1>2, <2>1, <2>2 DEF TaskIdle, Missing, LandedOf, Landed
  <2>4. s'.task[t].merge \in Waits => Missing(s', s'.task[t].result, t) \/ LandedOf(s', t)
    BY <1>1, <1>2, <2>1, <2>3 DEF TaskIdle, Missing, LandedOf, Landed
  <2> QED BY <1>1, <1>2, <2>3, <2>4 DEF TaskIdle
<1>4. s'.task[t].status = "done" => s.task[t].status = "done"
  BY <1>1
<1> QED BY <1>1, <1>2, <1>3, <1>4, RowIdle DEF Settled

\* Another turn of a task that nobody publishes.
LEMMA EnqueuedIdle ==
  ASSUME Patience, Settled, NEW t \in Tasks, s' = Enqueued(s, t), Patient(t),
         ~Undisturbed(left.can)
  PROVE  Idling(s', left.can, left.turns) /\ Ends(s, s')
<1> USE SettledFacts
<1>1. /\ RowOnly(s, s', t)
      /\ s'.task[t].head = s.task[t].head /\ s'.task[t].result = s.task[t].result
      /\ s'.task[t].status = "in_progress" /\ s'.task[t].merge = "none"
      /\ s'.task[t].running
  BY DEF Enqueued, RowOnly, Shape, SameRest, StateFields, TaskFields, Merges
<1>2. TaskIdle(s, t, left.can, left.turns)
  BY DEF Resting
<1>3. TaskIdle(s', t, left.can, left.turns)
  BY <1>1, <1>2 DEF TaskIdle, Waits
<1> QED BY <1>1, <1>3, PatientFacts, RowIdle DEF Settled

LEMMA ReworkIdle ==
  ASSUME Patience, Settled, NEW t \in Tasks, Rework(t)
  PROVE  Idling(s', left.can, left.turns) /\ Ends(s, s')
BY EnqueuedIdle DEF Rework, May, Undisturbed

LEMMA ResumeIdle ==
  ASSUME Patience, Settled, NEW t \in Tasks, Resume(t)
  PROVE  Idling(s', left.can, left.turns) /\ Ends(s, s')
<1> USE SettledFacts
<1>1. TaskIdle(s, t, left.can, left.turns)
  BY DEF Resting
<1>2. ~Undisturbed(left.can)
  BY <1>1 DEF Resume, TaskIdle
<1>3. CASE s' = Enqueued(s, t)
  BY <1>2, <1>3, EnqueuedIdle DEF Resume
<1>4. CASE s' = [s EXCEPT !.task[t].paused = FALSE]
  <2>1. /\ RowOnly(s, s', t)
        /\ s'.task[t].head = s.task[t].head /\ s'.task[t].result = s.task[t].result
        /\ s'.task[t].status = s.task[t].status /\ s'.task[t].merge = s.task[t].merge
        /\ s'.task[t].running = s.task[t].running
    BY <1>4 DEF RowOnly, Shape, SameRest, StateFields, TaskFields
  <2>2. s'.target = s.target /\ s'.op = s.op
    BY <2>1 DEF RowOnly, SameRest
  <2>3. TaskIdle(s', t, left.can, left.turns)
    BY <1>1, <1>2, <2>1, <2>2 DEF TaskIdle, Missing, LandedOf, Landed
  <2>4. s.task[t].running => s.task[t].merge = "none"
          \/ ~\E i \in DOMAIN s.op : Owner(i) = t /\ Current(s, i)
    BY DEF Resting, OpIdle, Due
  <2> QED BY <2>1, <2>3, <2>4, PatientFacts, RowIdle DEF Settled, Resume
<1> QED BY <1>3, <1>4 DEF Resume

\* The operations of a task that is not being published are ended.
LEMMA StoppedIdle ==
  ASSUME NEW x, NEW n, NEW can, NEW turns, Inv(x), Idling(x, can, turns), NEW t \in Tasks,
         SameRest(x, n), n.w = x.w, DOMAIN n.op = DOMAIN x.op,
         \A u \in Tasks : u # t => n.task[u] = x.task[u],
         n.task[t].result = x.task[t].result, ~n.task[t].running, TaskIdle(n, t, can, turns),
         n.task[t].status = "done" => x.task[t].status = "done",
         ~\E i \in DOMAIN x.op : Owner(i) = t /\ x.op[i].state = "publishing",
         \A i \in DOMAIN x.op : Owner(i) # t => n.op[i] = x.op[i],
         \A i \in DOMAIN x.op : Owner(i) = t =>
           /\ n.op[i].tree = x.op[i].tree /\ n.op[i].head = x.op[i].head
           /\ n.op[i].clean = x.op[i].clean /\ n.op[i].thread = x.op[i].thread
           /\ n.op[i].state \in {x.op[i].state, "blocked", "retry"}
           /\ \/ n.op[i].turn = x.op[i].turn
              \/ n.op[i].turn = "interrupted" /\ x.op[i].turn = "active"
  PROVE  Idling(n, can, turns) /\ Ends(x, n)
<1>1. /\ Resting(x, can, turns) /\ Placed(x, can) /\ \A i \in DOMAIN x.op : Owner(i) \in Tasks
      /\ Working(x) => x.w.op \in DOMAIN x.op
  BY DEF Idling, Inv, OpFits, OneCurrent
<1>2. {"blocked", "retry"} \cap (Interrupted \cup Held) = {}
  BY DEF Interrupted, Held
<1>3. \A i \in DOMAIN x.op : Current(n, i) => Current(x, i)
  BY <1>1, <1>2 DEF Current, Working
<1>4. ASSUME NEW i \in DOMAIN n.op, Owner(i) = t PROVE OpIdle(n, i, can)
  <2>1. OpIdle(x, i, can) /\ x.op[i].state # "publishing"
    BY <1>1, <1>4 DEF Resting
  <2>2. n.op[i].state # "publishing"
    BY <1>4, <2>1
  <2>3. Candidate(n, i) /\ Mended(n, i)
    BY <1>4, <2>1 DEF OpIdle, Candidate, Mended, SameRest
  <2>4. Told(n, i, can) /\ Shown(n, i, can)
    BY <1>4, <2>1, <2>2 DEF OpIdle, Told, Shown
  <2>5. Due(n, i)
    BY <1>3, <1>4, <2>1 DEF OpIdle, Due, Landed, Missing, SameRest
  <2> QED BY <2>3, <2>4, <2>5 DEF OpIdle
<1>5. ASSUME NEW i \in DOMAIN n.op, Owner(i) # t PROVE OpIdle(n, i, can)
  <2>1. OpIdle(x, i, can) /\ n.op[i] = x.op[i] /\ n.task[Owner(i)] = x.task[Owner(i)]
        /\ (Current(n, i) => Current(x, i))
    BY <1>1, <1>3, <1>5 DEF Resting
  <2>2. x.op[i].state = "publishing" => ~n.task[Owner(i)].running /\ Evidence(n, i)
    BY <2>1 DEF OpIdle, Shown, Evidence, SameRest
  <2>3. Current(x, i) /\ x.task[Owner(i)].running => x.task[Owner(i)].merge = "none"
    BY <2>1 DEF OpIdle, Due
  <2> QED BY <1>5, <2>1, <2>2, <2>3, OpStays DEF SameRest
<1>6. ASSUME NEW i \in DOMAIN x.op PROVE Landed(n, i) = Landed(x, i)
  BY DEF Landed, SameRest
<1>7. ASSUME NEW u \in Tasks, u # t PROVE TaskIdle(n, u, can, turns)
  <2>1. LandedOf(x, u) => LandedOf(n, u)
    BY <1>7 DEF LandedOf, Landed, SameRest
  <2> QED BY <1>1, <1>7, <2>1, TaskStays DEF Resting, SameRest
<1>8. Resting(n, can, turns)
  BY <1>1, <1>4, <1>5, <1>7 DEF Resting, SameRest
<1>9. Placed(n, can)
  <2>1. CASE x.w.pc = "idle"
    BY <2>1, <1>1 DEF Placed, Working
  <2>2. CASE x.w.pc # "idle" /\ Owner(x.w.op) = t
    BY <1>1, <1>2, <2>2 DEF Placed, Working, Landed, SameRest
  <2>3. CASE x.w.pc # "idle" /\ Owner(x.w.op) # t
    BY <1>1, <2>3 DEF Placed, Working, Landed, SameRest
  <2> QED BY <2>1, <2>2, <2>3
<1>10. Ends(x, n)
  BY DEF Ends
<1> QED BY <1>8, <1>9, <1>10 DEF Idling

LEMMA ApproveIdle ==
  ASSUME Patience, Settled, NEW t \in Tasks, Approve(t)
  PROVE  Idling(s', left.can, left.turns) /\ Ends(s, s')
<1> USE SettledFacts
<1> DEFINE r == s.task[t]
           mine == {i \in DOMAIN s.op : Owner(i) = t}
           ops == [i \in DOMAIN s.op |->
                     IF i \in mine /\ s.op[i].state \in Held \cup {"blocked"}
                       THEN [s.op[i] EXCEPT !.state = "retry"] ELSE s.op[i]]
<1>1. /\ r.merge \in {"pending_review", "blocked", "queued"} /\ Patient(t) /\ ~r.running
      /\ s' = [s EXCEPT !.op = ops, !.task[t].merge = "queued", !.task[t].approved = r.result]
  BY BoundsFacts DEF Approve, Settled, Sound
<1>2. /\ SameRest(s, s') /\ s'.w = s.w /\ s'.op = ops
      /\ \A u \in Tasks : u # t => s'.task[u] = s.task[u]
      /\ s'.task[t].merge = "queued" /\ s'.task[t].running = r.running
      /\ s'.task[t].result = r.result /\ s'.task[t].head = r.head
      /\ s'.task[t].status = r.status /\ s'.task[t].paused = r.paused
  <2> HIDE DEF ops
  <2> QED BY <1>1 DEF SameRest, Shape, StateFields, TaskFields
<1>3. /\ DOMAIN ops = DOMAIN s.op
      /\ \A i \in DOMAIN s.op : Owner(i) # t => ops[i] = s.op[i]
      /\ \A i \in DOMAIN s.op : Owner(i) = t =>
           /\ ops[i].tree = s.op[i].tree /\ ops[i].head = s.op[i].head
           /\ ops[i].clean = s.op[i].clean /\ ops[i].thread = s.op[i].thread
           /\ ops[i].turn = s.op[i].turn
           /\ ops[i].state \in {s.op[i].state, "blocked", "retry"}
  BY DEF Shape, OpFields
<1> HIDE DEF ops
<1>4. ~\E i \in DOMAIN s.op : Owner(i) = t /\ s.op[i].state = "publishing"
  BY <1>1, PatientFacts
<1>5. TaskIdle(s', t, left.can, left.turns)
  <2>1. TaskIdle(s, t, left.can, left.turns) /\ ~LandedOf(s, t)
    BY <1>4 DEF Resting, LandedOf, Landed
  <2>2. Missing(s', r.result, t)
    BY <1>1, <1>2, <2>1 DEF TaskIdle, Waits, Missing, SameRest
  <2>3. r.result \subseteq r.head
    BY DEF Inv, TaskFits
  <2> QED BY <1>1, <1>2, <2>1, <2>2, <2>3, Grows DEF TaskIdle
<1>6. /\ DOMAIN s'.op = DOMAIN s.op
      /\ \A i \in DOMAIN s.op : Owner(i) # t => s'.op[i] = s.op[i]
      /\ \A i \in DOMAIN s.op : Owner(i) = t =>
           /\ s'.op[i].tree = s.op[i].tree /\ s'.op[i].head = s.op[i].head
           /\ s'.op[i].clean = s.op[i].clean /\ s'.op[i].thread = s.op[i].thread
           /\ s'.op[i].state \in {s.op[i].state, "blocked", "retry"}
           /\ \/ s'.op[i].turn = s.op[i].turn
              \/ s'.op[i].turn = "interrupted" /\ s.op[i].turn = "active"
  BY <1>2, <1>3
<1>7. ~s'.task[t].running /\ s'.task[t].result = s.task[t].result
      /\ (s'.task[t].status = "done" => s.task[t].status = "done")
  BY <1>1, <1>2
<1>8. Inv(s) /\ Idling(s, left.can, left.turns)
  BY DEF Settled
<1> QED BY <1>2, <1>4, <1>5, <1>6, <1>7, <1>8, StoppedIdle

LEMMA PauseIdle ==
  ASSUME Patience, Settled, NEW t \in Tasks, Pause(t)
  PROVE  Idling(s', left.can, left.turns) /\ Ends(s, s')
<1> USE SettledFacts
<1> DEFINE r == s.task[t]
           mine == {i \in DOMAIN s.op : Owner(i) = t}
           ops == [i \in DOMAIN s.op |->
                     IF i \notin mine \/ ~s.op[i].thread THEN s.op[i]
                     ELSE [s.op[i] EXCEPT !.turn = IF @ = "active" THEN "interrupted" ELSE @,
                                          !.state = IF @ = "completed" THEN @ ELSE "blocked"]]
           checking == \E k \in DOMAIN s.check : Owner(k[1]) = t /\ s.check[k] = "running"
           merge == IF r.merge = "merging" /\ ~checking THEN "blocked" ELSE r.merge
<1>1. /\ Patient(t) /\ ~r.running /\ r.status # "done" /\ ~Undisturbed(left.can)
      /\ s' = [s EXCEPT !.op = ops, !.task[t].paused = TRUE,
                        !.task[t].merge = IF @ = "merging" /\ ~checking THEN "blocked" ELSE @]
  BY DEF Pause, Move, May, Undisturbed
<1>2. /\ SameRest(s, s') /\ s'.w = s.w /\ s'.op = ops
      /\ \A u \in Tasks : u # t => s'.task[u] = s.task[u]
      /\ s'.task[t].merge = merge /\ s'.task[t].running = r.running
      /\ s'.task[t].result = r.result /\ s'.task[t].head = r.head
      /\ s'.task[t].status = r.status
  <2> HIDE DEF ops, checking
  <2> QED BY <1>1 DEF SameRest, Shape, StateFields, TaskFields
<1>3. /\ DOMAIN ops = DOMAIN s.op
      /\ \A i \in DOMAIN s.op : Owner(i) # t => ops[i] = s.op[i]
  OBVIOUS
<1>4. ASSUME NEW i \in DOMAIN s.op
      PROVE  /\ ops[i].tree = s.op[i].tree /\ ops[i].head = s.op[i].head
             /\ ops[i].clean = s.op[i].clean /\ ops[i].thread = s.op[i].thread
             /\ ops[i].state \in {s.op[i].state, "blocked", "retry"}
             /\ \/ ops[i].turn = s.op[i].turn
                \/ ops[i].turn = "interrupted" /\ s.op[i].turn = "active"
  <2> DEFINE o == s.op[i]
             turn == IF o.turn = "active" THEN "interrupted" ELSE o.turn
             state == IF o.state = "completed" THEN o.state ELSE "blocked"
             q == [o EXCEPT !.turn = turn, !.state = state]
  <2>1. DOMAIN o = OpFields
    BY DEF Shape
  <2>2. ops[i] = o \/ ops[i] = q
    OBVIOUS
  <2>3. (turn = o.turn \/ (turn = "interrupted" /\ o.turn = "active"))
        /\ (state = o.state \/ state = "blocked")
    OBVIOUS
  <2> HIDE DEF turn, state, ops
  <2>4. /\ q.turn = turn /\ q.state = state /\ q.tree = o.tree /\ q.head = o.head
        /\ q.clean = o.clean /\ q.thread = o.thread
    BY <2>1 DEF OpFields
  <2> QED BY <2>2, <2>3, <2>4
<1> HIDE DEF ops, mine
<1>5. ~\E i \in DOMAIN s.op : Owner(i) = t /\ s.op[i].state = "publishing"
  BY <1>1, PatientFacts
<1>6. TaskIdle(s', t, left.can, left.turns)
  <2>1. TaskIdle(s, t, left.can, left.turns) /\ ~LandedOf(s, t)
    BY <1>5 DEF Resting, LandedOf, Landed
  <2>2. merge \in Waits => r.merge \in Waits
    BY DEF Waits
  <2>3. r.merge \in Waits => Missing(s', r.result, t)
    BY <1>2, <2>1 DEF TaskIdle, Missing, SameRest
  <2>4. Missing(s', r.head, t)
    BY <1>1, <1>2, <2>1 DEF TaskIdle, Missing, SameRest
  <2> HIDE DEF merge
  <2> QED BY <1>1, <1>2, <2>1, <2>2, <2>3, <2>4 DEF TaskIdle
<1> HIDE DEF merge
<1>7. /\ DOMAIN s'.op = DOMAIN s.op
      /\ \A i \in DOMAIN s.op : Owner(i) # t => s'.op[i] = s.op[i]
      /\ \A i \in DOMAIN s.op : Owner(i) = t =>
           /\ s'.op[i].tree = s.op[i].tree /\ s'.op[i].head = s.op[i].head
           /\ s'.op[i].clean = s.op[i].clean /\ s'.op[i].thread = s.op[i].thread
           /\ s'.op[i].state \in {s.op[i].state, "blocked", "retry"}
           /\ \/ s'.op[i].turn = s.op[i].turn
              \/ s'.op[i].turn = "interrupted" /\ s.op[i].turn = "active"
  BY <1>2, <1>3, <1>4
<1>8. ~s'.task[t].running /\ s'.task[t].result = s.task[t].result
      /\ (s'.task[t].status = "done" => s.task[t].status = "done")
  BY <1>1, <1>2
<1>9. Inv(s) /\ Idling(s, left.can, left.turns)
  BY DEF Settled
<1> QED BY <1>2, <1>5, <1>6, <1>7, <1>8, <1>9, StoppedIdle

\* The settings, or nothing.
LEMMA SettingIdle ==
  ASSUME NEW x, NEW n, NEW can, NEW turns, Inv(x), Idling(x, can, turns),
         n.task = x.task, n.target = x.target, n.w = x.w, n.check = x.check,
         DOMAIN n.op = DOMAIN x.op, \A i \in DOMAIN x.op : n.op[i] = x.op[i],
         n.commands = x.commands \/ ("commands" \in can /\ "crash" \notin can)
  PROVE  Idling(n, can, turns) /\ Ends(x, n)
<1>1. Resting(x, can, turns) /\ Placed(x, can) /\ (Working(x) => x.w.op \in DOMAIN x.op)
  BY DEF Idling, Inv, OneCurrent
<1>2. \A i \in DOMAIN x.op : Current(n, i) => Current(x, i)
  BY DEF Current, Working
<1>3. \A i \in DOMAIN x.op : x.op[i].state = "publishing" => "crash" \in can /\ Evidence(x, i)
  BY <1>1 DEF Resting, OpIdle, Shown
<1>4. \A i \in DOMAIN x.op : x.op[i].state = "publishing" => Evidence(n, i)
  BY <1>3 DEF Evidence
<1>5. "commands" \notin can => n.commands # 0
  BY <1>1 DEF Resting
<1>6. Resting(n, can, turns)
  BY <1>1, <1>2, <1>4, <1>5, RestIdle
<1>7. Placed(n, can)
  BY <1>1 DEF Placed, Working, Landed
<1> QED BY <1>6, <1>7 DEF Idling, Ends

\* The candidate and the turn of its repair are written by others than the worker.
LEMMA CandidateIdle ==
  ASSUME NEW x, NEW n, NEW can, NEW turns, Inv(x), Idling(x, can, turns), NEW id \in DOMAIN x.op,
         SameRest(x, n), n.task = x.task, n.w = x.w, DOMAIN n.op = DOMAIN x.op,
         \A i \in DOMAIN x.op : i # id => n.op[i] = x.op[i],
         n.op[id].state = x.op[id].state, n.op[id].result = x.op[id].result,
         n.op[id].thread = x.op[id].thread,
         n.op[id].tree \in {x.op[id].tree, "ready"},
         x.op[id].clean => n.op[id].clean,
         x.w.op = id /\ x.w.pc \in {"thread", "turn"} =>
           n.op[id].clean = x.op[id].clean /\ n.op[id].turn = x.op[id].turn,
         Within(n.op[id].head, Source(id) \cup Target(id)), Mended(n, id), Told(n, id, can)
  PROVE  Idling(n, can, turns) /\ Ends(x, n)
<1>1. /\ Resting(x, can, turns) /\ Placed(x, can) /\ OpIdle(x, id, can)
      /\ Working(x) => x.w.op \in DOMAIN x.op
  BY DEF Idling, Resting, Inv, OneCurrent
<1>2. \A i \in DOMAIN x.op : Current(n, i) => Current(x, i)
  BY DEF Current, Working
<1>3. Landed(x, id) = Landed(n, id)
  BY DEF Landed, SameRest
<1>4. OpIdle(n, id, can)
  <2>1. Candidate(n, id)
    BY <1>1 DEF OpIdle, Candidate, SameRest
  <2>2. Shown(n, id, can)
    BY <1>1 DEF OpIdle, Shown, Evidence, SameRest
  <2>3. Due(n, id)
    BY <1>1, <1>2, <1>3 DEF OpIdle, Due, Missing, SameRest
  <2> QED BY <2>1, <2>2, <2>3 DEF OpIdle
<1>5. Resting(n, can, turns)
  BY <1>1, <1>2, <1>3, <1>4, OneOpIdle
<1>6. Placed(n, can)
  <2>1. CASE x.w.op = id
    BY <1>1, <1>3, <2>1 DEF Placed, Working, SameRest
  <2>2. CASE x.w.op # id
    <3>1. Working(x) => n.op[x.w.op] = x.op[x.w.op]
      BY <1>1, <2>2
    <3> QED BY <1>1, <2>2, <3>1 DEF Placed, Working, Landed, SameRest
  <2> QED BY <2>1, <2>2
<1> QED BY <1>5, <1>6 DEF Idling, Ends

LEMMA AttachIdle ==
  ASSUME Patience, Settled, NEW t \in Tasks, Attach(t)
  PROVE  Idling(s', left.can, left.turns) /\ Ends(s, s')
<1> USE SettledFacts
<1> DEFINE id == s.task[t].op
<1>1. /\ s' = [s EXCEPT !.op[id].tree = "ready", !.op[id].head = Target(id)]
      /\ s.op[id].tree \in {"creating", "uncertain"}
  BY DEF Attach
<1> HIDE DEF id
<1>2. /\ SameRest(s, s') /\ s'.task = s.task /\ s'.w = s.w
      /\ DOMAIN s'.op = DOMAIN s.op
      /\ \A i \in DOMAIN s.op : i # id => s'.op[i] = s.op[i]
  BY <1>1 DEF Shape, SameRest, StateFields
<1>3. CASE id \notin DOMAIN s.op
  BY <1>2, <1>3, SettingIdle DEF Settled, SameRest
<1>4. CASE id \in DOMAIN s.op
  <2>1. /\ s'.op[id].tree = "ready" /\ s'.op[id].head = Target(id)
        /\ s'.op[id].clean = s.op[id].clean /\ s'.op[id].turn = s.op[id].turn
        /\ s'.op[id].thread = s.op[id].thread /\ s'.op[id].state = s.op[id].state
        /\ s'.op[id].result = s.op[id].result
    BY <1>1, <1>4 DEF Shape, StateFields, OpFields
  <2>2. OpIdle(s, id, left.can) /\ ~s.op[id].thread
    BY <1>1, <1>4 DEF Resting, OpIdle, Mended
  <2>3. Within(s'.op[id].head, Source(id) \cup Target(id)) /\ Mended(s', id)
        /\ Told(s', id, left.can)
    BY <2>1, <2>2 DEF Within, OpIdle, Mended, Told
  <2> QED BY <1>2, <1>4, <2>1, <2>3, CandidateIdle DEF Settled
<1> QED BY <1>3, <1>4

\* Others push to the target what is no change of a task.
LEMMA PushIdle ==
  ASSUME Named, Settled, Push
  PROVE  Idling(s', left.can, left.turns) /\ Ends(s, s')
<1> USE SettledFacts
<1> DEFINE e == <<"push", left.moves>>
<1>1. /\ s'.target = s.target \cup {e} /\ s'.task = s.task /\ s'.op = s.op /\ s'.w = s.w
      /\ s'.check = s.check /\ s'.commands = s.commands
  BY DEF Push, Shape, StateFields
<1>2. e[1] \notin Tasks
  BY DEF Named
<1> HIDE DEF e
<1>3. ASSUME NEW commit, NEW t \in Tasks PROVE Missing(s', commit, t) <=> Missing(s, commit, t)
  BY <1>1, <1>2 DEF Missing
<1>4. ASSUME NEW i \in DOMAIN s.op, Landed(s, i) PROVE Landed(s', i)
  BY <1>1, <1>4 DEF Landed
<1>5. ASSUME NEW i \in DOMAIN s.op PROVE OpIdle(s', i, left.can)
  <2>1. OpIdle(s, i, left.can) /\ Owner(i) \in Tasks /\ Current(s', i) = Current(s, i)
    BY <1>1 DEF Resting, Inv, OpFits, Current, Working
  <2>2. Candidate(s', i) /\ Mended(s', i) /\ Told(s', i, left.can)
    BY <1>1, <2>1 DEF OpIdle, Candidate, Mended, Told
  <2>3. Shown(s', i, left.can)
    BY <1>1, <2>1 DEF OpIdle, Shown, Evidence
  <2>4. Due(s', i)
    BY <1>1, <1>3, <1>4, <2>1 DEF OpIdle, Due
  <2> QED BY <2>2, <2>3, <2>4 DEF OpIdle
<1>6. ASSUME NEW t \in Tasks PROVE TaskIdle(s', t, left.can, left.turns)
  <2>1. TaskIdle(s, t, left.can, left.turns)
    BY DEF Resting
  <2>2. LandedOf(s, t) => LandedOf(s', t)
    BY <1>1, <1>4 DEF LandedOf
  <2> QED BY <1>1, <1>3, <2>1, <2>2 DEF TaskIdle
<1>7. Past(s'.target, left.turns)
  BY <1>1, <1>2 DEF Resting, Past
<1>8. Resting(s', left.can, left.turns)
  BY <1>1, <1>5, <1>6, <1>7 DEF Resting
<1>9. Placed(s', left.can)
  <2>1. ASSUME Working(s), Landed(s', s.w.op) PROVE Landed(s, s.w.op)
    <3>1. /\ s.w.op \in DOMAIN s.op /\ Owner(s.w.op) \in Tasks /\ Current(s, s.w.op)
          /\ OpIdle(s, s.w.op, left.can) /\ OpFits(s, s.w.op)
      BY <2>1, InHand DEF Working, Inv
    <3>2. s.op[s.w.op].result # {} /\ Source(s.w.op) \subseteq s.op[s.w.op].result
      BY <1>1, <2>1, <3>1 DEF Landed, OpIdle, Shown, OpFits
    <3>3. ~Missing(s', Source(s.w.op), Owner(s.w.op))
      BY <1>1, <2>1, <3>2 DEF Landed, Missing
    <3> QED BY <1>3, <3>1, <3>3 DEF OpIdle, Due
  <2> QED BY <1>1, <2>1 DEF Placed, Working
<1> QED BY <1>1, <1>8, <1>9 DEF Idling, Ends

\* ... and commit such changes in a worktree.
LEMMA TouchIdle ==
  ASSUME Named, Settled, Touch
  PROVE  Idling(s', left.can, left.turns) /\ Ends(s, s')
<1> USE SettledFacts
<1> DEFINE e == <<"touch", left.moves>>
<1>1. e[1] \notin Tasks
  BY DEF Named
<1>2. ASSUME NEW t \in Tasks, s' = [s EXCEPT !.task[t].head = @ \cup {e}]
      PROVE  Idling(s', left.can, left.turns) /\ Ends(s, s')
  <2>1. /\ RowOnly(s, s', t)
        /\ s'.task[t].head = s.task[t].head \cup {e} /\ s'.task[t].result = s.task[t].result
        /\ s'.task[t].status = s.task[t].status /\ s'.task[t].merge = s.task[t].merge
        /\ s'.task[t].running = s.task[t].running /\ s'.task[t].paused = s.task[t].paused
    BY <1>2 DEF RowOnly, Shape, SameRest, StateFields, TaskFields
  <2> HIDE DEF e
  <2>2. s'.target = s.target /\ s'.op = s.op
    BY <2>1 DEF RowOnly, SameRest
  <2>3. TaskIdle(s, t, left.can, left.turns)
    BY DEF Resting
  <2>4. Past(s'.task[t].head, left.turns) /\ \A d \in s'.task[t].head : d[1] \in Tasks => d[1] = t
    BY <1>1, <2>1, <2>3 DEF TaskIdle, Past
  <2>5. TaskIdle(s', t, left.can, left.turns)
    BY <2>1, <2>2, <2>3, <2>4 DEF TaskIdle, Missing, LandedOf, Landed
  <2>6. s.task[t].running =>
          ~\E i \in DOMAIN s.op : Owner(i) = t /\ s.op[i].state = "publishing"
    BY DEF Resting, OpIdle, Shown
  <2>7. s.task[t].running => s.task[t].merge = "none"
          \/ ~\E i \in DOMAIN s.op : Owner(i) = t /\ Current(s, i)
    BY DEF Resting, OpIdle, Due
  <2> QED BY <2>1, <2>5, <2>6, <2>7, RowIdle DEF Settled
<1>3. ASSUME NEW i \in DOMAIN s.op, s' = [s EXCEPT !.op[i].head = @ \cup {e}]
      PROVE  Idling(s', left.can, left.turns) /\ Ends(s, s')
  <2>1. /\ SameRest(s, s') /\ s'.task = s.task /\ s'.w = s.w /\ DOMAIN s'.op = DOMAIN s.op
        /\ \A j \in DOMAIN s.op : j # i => s'.op[j] = s.op[j]
        /\ s'.op[i].head = s.op[i].head \cup {e} /\ s'.op[i].tree = s.op[i].tree
        /\ s'.op[i].clean = s.op[i].clean /\ s'.op[i].turn = s.op[i].turn
        /\ s'.op[i].thread = s.op[i].thread /\ s'.op[i].state = s.op[i].state
        /\ s'.op[i].result = s.op[i].result
    BY <1>3 DEF Shape, SameRest, StateFields, OpFields
  <2> HIDE DEF e
  <2>2. OpIdle(s, i, left.can)
    BY DEF Resting
  <2>3. Within(s'.op[i].head, Source(i) \cup Target(i)) /\ Mended(s', i) /\ Told(s', i, left.can)
    BY <1>1, <2>1, <2>2 DEF Within, OpIdle, Candidate, Mended, Told
  <2> QED BY <2>1, <2>3, CandidateIdle DEF Settled
<1> QED BY <1>2, <1>3 DEF Touch

LEMMA SettingsIdle ==
  ASSUME Settled, SetDirty \/ SetCommands \/ LocalTurn
  PROVE  Idling(s', left.can, left.turns) /\ Ends(s, s')
<1> USE SettledFacts
<1>1. /\ s'.task = s.task /\ s'.op = s.op /\ s'.w = s.w /\ s'.target = s.target
      /\ s'.check = s.check
      /\ s'.commands = s.commands \/ May("commands")
  BY DEF SetDirty, SetCommands, LocalTurn, Move, Shape, StateFields
<1>2. May("commands") => "commands" \in left.can /\ "crash" \notin left.can
  BY DEF May, Prudent
<1> QED BY <1>1, <1>2, SettingIdle DEF Settled

LEMMA RepairIdle ==
  ASSUME Patience, Named, Settled, Repair
  PROVE  Idling(s', left.can, left.turns) /\ Ends(s, s')
<1> USE SettledFacts
<1>1. PICK i \in DOMAIN s.op :
        /\ s.op[i].turn = "active"
        /\ \/ s' = [s EXCEPT !.op[i] = Repaired(@, i)]
           \/ s' = [s EXCEPT !.op[i].turn = "failed"]
           \/ May("quota") /\ s' = [s EXCEPT !.op[i].turn = "quota"]
  BY DEF Repair
<1> DEFINE o == s.op[i]
           e == <<"repair", Cardinality(o.head)>>
<1>2. OpIdle(s, i, left.can) /\ ~o.clean /\ o.thread /\ o.tree = "ready" /\ o.state \in Held
  BY <1>1 DEF Resting, OpIdle, Mended, Good, Repairing
<1>3. e[1] \notin Tasks
  BY DEF Named
<1>4. ~(s.w.op = i /\ s.w.pc \in {"thread", "turn"})
  BY <1>1 DEF Placed, Good, Repairing
<1>5. /\ SameRest(s, s') /\ s'.task = s.task /\ s'.w = s.w /\ DOMAIN s'.op = DOMAIN s.op
      /\ \A j \in DOMAIN s.op : j # i => s'.op[j] = s.op[j]
      /\ s'.op[i].state = o.state /\ s'.op[i].result = o.result /\ s'.op[i].thread = o.thread
      /\ s'.op[i].tree = o.tree
      /\ \/ /\ s'.op[i].turn = "completed" /\ s'.op[i].clean
            /\ s'.op[i].head = o.head \cup Source(i) \cup {e}
         \/ /\ s'.op[i].turn \in {"failed", "quota"} /\ s'.op[i].clean = o.clean
            /\ s'.op[i].head = o.head /\ (s'.op[i].turn = "quota" => May("quota"))
  <2>1. DOMAIN o = OpFields
    BY DEF Shape
  <2>2. CASE s' = [s EXCEPT !.op[i] = Repaired(@, i)]
    <3> DEFINE q == Repaired(o, i)
    <3>1. s' = [s EXCEPT !.op[i] = q]
      BY <2>2
    <3>2. /\ q.turn = "completed" /\ q.clean /\ q.head = o.head \cup Source(i) \cup {e}
          /\ q.state = o.state /\ q.thread = o.thread /\ q.result = o.result /\ q.tree = o.tree
      <4> HIDE DEF o
      <4> QED BY <2>1 DEF OpFields, Repaired
    <3> HIDE DEF q, e
    <3>3. /\ SameRest(s, s') /\ s'.task = s.task /\ s'.w = s.w /\ DOMAIN s'.op = DOMAIN s.op
          /\ \A j \in DOMAIN s.op : j # i => s'.op[j] = s.op[j]
          /\ s'.op[i] = q
      BY <3>1 DEF Shape, SameRest, StateFields
    <3> QED BY <3>2, <3>3
  <2>3. CASE s' = [s EXCEPT !.op[i].turn = "failed"]
    BY <2>3 DEF Shape, SameRest, StateFields, OpFields
  <2>4. CASE May("quota") /\ s' = [s EXCEPT !.op[i].turn = "quota"]
    BY <2>4 DEF Shape, SameRest, StateFields, OpFields
  <2> QED BY <1>1, <2>2, <2>3, <2>4
<1> HIDE DEF e
<1>6. Within(s'.op[i].head, Source(i) \cup Target(i))
  BY <1>2, <1>3, <1>5 DEF OpIdle, Candidate, Within
<1>7. Mended(s', i)
  BY <1>2, <1>5 DEF Mended
<1>8. Told(s', i, left.can)
  BY <1>2, <1>5 DEF OpIdle, Told
<1>9. o.clean => s'.op[i].clean
  BY <1>2
<1>10. Idling(s, left.can, left.turns) /\ s'.op[i].tree \in {o.tree, "ready"}
  BY <1>5 DEF Settled
<1> QED BY <1>4, <1>5, <1>6, <1>7, <1>8, <1>9, <1>10, CandidateIdle

\* An attempt begins with what an earlier one of it has left.
LEMMA BeginsIdle ==
  ASSUME Settled, ~Working(s), NEW t \in Tasks, s.task[t].merge = "queued",
         \A i \in DOMAIN s.op : s.op[i].state \notin Interrupted
  PROVE  LET id == <<t, s.task[t].result, s.target>>
             x == Begins(s, t, id)
         IN
         /\ Hand(x, id, left.can, left.turns) /\ x.w.pc = "tree" /\ ~x.w.recovering
         /\ x.op[id].state = "preparing"
         /\ \A u \in Tasks : x.task[u].status = s.task[u].status
              /\ x.task[u].running = s.task[u].running
<1> USE SettledFacts
<1> DEFINE id == <<t, s.task[t].result, s.target>>
           x == Begins(s, t, id)
<1>0. ASSUME NEW review, Good(s, review)
      PROVE  /\ Handles(x, id, review) /\ x.w.pc = "tree" /\ ~x.w.recovering /\ SameRest(s, x)
             /\ DOMAIN x.op = DOMAIN s.op \cup {id}
             /\ \A u \in Tasks : u # t => x.task[u] = s.task[u]
             /\ x.task[t].merge = "merging"
             /\ \A f \in TaskFields : f \notin {"merge", "op"} => x.task[t][f] = s.task[t][f]
             /\ x.op[id].state = "preparing"
             /\ \A i \in DOMAIN s.op : i # id => x.op[i] = s.op[i]
             /\ id \in DOMAIN s.op => \A f \in OpFields : f # "state" => x.op[id][f] = s.op[id][f]
             /\ id \notin DOMAIN s.op =>
                  /\ x.op[id].head = {} /\ x.op[id].turn = "none"
                  /\ ~x.op[id].thread /\ x.op[id].clean
  BY <1>0, BeginsHandles
<1>1. /\ Handles(x, id, FALSE) /\ x.w.pc = "tree" /\ ~x.w.recovering /\ SameRest(s, x)
      /\ DOMAIN x.op = DOMAIN s.op \cup {id}
      /\ \A u \in Tasks : u # t => x.task[u] = s.task[u]
      /\ x.task[t].merge = "merging"
      /\ \A f \in TaskFields : f \notin {"merge", "op"} => x.task[t][f] = s.task[t][f]
      /\ x.op[id].state = "preparing"
      /\ \A i \in DOMAIN s.op : i # id => x.op[i] = s.op[i]
      /\ id \in DOMAIN s.op => \A f \in OpFields : f # "state" => x.op[id][f] = s.op[id][f]
      /\ id \notin DOMAIN s.op =>
           /\ x.op[id].head = {} /\ x.op[id].turn = "none"
           /\ ~x.op[id].thread /\ x.op[id].clean
  BY <1>0
<1>2. Owner(id) = t /\ Source(id) = s.task[t].result /\ Target(id) = s.target
  BY DEF Owner, Source, Target
<1> HIDE DEF x, id
<1>3. /\ x.task[t].status = s.task[t].status /\ x.task[t].running = s.task[t].running
      /\ x.task[t].paused = s.task[t].paused /\ x.task[t].result = s.task[t].result
      /\ x.task[t].head = s.task[t].head
  BY <1>1 DEF TaskFields
<1>4. \A i \in DOMAIN s.op : s.op[i].state # "publishing"
  BY DEF Interrupted
<1>5. \A u \in Tasks : ~LandedOf(s, u)
  BY <1>4 DEF LandedOf, Landed
<1>6. /\ TaskIdle(s, t, left.can, left.turns) /\ ~s.task[t].running
      /\ Missing(s, s.task[t].result, t)
  BY <1>5 DEF Resting, TaskIdle, Waits
<1>7. Missing(x, s.task[t].result, t) /\ Missing(x, s.task[t].head, t)
  <2>1. s.task[t].result \subseteq s.task[t].head
    BY DEF Inv, TaskFits
  <2> QED BY <1>1, <1>6, <2>1 DEF Missing, SameRest
<1>8. OpIdle(x, id, left.can)
  <2>1. /\ Within(x.op[id].head, Source(id) \cup Target(id)) /\ Mended(x, id)
        /\ Told(x, id, left.can)
    <3>1. CASE id \in DOMAIN s.op
      <4>1. /\ OpIdle(s, id, left.can)
            /\ x.op[id].head = s.op[id].head /\ x.op[id].turn = s.op[id].turn
            /\ x.op[id].thread = s.op[id].thread /\ x.op[id].clean = s.op[id].clean
            /\ x.op[id].tree = s.op[id].tree
        BY <1>1, <3>1 DEF Resting, OpFields
      <4> QED BY <1>1, <4>1 DEF OpIdle, Candidate, Mended, Told
    <3>2. CASE id \notin DOMAIN s.op
      BY <1>1, <3>2 DEF Within, Mended, Told
    <3> QED BY <3>1, <3>2
  <2>2. Candidate(x, id)
    BY <1>1, <1>2, <1>3, <2>1 DEF Candidate, SameRest
  <2>3. Shown(x, id, left.can)
    BY <1>1 DEF Shown
  <2>4. Due(x, id)
    BY <1>2, <1>3, <1>6, <1>7 DEF Due
  <2> QED BY <2>1, <2>2, <2>3, <2>4 DEF OpIdle
<1>9. ASSUME NEW i \in DOMAIN x.op, i # id PROVE OpIdle(x, i, left.can)
  <2>1. i \in DOMAIN s.op /\ OpIdle(s, i, left.can) /\ x.op[i] = s.op[i] /\ Owner(i) \in Tasks
    BY <1>1, <1>9 DEF Resting, Inv, OpFits
  <2>2. ~Current(x, i)
    BY <1>1, <1>9, <2>1 DEF Current, Handles
  <2>3. s.task[Owner(i)].result \subseteq x.task[Owner(i)].result
    BY <1>1, <1>3, <2>1
  <2> QED BY <1>1, <1>4, <2>1, <2>2, <2>3, OpStays DEF SameRest
<1>10. TaskIdle(x, t, left.can, left.turns)
  BY <1>1, <1>3, <1>6, <1>7 DEF TaskIdle
<1>11. ASSUME NEW u \in Tasks, u # t PROVE TaskIdle(x, u, left.can, left.turns)
  BY <1>1, <1>5, <1>11, TaskStays DEF Resting, SameRest
<1>12. Resting(x, left.can, left.turns)
  BY <1>1, <1>8, <1>9, <1>10, <1>11 DEF Resting, SameRest
<1>13. x.op[id].state \notin Held
  BY <1>1 DEF Held
<1>14. Hand(x, id, left.can, left.turns)
  BY <1>1, <1>2, <1>7, <1>12, <1>13 DEF Hand, Carries
<1>15. \A u \in Tasks : x.task[u].status = s.task[u].status
         /\ x.task[u].running = s.task[u].running
  BY <1>1, <1>3
<1> QED BY <1>1, <1>14, <1>15 DEF x, id

LEMMA PrepareIdle ==
  ASSUME Patience, Settled, NEW t \in Tasks, Prepare(t)
  PROVE  Idling(s', left.can, left.turns) /\ Ends(s, s')
<1> USE SettledFacts
<1> DEFINE id == <<t, s.task[t].result, s.target>>
           x == Begins(s, t, id)
           tree == x.op[id].tree
<1>1. /\ ~Working(s) /\ s.task[t].merge = "queued"
      /\ \A i \in DOMAIN s.op : s.op[i].state \in Interrupted => s.op[i].state \in Held
      /\ IF Refuses(t, id) THEN s' = SetMerge(s, t, "blocked")
         ELSE CASE tree = "ready" -> \E c \in Conflicts : s' = Integrates(x, id, c)
                [] tree = "none" -> s' = [x EXCEPT !.op[id].tree = "creating"]
                [] OTHER -> s' = Fails(x)
  BY DEF Prepare, Working
<1>2. CASE Refuses(t, id)
  <2>1. s' = SetMerge(s, t, "blocked")
    BY <1>1, <1>2
  <2>2. /\ Shape(s') /\ SameRest(s, s') /\ s'.op = s.op /\ s'.w = s.w
        /\ \A u \in Tasks : u # t => s'.task[u] = s.task[u]
        /\ s'.task[t].merge = "blocked"
        /\ \A f \in TaskFields : f # "merge" => s'.task[t][f] = s.task[t][f]
    <3>1. Shape(s) /\ "blocked" \in Merges
      BY Members
    <3> HIDE DEF id, x, tree
    <3> QED BY <2>1, <3>1, SetMergeAt
  <2>3. /\ s'.task[t].result = s.task[t].result /\ s'.task[t].head = s.task[t].head
        /\ s'.task[t].running = s.task[t].running /\ s'.task[t].status = s.task[t].status
        /\ s'.task[t].paused = s.task[t].paused
    BY <2>2 DEF TaskFields
  <2>4. /\ TaskIdle(s, t, left.can, left.turns) /\ ~s.task[t].running
        /\ LandedOf(s, t) => LandedOf(s', t)
    BY <1>1, <2>2 DEF Resting, TaskIdle, LandedOf, Landed, SameRest
  <2>5. TaskIdle(s', t, left.can, left.turns)
    BY <1>1, <2>2, <2>3, <2>4 DEF TaskIdle, Waits, Missing, SameRest
  <2>6. RowOnly(s, s', t) /\ s.task[t].result \subseteq s'.task[t].result
    BY <2>2, <2>3 DEF RowOnly
  <2>7. ~s'.task[t].running /\ (s'.task[t].status = "done" => s.task[t].status = "done")
    BY <2>3, <2>4
  <2> QED BY <2>5, <2>6, <2>7, RowIdle DEF Settled
<1>3. CASE ~Refuses(t, id)
  <2>1. \A i \in DOMAIN s.op : s.op[i].state \notin Interrupted
    BY <1>1, <1>3 DEF Refuses
  <2>2. /\ Hand(x, id, left.can, left.turns) /\ x.w.pc = "tree" /\ ~x.w.recovering
        /\ x.op[id].state = "preparing"
        /\ \A u \in Tasks : x.task[u].status = s.task[u].status
             /\ x.task[u].running = s.task[u].running
    BY <1>1, <2>1, BeginsIdle
  <2>3. \/ tree = "ready" /\ \E c \in Conflicts : s' = Integrates(x, id, c)
        \/ tree = "none" /\ s' = [x EXCEPT !.op[id].tree = "creating"]
        \/ s' = Fails(x)
    BY <1>1, <1>3
  <2> HIDE DEF x, id
  <2>4. CASE tree = "ready" /\ \E c \in Conflicts : s' = Integrates(x, id, c)
    <3>1. Idling(s', left.can, left.turns) /\ Ends(x, s')
      BY <2>2, <2>4, IntegratesIdle
    <3> QED BY <2>2, <3>1, EndsAfter
  <2>5. CASE tree = "none" /\ s' = [x EXCEPT !.op[id].tree = "creating"]
    <3>1. /\ Shape(x) /\ id \in DOMAIN x.op /\ OpIdle(x, id, left.can) /\ x.w.op = id
      BY <2>2 DEF Hand, Handles, Good, Inv, Carries, Resting
    <3>2. /\ Alike(x, s') /\ s'.task = x.task /\ s'.w = x.w
          /\ \A i \in DOMAIN x.op : i # id => s'.op[i] = x.op[i]
          /\ s'.op[id].head = x.op[id].head /\ s'.op[id].clean = x.op[id].clean
          /\ s'.op[id].turn = x.op[id].turn /\ s'.op[id].thread = x.op[id].thread
          /\ s'.op[id].state = x.op[id].state
      BY <2>5, <3>1 DEF Alike, Shape, SameRest, StateFields, OpFields
    <3>3. ~x.op[id].thread
      BY <2>5, <3>1 DEF OpIdle, Mended
    <3>4. Within(s'.op[id].head, Source(id) \cup Target(id)) /\ Mended(s', id)
      BY <3>1, <3>2, <3>3 DEF OpIdle, Candidate, Mended
    <3>5. Hand(s', id, left.can, left.turns)
      BY <2>2, <3>2, <3>4, CandidateHand
    <3>6. s'.op[id].state \notin Held /\ ~Landed(s', id)
      BY <2>2, <3>2 DEF Held, Landed
    <3>7. Placed(s', left.can)
      BY <2>2, <3>1, <3>2, <3>3, <3>6 DEF Placed
    <3>8. Ends(x, s')
      BY <3>2 DEF Ends
    <3>9. Ends(s, s')
      BY <2>2, <3>8, EndsAfter
    <3> QED BY <3>5, <3>7, <3>9 DEF Hand, Carries, Idling
  <2>6. CASE s' = Fails(x)
    <3>1. Idling(s', left.can, left.turns) /\ Ends(x, s')
      BY <2>2, <2>6, HandFails
    <3> QED BY <2>2, <3>1, EndsAfter
  <2> QED BY <2>3, <2>4, <2>5, <2>6
<1> QED BY <1>2, <1>3

-----------------------------------------------------------------------------
\* Every step keeps the invariant, and ends no task whose turn runs.
LEMMA IdleStep ==
  ASSUME Patience, Named, Settled, [Next]_vars
  PROVE  (Idling(s', left.can, left.turns) \/ Idling(s', left.can, left'.turns)) /\ Ends(s, s')
<1>1. CASE \E t \in Tasks : Prepare(t)
  BY <1>1, PrepareIdle
<1>2. CASE TreeMade
  BY <1>2, TreeMadeIdle
<1>3. CASE ThreadMade
  BY <1>3, ThreadMadeIdle
<1>4. CASE TurnStarted
  BY <1>4, TurnStartedIdle
<1>5. CASE TurnOver
  BY <1>5, TurnOverIdle
<1>6. CASE Verified
  BY <1>6, VerifiedIdle
<1>7. CASE RecoverRead
  BY <1>7, RecoverReadIdle
<1>8. CASE \E i \in DOMAIN s.op : Recover(i)
  BY <1>8, RecoverIdle
<1>9. CASE NotPrepared \/ TurnLost \/ TurnRefused
  BY <1>9, NotPreparedIdle, TurnLostIdle, TurnRefusedIdle
<1>10. CASE NotRecovered \/ Crash \/ CrashPublishing
  BY <1>10, WorkerDoneIdle, CrashPublishingIdle
<1>11. CASE \E t \in Tasks : TurnEnds(t) \/ Resettle(t)
  BY <1>11, TurnEndsIdle, ResettleIdle
<1>12. CASE \E t \in Tasks : Rework(t) \/ Approve(t) \/ Pause(t) \/ Resume(t) \/ Attach(t)
  BY <1>12, ReworkIdle, ApproveIdle, PauseIdle, ResumeIdle, AttachIdle
<1>13. CASE Push
  BY <1>13, PushIdle
<1>14. CASE Touch \/ SetDirty \/ SetCommands \/ LocalTurn \/ Repair \/ StartsLate
  BY <1>14, TouchIdle, SettingsIdle, RepairIdle, WorkerDoneIdle
<1>15. CASE UNCHANGED vars
  <2>1. s' = s
    BY <1>15 DEF vars
  <2>2. Inv(s) /\ Idling(s, left.can, left.turns)
    BY SettledFacts DEF Settled
  <2> QED BY <2>1, <2>2 DEF Ends
<1> QED
  BY <1>1, <1>2, <1>3, <1>4, <1>5, <1>6, <1>7, <1>8, <1>9, <1>10, <1>11, <1>12, <1>13, <1>14,
     <1>15 DEF Next, Worker

LEMMA SettledNext ==
  ASSUME Patience, Named, Settled, [Next]_vars
  PROVE  Settled' /\ Ends(s, s')
<1>1. Sound'
  BY SoundNext DEF Settled
<1>2. /\ left' \in Prudents /\ left'.can = left.can
      /\ left.turns \in Nat /\ left'.turns \in Nat /\ left'.turns <= left.turns
  <2>1. /\ left \in [can : SUBSET Operation, review : BOOLEAN, turns : Nat, moves : Nat,
                     trouble : Nat]
        /\ Prudent(left.can)
    BY DEF Settled, Prudents
  <2>2. /\ left' \in [can : SUBSET Operation, review : BOOLEAN, turns : Nat, moves : Nat,
                      trouble : Nat]
        /\ left'.can = left.can
        /\ left.turns \in Nat /\ left'.turns \in Nat /\ left'.turns <= left.turns
    BY <2>1, LeftStep
  <2> QED BY <2>1, <2>2 DEF Prudents
<1>3. (Idling(s', left.can, left.turns) \/ Idling(s', left.can, left'.turns)) /\ Ends(s, s')
  BY IdleStep
<1>4. Idling(s', left'.can, left'.turns)
  BY <1>2, <1>3, LessIdle
<1> QED BY <1>1, <1>2, <1>3, <1>4 DEF Settled

LEMMA SettledInit ==
  ASSUME Init, left \in Prudents
  PROVE  Settled
<1>1. left \in Prudents
  OBVIOUS
<1>2. /\ DOMAIN s.op = {} /\ s.target = {} /\ s.commands = 1 /\ s.w = Idle
      /\ \A t \in Tasks : s.task[t] = NewTask
  BY DEF Init
<1>3. /\ NewTask.merge = "none" /\ NewTask.running /\ ~NewTask.paused
      /\ NewTask.result = {} /\ NewTask.head = {}
  BY DEF NewTask
<1>4. \A t \in Tasks : TaskIdle(s, t, left.can, left.turns)
  BY <1>2, <1>3 DEF TaskIdle, Past, Waits
<1>5. Resting(s, left.can, left.turns)
  BY <1>2, <1>4 DEF Resting, Past
<1>6. Placed(s, left.can)
  BY <1>2 DEF Placed, Idle, Working
<1> QED BY <1>1, <1>5, <1>6, SoundInit DEF Settled, Idling

\* An integration never ends a task whose next turn has begun (ParallelRuntime.merged,
\* recover_operation), where nobody touches a task whose repair is being started, no request
\* times out and no start comes late, a lost answer or a usage limit does not meet rework or
\* a pause, nor a restart changed commands.
THEOREM IdlesWhenDone == ASSUME Named PROVE Spec /\ left \in Prudents => DoneIsIdle
<1>1. Init /\ left \in Prudents => Settled
  BY SettledInit
<1>2. Settled /\ [Next]_vars => Settled'
  BY SettledFacts, SettledNext
<1>3. Settled /\ [Next]_vars =>
        [\A t \in Tasks : s.task[t].status # "done" /\ s'.task[t].status = "done" =>
           ~s.task[t].running]_vars
  BY SettledFacts, SettledNext DEF Ends
<1> QED BY <1>1, <1>2, <1>3, PTL DEF Spec, DoneIsIdle
=============================================================================
