----------------------------- MODULE PlanningProofs -----------------------------
(***************************************************************************)
(* A conversation of a plan that is not over holds its task back, and only    *)
(* what the task says by then is accepted.                                      *)
(*                                                                         *)
(* Every step changes one conversation, its operation and its turns (Change),  *)
(* or adds one (Start), or moves the lock; what a conversation must satisfy is   *)
(* Row, and what the holder of the lock and the waiting worker know is Holds.   *)
(***************************************************************************)
EXTENDS Planning, TLAPS

OpState == Over \cup {"pending", "starting", "conversation", "uncertain", "agent_running",
                      "blocked", "ready"}
TaskRec == [text : Nat, back : BOOLEAN, hold : BOOLEAN, op : Nat, accepted : Nat, taken : BOOLEAN]
OpRec == [state : OpState, thread : BOOLEAN, turn : Nat, prev : Nat, plan : Nat,
          edited : BOOLEAN, req : Nat, asks : {"none", "question", "async"},
          owed : SUBSET [turn : Nat, req : Nat]]
ToldRec == [req : Nat, late : BOOLEAN]
TurnRec == [status : {"active", "completed", "failed", "interrupted"}, plan : BOOLEAN,
            by : {"board", "native", "astray"}, told : ToldRec]
LockRec == [pc : {"idle", "thread", "send", "steer", "turn", "save", "accept", "cancel",
                  "stopped", "observe"},
            why : {"none", "start", "continue", "answer", "user", "loop"},
            op : Nat, req : Nat, fresh : BOOLEAN, seen : Nat]

Fields == {"task", "ops", "turns", "worker", "w"}

\* Conversation i holds the task back.
Held(task, i) == task.hold /\ task.op = i

\* Requirements req are no older than those recorded of operation o.
Fresh(task, o, req) == req # 0 /\ ~task.back => o.req <= req /\ req <= task.text

\* What a turn was told in time is that fresh.
Timely(task, o, told) == ~told.late => Fresh(task, o, told.req)

\* The last of the turns was told what is recorded, and runs for who holds the task back.
LastTurn(task, o, ts, i) ==
  Len(ts) > 0 =>
    /\ Timely(task, o, ts[Len(ts)].told)
    /\ ts[Len(ts)].status = "active" /\ ts[Len(ts)].by = "board" => Held(task, i)

\* What is true of operation o, with turns ts, of conversation i.
Row(task, o, ts, i) ==
  /\ o \in OpRec /\ ts \in Seq(TurnRec)
  /\ o.state \notin Over <=> Held(task, i)
  /\ ~o.thread => Len(ts) = 0 /\ o.asks = "none"
  /\ o.state = "pending" => ~o.thread
  /\ o.turn <= Len(ts) /\ o.plan \in {0, o.turn}
  /\ o.plan # 0 => ts[o.plan].status = "completed" /\ ts[o.plan].plan
  /\ ~task.back => o.req <= task.text
  /\ LastTurn(task, o, ts, i)

\* What is true while the lock is w and a worker waits: who holds the lock for a
\* conversation that is not over knows its operation o.
Holds(task, o, w) ==
  /\ w \in LockRec
  /\ w.pc = "idle" => w.why = "none"
  /\ w.pc \notin {"idle", "save"} => Held(task, w.op) /\ o.state \notin Over
  /\ w.pc \notin {"idle", "save", "thread"} => o.thread
  /\ w.pc = "save" => w.why = "user"
  /\ w.pc # "idle" => Fresh(task, o, w.req)

Waits(task, ops, w, worker) ==
  worker # 0 =>
    /\ Held(task, worker)
    /\ IF w.why = "start" THEN w.op = worker
       ELSE w.pc = "idle" /\ ops[worker].state = "pending"

Good(x) ==
  /\ DOMAIN x = Fields
  /\ x.task \in TaskRec /\ x.ops \in Seq(OpRec) /\ x.turns \in Seq(Seq(TurnRec))
  /\ x.worker \in 0..Len(x.ops) /\ Len(x.turns) = Len(x.ops)
  /\ x.task.op \in 0..Len(x.ops) /\ x.task.accepted \in 0..Len(x.ops)
  /\ x.task.hold => x.task.op # 0
  /\ \A i \in 1..Len(x.ops) : Row(x.task, x.ops[i], x.turns[i], i)
  /\ x.w.pc # "idle" => x.w.op \in 1..Len(x.ops)
  /\ Holds(x.task, x.ops[x.w.op], x.w)
  /\ Waits(x.task, x.ops, x.w, x.worker)

\* Operation o of conversation i of x is accepted, if it is.
Rightly(x, o, i) ==
  o.state = "confirmed" /\ x.ops[i].state # "confirmed" =>
    LET turn == x.turns[i][Last(x, i)] IN
    /\ turn.status = "completed" /\ turn.plan
    /\ turn.told.late \/ x.task.back \/ turn.told.req \in {0, x.task.text}
    /\ o.plan = Last(x, i) /\ x.ops[i].asks = "none"

\* A step from x to y keeps all that.
Fine(x, y) == Good(y) /\ \A i \in 1..Len(x.ops) : Rightly(x, y.ops[i], i)

LEMMA SeqExcept ==
  ASSUME NEW S, NEW s \in Seq(S), NEW i \in 1..Len(s), NEW e \in S,
         NEW r, r = [s EXCEPT ![i] = e]
  PROVE  /\ r \in Seq(S) /\ Len(r) = Len(s) /\ r[i] = e
         /\ \A j \in 1..Len(s) : j # i => r[j] = s[j]
OBVIOUS

LEMMA SeqAppend ==
  ASSUME NEW S, NEW s \in Seq(S), NEW e \in S, NEW r, r = Append(s, e)
  PROVE  /\ r \in Seq(S) /\ Len(r) = Len(s) + 1 /\ r[Len(s) + 1] = e
         /\ \A j \in 1..Len(s) : r[j] = s[j]
OBVIOUS

LEMMA SeqSame ==
  ASSUME NEW S, NEW s \in Seq(S), NEW i \in 1..Len(s)
  PROVE  s = [s EXCEPT ![i] = s[i]]
OBVIOUS

\* Who does not hold the task back does not mind that it is released.
LEMMA RowStays ==
  ASSUME NEW task \in TaskRec, NEW new \in TaskRec, NEW o, NEW ts, NEW i,
         Row(task, o, ts, i), ~new.back => ~task.back /\ task.text <= new.text,
         Held(task, i) <=> Held(new, i)
  PROVE  Row(new, o, ts, i)
<1>1. o.req \in Nat /\ task.text \in Nat /\ new.text \in Nat
  BY DEF Row, OpRec, TaskRec
<1>2. ~new.back => o.req <= new.text
  BY <1>1 DEF Row
<1>3. LastTurn(new, o, ts, i)
  <2> SUFFICES ASSUME Len(ts) > 0 PROVE LastTurn(new, o, ts, i)
    BY DEF LastTurn
  <2>1. ts \in Seq(TurnRec) BY DEF Row
  <2>2. Len(ts) \in 1..Len(ts) BY <2>1
  <2>3. ts[Len(ts)] \in TurnRec BY <2>1, <2>2
  <2>4. ts[Len(ts)].told \in ToldRec BY <2>3 DEF TurnRec
  <2>5. ts[Len(ts)].told.req \in Nat BY <2>4 DEF ToldRec
  <2> QED BY <2>5, <1>1 DEF Row, LastTurn, Timely, Fresh
<1> QED BY <1>2, <1>3 DEF Row

\* One conversation changes, and the task is released if at all by that one.
LEMMA Change ==
  ASSUME NEW x, NEW y, Good(x), NEW i \in 1..Len(x.ops), NEW o, NEW ts,
         DOMAIN y = Fields, y.task \in TaskRec,
         y.ops = [x.ops EXCEPT ![i] = o], y.turns = [x.turns EXCEPT ![i] = ts],
         y.task.text = x.task.text /\ y.task.back = x.task.back, y.task.op = x.task.op,
         y.task.accepted \in 0..Len(x.ops), y.task.hold => x.task.hold,
         x.task.hold => y.task.hold \/ x.task.op = i,
         Row(y.task, o, ts, i), Rightly(x, o, i),
         y.w.pc # "idle" => y.w.op \in 1..Len(x.ops),
         Holds(y.task, y.ops[y.w.op], y.w), y.worker \in 0..Len(x.ops),
         Waits(y.task, y.ops, y.w, y.worker)
  PROVE  Fine(x, y)
<1>1. x.ops \in Seq(OpRec) /\ x.turns \in Seq(Seq(TurnRec)) /\ Len(x.turns) = Len(x.ops)
  BY DEF Good
<1>2. o \in OpRec /\ ts \in Seq(TurnRec)
  BY DEF Row
<1>3. /\ y.ops \in Seq(OpRec) /\ Len(y.ops) = Len(x.ops) /\ y.ops[i] = o
      /\ \A j \in 1..Len(x.ops) : j # i => y.ops[j] = x.ops[j]
  BY <1>1, <1>2, SeqExcept
<1>4. /\ y.turns \in Seq(Seq(TurnRec)) /\ Len(y.turns) = Len(x.ops) /\ y.turns[i] = ts
      /\ \A j \in 1..Len(x.ops) : j # i => y.turns[j] = x.turns[j]
  <2> DEFINE T == Seq(TurnRec)
  <2> HIDE DEF T
  <2>1. x.turns \in Seq(T) /\ ts \in T /\ i \in 1..Len(x.turns)
    BY <1>1, <1>2 DEF T
  <2>2. /\ y.turns \in Seq(T) /\ Len(y.turns) = Len(x.turns) /\ y.turns[i] = ts
        /\ \A j \in 1..Len(x.turns) : j # i => y.turns[j] = x.turns[j]
    BY <2>1, SeqExcept
  <2> QED BY <2>2, <1>1 DEF T
<1>5. x.task \in TaskRec /\ x.task.text \in Nat
  BY DEF Good, TaskRec
<1>6. \A j \in 1..Len(x.ops) : Row(y.task, y.ops[j], y.turns[j], j)
  <2> TAKE j \in 1..Len(x.ops)
  <2>1. CASE j = i
    BY <2>1, <1>3, <1>4
  <2>2. CASE j # i
    <3>1. Row(x.task, x.ops[j], x.turns[j], j)
      BY DEF Good
    <3>2. Held(x.task, j) <=> Held(y.task, j)
      BY <2>2 DEF Held
    <3>3. ~y.task.back => ~x.task.back /\ x.task.text <= y.task.text
      BY <1>5
    <3>4. Row(y.task, x.ops[j], x.turns[j], j)
      BY <3>1, <3>2, <3>3, <1>5, RowStays
    <3> QED BY <3>4, <2>2, <1>3, <1>4
  <2> QED BY <2>1, <2>2
<1>7. \A j \in 1..Len(x.ops) : Rightly(x, y.ops[j], j)
  BY <1>3 DEF Rightly
<1>8. Good(y)
  BY <1>3, <1>4, <1>6 DEF Good
<1> QED BY <1>7, <1>8 DEF Fine

\* Only the lock moves.
LEMMA Moves ==
  ASSUME NEW x, NEW y, Good(x), DOMAIN y = Fields,
         y.task = x.task, y.ops = x.ops, y.turns = x.turns,
         y.w.pc # "idle" => y.w.op \in 1..Len(x.ops),
         Holds(x.task, x.ops[y.w.op], y.w), y.worker \in 0..Len(x.ops),
         Waits(x.task, x.ops, y.w, y.worker)
  PROVE  Fine(x, y)
BY DEF Good, Fine, Rightly

\* The lock is not held.
LEMMA Freed ==
  ASSUME NEW x, NEW y, Good(x), x.w.pc # "idle", NEW z, z.w.why = x.w.why,
         z.worker = x.worker, DOMAIN z = Fields, y = Unlock(z)
  PROVE  /\ y.task = z.task /\ y.ops = z.ops /\ y.turns = z.turns /\ DOMAIN y = Fields
         /\ y.w = Unlocked /\ y.worker = 0
<1>1. /\ y.task = z.task /\ y.ops = z.ops /\ y.turns = z.turns /\ DOMAIN y = Fields
      /\ y.w = Unlocked /\ y.worker = IF z.w.why = "start" THEN 0 ELSE z.worker
  BY DEF Unlock, Fields
<1>2. x.worker = 0 \/ x.w.why = "start"
  BY DEF Good, Waits
<1> QED BY <1>1, <1>2

LEMMA FreeHolds ==
  ASSUME NEW task, NEW o
  PROVE  Holds(task, o, Unlocked)
BY DEF Holds, Unlocked, LockRec, Fresh

LEMMA FreeWaits ==
  ASSUME NEW task, NEW ops, NEW w
  PROVE  Waits(task, ops, w, 0)
BY DEF Waits

\* The holder of the lock gives it back and changes nothing.
LEMMA GivesUp ==
  ASSUME NEW x, NEW y, Good(x), x.w.pc # "idle", y = Unlock(x)
  PROVE  Fine(x, y)
<1>1. /\ y.task = x.task /\ y.ops = x.ops /\ y.turns = x.turns /\ DOMAIN y = Fields
      /\ y.w = Unlocked /\ y.worker = 0
  <2>1. DOMAIN x = Fields
    BY DEF Good
  <2> QED BY <2>1, Freed
<1>2. y.w.pc = "idle" /\ y.worker \in 0..Len(x.ops)
  BY <1>1 DEF Unlocked, Good
<1>3. Holds(x.task, x.ops[y.w.op], y.w) /\ Waits(x.task, x.ops, y.w, y.worker)
  BY <1>1, FreeHolds, FreeWaits
<1> QED BY <1>1, <1>2, <1>3, Moves

\* The holder of the lock changes its conversation and gives the lock back.
LEMMA Finishes ==
  ASSUME NEW x, NEW y, NEW z, Good(x), x.w.pc # "idle", NEW i \in 1..Len(x.ops), NEW o, NEW ts,
         DOMAIN z = Fields, z.task \in TaskRec, z.w.why = x.w.why, z.worker = x.worker,
         z.ops = [x.ops EXCEPT ![i] = o], z.turns = [x.turns EXCEPT ![i] = ts],
         z.task.text = x.task.text /\ z.task.back = x.task.back, z.task.op = x.task.op,
         z.task.accepted \in 0..Len(x.ops), z.task.hold => x.task.hold,
         x.task.hold => z.task.hold \/ x.task.op = i,
         Row(z.task, o, ts, i), Rightly(x, o, i), y = Unlock(z)
  PROVE  Fine(x, y)
<1>1. /\ y.task = z.task /\ y.ops = z.ops /\ y.turns = z.turns /\ DOMAIN y = Fields
      /\ y.w = Unlocked /\ y.worker = 0
  BY Freed
<1>2. y.w.pc = "idle" /\ y.worker \in 0..Len(x.ops)
  BY <1>1 DEF Unlocked, Good
<1>3. Holds(y.task, y.ops[y.w.op], y.w) /\ Waits(y.task, y.ops, y.w, y.worker)
  BY <1>1, FreeHolds, FreeWaits
<1>4. /\ y.task.text = x.task.text /\ y.task.back = x.task.back /\ y.task.op = x.task.op
      /\ y.task.accepted \in 0..Len(x.ops) /\ (y.task.hold => x.task.hold)
      /\ (x.task.hold => y.task.hold \/ x.task.op = i)
      /\ y.task \in TaskRec /\ Row(y.task, o, ts, i)
      /\ y.ops = [x.ops EXCEPT ![i] = o] /\ y.turns = [x.turns EXCEPT ![i] = ts]
      /\ (y.w.pc # "idle" => y.w.op \in 1..Len(x.ops))
  BY <1>1, <1>2
<1> QED BY <1>1, <1>2, <1>3, <1>4, Change

LEMMA RowLike ==
  ASSUME NEW task, NEW o, NEW ts, NEW i, Row(task, o, ts, i), NEW n \in OpRec,
         n.thread = o.thread, n.turn = o.turn, n.plan = o.plan, n.req = o.req,
         n.asks \in {"none", o.asks}, n.state \notin Over <=> Held(task, i),
         n.state # "pending" \/ n.state = o.state
  PROVE  Row(task, n, ts, i)
BY DEF Row, LastTurn, Timely, Fresh

LEMMA LockedIs ==
  ASSUME NEW pc \in {"thread", "send", "steer", "turn", "save", "accept", "cancel", "stopped",
                     "observe"},
         NEW why \in {"start", "continue", "answer", "user", "loop"}, NEW i \in Nat,
         NEW w, w = Locked(pc, why, i)
  PROVE  w \in LockRec /\ w.pc = pc /\ w.why = why /\ w.op = i /\ w.req = 0
<1>1. /\ w.pc = pc /\ w.why = why /\ w.op = i /\ w.req = 0 /\ w.fresh = TRUE /\ w.seen = 0
      /\ w = [Unlocked EXCEPT !.pc = pc, !.why = why, !.op = i]
  BY DEF Locked, Unlocked
<1>2. /\ Unlocked \in LockRec
  BY DEF Unlocked, LockRec
<1>3. w \in LockRec
  <2> USE DEF LockRec
  <2>1. [Unlocked EXCEPT !.pc = pc] \in LockRec BY <1>2
  <2>2. [[Unlocked EXCEPT !.pc = pc] EXCEPT !.why = why] \in LockRec BY <2>1
  <2> QED BY <1>1, <1>2
<1> QED BY <1>1, <1>3

\* A request of the section fails after z has been recorded of its conversation.
LEMMA Raises ==
  ASSUME NEW x, NEW y, NEW z, Good(x), x.w.pc # "idle", NEW i, i = x.w.op, NEW o, NEW ts,
         DOMAIN z = Fields, z.task = x.task, z.w = x.w, z.worker = x.worker,
         z.ops = [x.ops EXCEPT ![i] = o], z.turns = [x.turns EXCEPT ![i] = ts],
         Row(x.task, o, ts, i), o.state = x.ops[i].state \/ o.state \notin Over,
         y = Raised(z)
  PROVE  Fine(x, y)
<1>1. /\ i \in 1..Len(x.ops) /\ x.ops \in Seq(OpRec) /\ x.task \in TaskRec
      /\ x.task.accepted \in 0..Len(x.ops) /\ Holds(x.task, x.ops[i], x.w)
  BY DEF Good
<1>2. z.ops[i] = o
  BY <1>1
<1>3. Rightly(x, o, i)
  BY DEF Rightly, Over
<1>4. CASE x.w.why # "start" \/ z.ops[i].state \in {"uncertain", "blocked"}
  <2>1. y = Unlock(z)
    BY <1>4 DEF Raised
  <2> QED BY <2>1, <1>1, <1>3, Finishes
<1>5. CASE ~(x.w.why # "start" \/ z.ops[i].state \in {"uncertain", "blocked"})
  <2> DEFINE b == Put(z, i, "blocked")
             r == [o EXCEPT !.state = "blocked"]
  <2>1. y = Unlock(b)
    BY <1>5 DEF Raised
  <2> HIDE DEF b
  <2>2. /\ DOMAIN b = Fields /\ b.task = z.task /\ b.turns = z.turns /\ b.worker = z.worker
        /\ b.w = z.w /\ b.ops = [z.ops EXCEPT ![i] = [z.ops[i] EXCEPT !.state = "blocked"]]
    BY DEF b, Put, Fields
  <2>3. b.ops = [x.ops EXCEPT ![i] = r]
    BY <2>2, <1>2, <1>1
  <2>4. Held(x.task, i)
    BY <1>1, <1>5 DEF Holds
  <2>5. Row(x.task, r, ts, i) /\ r.state = "blocked"
    <3>1. /\ r \in OpRec /\ r.state = "blocked" /\ r.thread = o.thread /\ r.turn = o.turn
          /\ r.plan = o.plan /\ r.req = o.req /\ r.asks = o.asks
      BY DEF Row, OpRec, OpState
    <3> HIDE DEF r
    <3> QED BY <3>1, <2>4, RowLike DEF Over
  <2> HIDE DEF r
  <2>6. Rightly(x, r, i)
    BY <2>5 DEF Rightly
  <2>7. /\ b.task = x.task /\ b.turns = [x.turns EXCEPT ![i] = ts] /\ b.worker = x.worker
        /\ b.w.why = x.w.why
    BY <2>2
  <2> QED BY <2>1, <2>2, <2>3, <2>5, <2>6, <2>7, <1>1, Finishes
<1> QED BY <1>4, <1>5

\* What the holder of the lock knows of its conversation.
LEMMA Holding ==
  ASSUME NEW x, Good(x), x.w.pc # "idle", NEW i, i = x.w.op
  PROVE  /\ i \in 1..Len(x.ops) /\ DOMAIN x = Fields
         /\ x.ops \in Seq(OpRec) /\ x.ops[i] \in OpRec /\ x.turns[i] \in Seq(TurnRec)
         /\ Len(x.turns) = Len(x.ops)
         /\ x.ops = [x.ops EXCEPT ![i] = x.ops[i]]
         /\ x.turns = [x.turns EXCEPT ![i] = x.turns[i]]
         /\ x.task \in TaskRec /\ x.task.accepted \in 0..Len(x.ops)
         /\ x.task.op \in 0..Len(x.ops)
         /\ Row(x.task, x.ops[i], x.turns[i], i)
         /\ Holds(x.task, x.ops[i], x.w) /\ x.w \in LockRec
         /\ x.worker \in 0..Len(x.ops)
         /\ x.worker = 0 \/ (x.worker = i /\ x.w.why = "start")
<1>1. i \in 1..Len(x.ops) /\ Holds(x.task, x.ops[i], x.w) /\ Row(x.task, x.ops[i], x.turns[i], i)
  BY DEF Good
<1>2. x.worker = 0 \/ (x.worker = i /\ x.w.why = "start")
  <2>1. Waits(x.task, x.ops, x.w, x.worker)
    BY DEF Good
  <2> QED BY <2>1 DEF Waits
<1>3. x.ops \in Seq(OpRec) /\ x.turns \in Seq(Seq(TurnRec)) /\ Len(x.turns) = Len(x.ops)
  BY DEF Good
<1>4. x.ops = [x.ops EXCEPT ![i] = x.ops[i]]
  BY <1>1, <1>3, SeqSame
<1>5. x.turns = [x.turns EXCEPT ![i] = x.turns[i]]
  <2> DEFINE T == Seq(TurnRec)
  <2>1. x.turns \in Seq(T) BY <1>3
  <2> HIDE DEF T
  <2> QED BY <2>1, <1>1, <1>3, SeqSame
<1>6. /\ DOMAIN x = Fields /\ x.task \in TaskRec /\ x.task.accepted \in 0..Len(x.ops)
      /\ x.worker \in 0..Len(x.ops) /\ x.task.op \in 0..Len(x.ops)
  BY DEF Good
<1>7. x.ops[i] \in OpRec /\ x.turns[i] \in Seq(TurnRec) /\ x.w \in LockRec
  BY <1>1 DEF Row, Holds
<1> QED BY <1>1, <1>2, <1>3, <1>4, <1>5, <1>6, <1>7

\* The holder of the lock changes its operation, and goes on.
LEMMA Becomes ==
  ASSUME NEW x, NEW y, Good(x), NEW i \in 1..Len(x.ops), NEW o,
         DOMAIN y = Fields, y.task = x.task, y.turns = x.turns, y.worker = x.worker,
         y.ops = [x.ops EXCEPT ![i] = o],
         Row(x.task, o, x.turns[i], i), o.state # "confirmed",
         y.w.op = i, Holds(x.task, o, y.w),
         x.worker = 0 \/ (x.worker = i /\ y.w.why = "start" /\ Held(x.task, i))
  PROVE  Fine(x, y)
<1>1. /\ x.ops \in Seq(OpRec) /\ x.turns \in Seq(Seq(TurnRec)) /\ Len(x.turns) = Len(x.ops)
      /\ x.task \in TaskRec /\ x.task.accepted \in 0..Len(x.ops) /\ x.worker \in 0..Len(x.ops)
  BY DEF Good
<1>2. y.turns = [x.turns EXCEPT ![i] = x.turns[i]]
  <2> DEFINE T == Seq(TurnRec)
  <2>1. x.turns \in Seq(T) BY <1>1
  <2> HIDE DEF T
  <2> QED BY <2>1, <1>1, SeqSame
<1>3. y.ops[i] = o
  BY <1>1
<1>4. /\ Row(y.task, o, x.turns[i], i) /\ Holds(y.task, y.ops[y.w.op], y.w)
      /\ Waits(y.task, y.ops, y.w, y.worker)
  BY <1>3 DEF Waits
<1>5. Rightly(x, o, i)
  BY DEF Rightly
<1>6. /\ y.task \in TaskRec /\ y.task.text = x.task.text /\ y.task.back = x.task.back
      /\ y.task.op = x.task.op
      /\ y.task.accepted \in 0..Len(x.ops) /\ y.task.hold = x.task.hold
      /\ y.worker \in 0..Len(x.ops) /\ y.w.op \in 1..Len(x.ops)
  BY <1>1
<1> QED BY <1>2, <1>4, <1>5, <1>6, Change

LEMMA StartBeginsFine ==
  ASSUME Good(p), StartBegins
  PROVE  Fine(p, p')
<1> DEFINE i == p.worker
           o == [p.ops[i] EXCEPT !.state = "starting"]
           w == [Locked("thread", "start", i) EXCEPT !.req = p.task.text]
<1>1. p.w.pc = "idle" /\ i # 0 /\ p' = [Put(p, i, "starting") EXCEPT !.w = w]
  BY DEF StartBegins, Idle
<1>2. /\ i \in 1..Len(p.ops) /\ DOMAIN p = Fields /\ p.task \in TaskRec
      /\ Row(p.task, p.ops[i], p.turns[i], i) /\ Held(p.task, i)
  BY <1>1 DEF Good, Waits
<1>3. /\ p'.ops = [p.ops EXCEPT ![i] = o] /\ p'.turns = p.turns /\ p'.task = p.task
      /\ p'.worker = i /\ DOMAIN p' = Fields /\ p'.w = w
  <2> HIDE DEF w
  <2> QED BY <1>1, <1>2 DEF Put, Fields
<1>4. /\ o \in OpRec /\ o.state = "starting" /\ o.req = p.ops[i].req
      /\ o.thread = p.ops[i].thread /\ o.turn = p.ops[i].turn /\ o.plan = p.ops[i].plan
      /\ o.asks = p.ops[i].asks
  <2>1. p.ops[i] \in OpRec
    BY <1>2 DEF Row
  <2> QED BY <2>1 DEF OpRec, OpState
<1> HIDE DEF o
<1>5. Row(p.task, o, p.turns[i], i)
  BY <1>2, <1>4, RowLike DEF Over
<1>6. p.task.text \in Nat /\ o.req \in Nat /\ (~p.task.back => o.req <= p.task.text)
  BY <1>2, <1>4, <1>5 DEF TaskRec, OpRec, Row
<1>7. w \in LockRec /\ w.op = i /\ w.pc = "thread" /\ w.why = "start" /\ w.req = p.task.text
  <2>1. i \in Nat
    BY <1>2
  <2> DEFINE k == Locked("thread", "start", i)
  <2>2. k \in LockRec /\ k.op = i /\ k.pc = "thread" /\ k.why = "start"
    BY <2>1, LockedIs
  <2> HIDE DEF i, k
  <2>3. w = [k EXCEPT !.req = p.task.text]
    BY DEF w, k
  <2> HIDE DEF w
  <2> QED BY <2>2, <2>3, <1>6 DEF LockRec
<1> HIDE DEF w
<1>8. Holds(p.task, o, w)
  BY <1>2, <1>4, <1>6, <1>7 DEF Holds, Over, Fresh
<1>9. Holds(p.task, o, p'.w) /\ p'.w.op = i /\ p'.w.why = "start" /\ p'.worker = p.worker
  BY <1>3, <1>7, <1>8
<1> HIDE DEF i
<1> QED BY <1>2, <1>3, <1>4, <1>5, <1>9, Becomes DEF i

LEMMA ThreadMadeFine ==
  ASSUME Good(p), ThreadMade
  PROVE  Fine(p, p')
<1> DEFINE i == p.w.op
           o == [p.ops[i] EXCEPT !.state = "conversation", !.thread = TRUE]
<1>1. /\ p.w.pc = "thread"
      /\ p' = [Put(p, i, "conversation") EXCEPT !.ops[i].thread = TRUE, !.w.pc = "send"]
  BY DEF ThreadMade, At
<1>2. /\ i \in 1..Len(p.ops) /\ DOMAIN p = Fields
      /\ p.ops \in Seq(OpRec) /\ p.ops[i] \in OpRec
      /\ Row(p.task, p.ops[i], p.turns[i], i) /\ Holds(p.task, p.ops[i], p.w)
      /\ p.w \in LockRec
      /\ p.worker = 0 \/ (p.worker = i /\ p.w.why = "start")
  BY <1>1, Holding
<1>3. /\ p'.ops = [p.ops EXCEPT ![i] = o] /\ p'.turns = p.turns /\ p'.task = p.task
      /\ p'.worker = p.worker /\ DOMAIN p' = Fields /\ p'.w = [p.w EXCEPT !.pc = "send"]
  BY <1>1, <1>2 DEF Put, Fields
<1>4. Held(p.task, i)
  BY <1>1, <1>2 DEF Holds
<1>5. /\ o \in OpRec /\ o.state = "conversation" /\ o.req = p.ops[i].req /\ o.thread
      /\ o.turn = p.ops[i].turn /\ o.plan = p.ops[i].plan /\ o.asks = p.ops[i].asks
  BY <1>2 DEF OpRec, OpState
<1> HIDE DEF o
<1>6. Row(p.task, o, p.turns[i], i)
  BY <1>2, <1>4, <1>5 DEF Row, LastTurn, Timely, Fresh, Over
<1>7. /\ p'.w \in LockRec /\ p'.w.op = i /\ p'.w.pc = "send" /\ p'.w.why = p.w.why
      /\ p'.w.req = p.w.req
  BY <1>2, <1>3 DEF LockRec
<1>8. Holds(p.task, o, p'.w)
  BY <1>1, <1>2, <1>4, <1>5, <1>7 DEF Holds, Over, Fresh
<1>9. p.worker = 0 \/ (p.worker = i /\ p'.w.why = "start" /\ Held(p.task, i))
  BY <1>2, <1>4, <1>7
<1>10. o.state # "confirmed"
  BY <1>5
<1>11. i \in 1..Len(p.ops) /\ p'.w.op = i
  BY <1>2, <1>7
<1> HIDE DEF i
<1> QED BY <1>3, <1>6, <1>8, <1>9, <1>10, <1>11, Becomes

\* Who waits has just recorded the conversation that holds the task back.
LEMMA Waiting ==
  ASSUME NEW x, Good(x), x.w.pc = "idle", x.worker # 0
  PROVE  /\ Held(x.task, x.worker) /\ x.ops[x.worker].state = "pending"
         /\ ~x.ops[x.worker].thread
<1>1. Waits(x.task, x.ops, x.w, x.worker) /\ x.w.why = "none" /\ x.worker \in 1..Len(x.ops)
  BY DEF Good, Holds
<1>2. Row(x.task, x.ops[x.worker], x.turns[x.worker], x.worker)
  BY <1>1 DEF Good
<1> QED BY <1>1, <1>2 DEF Waits, Row

\* A request takes the lock.
LEMMA Takes ==
  ASSUME NEW x, NEW y, Good(x), x.worker = 0, NEW i \in 1..Len(x.ops), NEW k,
         y = [x EXCEPT !.w = k], k.op = i, Holds(x.task, x.ops[i], k)
  PROVE  Fine(x, y)
<1>1. DOMAIN x = Fields
  BY DEF Good
<1>2. /\ DOMAIN y = Fields /\ y.task = x.task /\ y.ops = x.ops /\ y.turns = x.turns
      /\ y.worker = x.worker /\ y.w = k
  BY <1>1 DEF Fields
<1>3. Waits(x.task, x.ops, y.w, y.worker)
  BY <1>2 DEF Waits
<1>4. y.w.op \in 1..Len(x.ops) /\ y.worker \in 0..Len(x.ops) /\ Holds(x.task, x.ops[y.w.op], y.w)
  BY <1>2
<1> QED BY <1>2, <1>3, <1>4, Moves

LEMMA ContinueFine ==
  ASSUME Good(p), Continue
  PROVE  Fine(p, p')
<1> DEFINE i == p.task.op
           l == Locked("send", "continue", i)
           req == IF p.ops[i].req = p.task.text THEN 0 ELSE p.task.text
           k == [l EXCEPT !.req = req]
<1>1. /\ p.w.pc = "idle" /\ p.task.hold /\ p.ops[i].thread /\ p.ops[i].state \notin {"pending"}
      /\ p' = [p EXCEPT !.w = k]
  BY DEF Continue, Idle, Op
<1>2. p.worker = 0
  BY <1>1, Waiting DEF Held
<1>3. i \in 1..Len(p.ops) /\ p.task \in TaskRec /\ Row(p.task, p.ops[i], p.turns[i], i)
  BY <1>1 DEF Good
<1>4. req \in Nat /\ Fresh(p.task, p.ops[i], req)
  <2>1. p.task.text \in Nat /\ p.ops[i].req \in Nat
    BY <1>3 DEF TaskRec, OpRec, Row
  <2>2. ~p.task.back => p.ops[i].req <= p.task.text
    BY <1>3 DEF Row
  <2>3. req = 0 \/ req = p.task.text
    OBVIOUS
  <2> HIDE DEF req
  <2> QED BY <2>1, <2>2, <2>3 DEF Fresh
<1> HIDE DEF req
<1>5. k \in LockRec /\ k.pc = "send" /\ k.why = "continue" /\ k.op = i /\ k.req = req
  <2>1. l \in LockRec /\ l.pc = "send" /\ l.why = "continue" /\ l.op = i
    BY <1>3, LockedIs
  <2> HIDE DEF l
  <2> QED BY <2>1, <1>4 DEF LockRec
<1> HIDE DEF k
<1>6. p.ops[i].state \notin Over
  BY <1>1, <1>3 DEF Row, Held
<1>7. Holds(p.task, p.ops[i], k)
  BY <1>1, <1>4, <1>5, <1>6 DEF Holds, Held
<1> HIDE DEF i
<1> QED BY <1>1, <1>2, <1>3, <1>5, <1>7, Takes

LEMMA AnswerFine ==
  ASSUME Good(p), Answer
  PROVE  Fine(p, p')
<1> DEFINE i == p.task.op
           k == Locked("send", "answer", i)
<1>1. /\ p.w.pc = "idle" /\ i # 0 /\ p.ops[i].asks = "async"
      /\ p.ops[i].state \notin Over /\ p.ops[i].state \notin {"starting", "pending"}
      /\ p' = [p EXCEPT !.w = k]
  BY DEF Answer, Idle, Op
<1>2. p.worker = 0
  BY <1>1, Waiting DEF Held
<1>3. i \in 1..Len(p.ops) /\ p.task \in TaskRec /\ Row(p.task, p.ops[i], p.turns[i], i)
  BY <1>1 DEF Good
<1>5. k \in LockRec /\ k.pc = "send" /\ k.why = "answer" /\ k.op = i /\ k.req = 0
  BY <1>3, LockedIs
<1> HIDE DEF k
<1>6. Held(p.task, i) /\ p.ops[i].thread
  BY <1>1, <1>3 DEF Row
<1>7. Holds(p.task, p.ops[i], k)
  BY <1>1, <1>5, <1>6 DEF Holds, Fresh
<1> HIDE DEF i
<1> QED BY <1>1, <1>2, <1>3, <1>5, <1>7, Takes

\* Who sends a message goes on.
LEMMA Onward ==
  ASSUME NEW task, NEW o, NEW w, Holds(task, o, w), w.pc \in {"thread", "send"},
         NEW pc \in {"send", "steer", "turn"}, NEW v, v = [w EXCEPT !.pc = pc],
         NEW n, n.req = o.req, n.thread, n.state \notin Over
  PROVE  Holds(task, n, v) /\ v.op = w.op /\ v.why = w.why /\ v.pc = pc
<1>1. w \in LockRec
  BY DEF Holds
<1>2. v \in LockRec /\ v.pc = pc /\ v.op = w.op /\ v.why = w.why /\ v.req = w.req
  BY <1>1 DEF LockRec
<1> QED BY <1>2 DEF Holds, Fresh

LEMMA SendFine ==
  ASSUME Good(p), Send
  PROVE  Fine(p, p')
<1> DEFINE i == p.w.op
           o == [p.ops[i] EXCEPT !.state = "uncertain", !.prev = Last(p, i)]
<1>1. p.w.pc = "send"
  BY DEF Send, At
<1>2. /\ i \in 1..Len(p.ops) /\ DOMAIN p = Fields
      /\ p.ops \in Seq(OpRec) /\ p.ops[i] \in OpRec /\ p.turns[i] \in Seq(TurnRec)
      /\ Row(p.task, p.ops[i], p.turns[i], i) /\ Holds(p.task, p.ops[i], p.w)
      /\ p.ops = [p.ops EXCEPT ![i] = p.ops[i]] /\ p.turns = [p.turns EXCEPT ![i] = p.turns[i]]
      /\ p.worker \in 0..Len(p.ops)
  BY <1>1, Holding
<1>3. p.worker = 0 \/ (p.worker = i /\ p.w.why = "start")
  BY <1>1, Holding
<1>4. Held(p.task, i) /\ p.ops[i].thread /\ p.ops[i].state \notin Over
  BY <1>1, <1>2 DEF Holds
<1>5. CASE p' = [p EXCEPT !.w.pc = "steer"]
  <2>1. /\ DOMAIN p' = Fields /\ p'.task = p.task /\ p'.ops = p.ops /\ p'.turns = p.turns
        /\ p'.worker = p.worker /\ p'.w = [p.w EXCEPT !.pc = "steer"]
    BY <1>5, <1>2 DEF Fields
  <2>2. Holds(p.task, p.ops[i], p'.w) /\ p'.w.op = i /\ p'.w.why = p.w.why
    BY <2>1, <1>1, <1>2, <1>4, Onward
  <2>3. Waits(p.task, p.ops, p'.w, p'.worker)
    BY <2>1, <2>2, <1>3, <1>4 DEF Waits
  <2> QED BY <2>1, <2>2, <2>3, <1>2, Moves
<1>6. CASE p' = Raised(p)
  BY <1>1, <1>2, <1>6, Raises
<1>7. CASE p' = [Put(p, i, "uncertain") EXCEPT !.ops[i].prev = Last(p, i), !.w.pc = "turn"]
  <2>1. /\ DOMAIN p' = Fields /\ p'.task = p.task /\ p'.turns = p.turns /\ p'.worker = p.worker
        /\ p'.ops = [p.ops EXCEPT ![i] = o] /\ p'.w = [p.w EXCEPT !.pc = "turn"]
    BY <1>7, <1>2 DEF Fields, Put
  <2>2. /\ o \in OpRec /\ o.state = "uncertain" /\ o.req = p.ops[i].req
        /\ o.thread = p.ops[i].thread /\ o.turn = p.ops[i].turn /\ o.plan = p.ops[i].plan
        /\ o.asks = p.ops[i].asks
    <3>1. Last(p, i) \in Nat
      BY <1>2 DEF Last
    <3> QED BY <3>1, <1>2 DEF OpRec, OpState
  <2> HIDE DEF o
  <2>3. Row(p.task, o, p.turns[i], i)
    BY <1>2, <1>4, <2>2, RowLike DEF Over
  <2>4. Holds(p.task, o, p'.w) /\ p'.w.op = i /\ p'.w.why = p.w.why
    <3>1. o.state \notin Over /\ o.thread
      BY <1>4, <2>2 DEF Over
    <3> QED BY <2>1, <2>2, <3>1, <1>1, <1>2, Onward
  <2>5. p.worker = 0 \/ (p.worker = i /\ p'.w.why = "start" /\ Held(p.task, i))
    BY <1>3, <1>4, <2>4
  <2>6. o.state # "confirmed" /\ i \in 1..Len(p.ops)
    BY <2>2, <1>2
  <2> HIDE DEF i
  <2> QED BY <2>1, <2>3, <2>4, <2>5, <2>6, Becomes
<1> QED BY <1>5, <1>6, <1>7 DEF Send, Op

\* What a conversation is told is no older than what is recorded of it.
LEMMA ToldIs ==
  ASSUME Good(p), NEW i \in 1..Len(p.ops), NEW req \in Nat, NEW told, told = Told(p, i, req)
  PROVE  /\ told \in ToldRec
         /\ Fresh(p.task, p.ops[i], req) => Timely(p.task, p.ops[i], told)
         /\ req # 0 => told.req = req /\ ~told.late
         /\ req = 0 => Timely(p.task, p.ops[i], told)
<1>1. /\ p.turns[i] \in Seq(TurnRec) /\ p.ops[i] \in OpRec
      /\ LastTurn(p.task, p.ops[i], p.turns[i], i)
  <2>1. Row(p.task, p.ops[i], p.turns[i], i)
    BY DEF Good
  <2> QED BY <2>1 DEF Row
<1>2. CASE req # 0
  <2>1. told = [req |-> req, late |-> FALSE]
    BY <1>2 DEF Told
  <2> QED BY <2>1, <1>2 DEF ToldRec, Timely
<1>3. CASE req = 0 /\ Last(p, i) = 0
  <2>1. told = NotTold
    BY <1>3 DEF Told
  <2> QED BY <2>1, <1>3 DEF NotTold, ToldRec, Timely, Fresh
<1>4. CASE req = 0 /\ Last(p, i) # 0
  <2>1. Len(p.turns[i]) \in 1..Len(p.turns[i]) /\ Last(p, i) = Len(p.turns[i])
    BY <1>4, <1>1 DEF Last
  <2>2. told = p.turns[i][Len(p.turns[i])].told /\ p.turns[i][Len(p.turns[i])] \in TurnRec
    BY <2>1, <1>1, <1>4 DEF Told
  <2>3. Len(p.turns[i]) > 0
    BY <2>1
  <2> QED BY <2>2, <2>3, <1>1, <1>4 DEF LastTurn, TurnRec
<1> QED BY <1>2, <1>3, <1>4

\* What the holder of the lock tells its conversation.
LEMMA Telling ==
  ASSUME Good(p), p.w.pc # "idle", NEW i, i = p.w.op, NEW told, told = Told(p, i, p.w.req)
  PROVE  /\ told \in ToldRec /\ Timely(p.task, p.ops[i], told)
         /\ p.w.req \in Nat /\ Fresh(p.task, p.ops[i], p.w.req)
         /\ p.w.req # 0 => told.req = p.w.req /\ ~told.late
<1>1. /\ i \in 1..Len(p.ops) /\ p.w \in LockRec /\ Holds(p.task, p.ops[i], p.w)
  BY Holding
<1>2. p.w.req \in Nat /\ Fresh(p.task, p.ops[i], p.w.req)
  BY <1>1 DEF LockRec, Holds
<1> HIDE DEF Fresh
<1> QED BY <1>1, <1>2, ToldIs

\* The operation after its message is sent.
SentOp(o, w) == IF w.why = "continue" /\ w.req # 0 THEN [o EXCEPT !.req = w.req]
                ELSE IF w.why = "answer" THEN [o EXCEPT !.asks = "none"] ELSE o

\* A message has been sent, and its turn carries it.
LEMMA Sending ==
  ASSUME Good(p), p.w.pc \in {"steer", "turn"}, NEW i, i = p.w.op, NEW z, NEW o, NEW ts,
         DOMAIN z = Fields, z.task = p.task, z.w = p.w, z.worker = p.worker,
         z.ops = [p.ops EXCEPT ![i] = o], z.turns = [p.turns EXCEPT ![i] = ts],
         Row(p.task, o, ts, i), o.req = p.ops[i].req, o.state # "confirmed",
         Len(ts) > 0, ts[Len(ts)].told = Told(p, i, p.w.req), NEW y, y = Unlock(Sent(z, i))
  PROVE  Fine(p, y)
<1> DEFINE s == Sent(z, i)
           n == SentOp(o, p.w)
<1>1. /\ i \in 1..Len(p.ops) /\ p.ops \in Seq(OpRec) /\ p.task \in TaskRec
      /\ p.task.accepted \in 0..Len(p.ops) /\ p.w \in LockRec
  BY Holding
<1>2. z.ops[i] = o
  BY <1>1
<1>3. /\ DOMAIN s = Fields /\ s.task = p.task /\ s.w = p.w /\ s.worker = p.worker
      /\ s.turns = [p.turns EXCEPT ![i] = ts] /\ s.ops = [p.ops EXCEPT ![i] = n]
  <2>1. CASE p.w.why = "continue" /\ p.w.req # 0
    <3>1. s = [z EXCEPT !.ops[i].req = z.w.req]
      BY <2>1 DEF Sent
    <3>2. n = [o EXCEPT !.req = p.w.req]
      BY <2>1 DEF SentOp
    <3> HIDE DEF s, n
    <3> QED BY <1>1, <1>2, <3>1, <3>2 DEF Fields
  <2>2. CASE p.w.why = "answer"
    <3>1. s = [z EXCEPT !.ops[i].asks = "none"]
      BY <2>2 DEF Sent
    <3>2. n = [o EXCEPT !.asks = "none"]
      BY <2>2 DEF SentOp
    <3> HIDE DEF s, n
    <3> QED BY <1>1, <1>2, <3>1, <3>2 DEF Fields
  <2>3. CASE p.w.why # "answer" /\ ~(p.w.why = "continue" /\ p.w.req # 0)
    BY <2>3 DEF Sent, SentOp
  <2> QED BY <2>1, <2>2, <2>3
<1>4. /\ ts[Len(ts)].told \in ToldRec /\ Timely(p.task, p.ops[i], ts[Len(ts)].told)
      /\ p.w.req \in Nat /\ Fresh(p.task, p.ops[i], p.w.req)
      /\ p.w.req # 0 => ts[Len(ts)].told.req = p.w.req /\ ~ts[Len(ts)].told.late
  BY Telling
<1>5. /\ n \in OpRec /\ n.state = o.state /\ n.thread = o.thread /\ n.turn = o.turn
      /\ n.plan = o.plan /\ n.asks \in {"none", o.asks}
      /\ n.req = IF p.w.why = "continue" /\ p.w.req # 0 THEN p.w.req ELSE o.req
  <2>1. o \in OpRec
    BY DEF Row
  <2>2. CASE p.w.why = "continue" /\ p.w.req # 0
    BY <2>1, <2>2, <1>4 DEF SentOp, OpRec
  <2>3. CASE p.w.why = "answer"
    BY <2>1, <2>3 DEF SentOp, OpRec
  <2>4. CASE p.w.why # "answer" /\ ~(p.w.why = "continue" /\ p.w.req # 0)
    BY <2>1, <2>4 DEF SentOp
  <2> QED BY <2>2, <2>3, <2>4
<1> HIDE DEF s, n
<1>6. Row(p.task, n, ts, i)
  <2>1. p.task.text \in Nat /\ o.req \in Nat
    BY <1>1 DEF TaskRec, Row, OpRec
  <2>2. n.req \in Nat /\ (~p.task.back => n.req <= p.task.text)
    BY <2>1, <1>4, <1>5 DEF Row, Fresh
  <2>3. Timely(p.task, n, ts[Len(ts)].told)
    BY <2>1, <1>4, <1>5 DEF Timely, Fresh
  <2>4. LastTurn(p.task, n, ts, i)
    BY <2>3 DEF Row, LastTurn
  <2> QED BY <2>2, <2>4, <1>5 DEF Row
<1>7. Rightly(p, n, i)
  BY <1>5 DEF Rightly
<1>8. y = Unlock(s)
  BY DEF s
<1>9. /\ s.task \in TaskRec /\ Row(s.task, n, ts, i) /\ s.w.why = p.w.why
      /\ s.task.text = p.task.text /\ s.task.back = p.task.back /\ s.task.op = p.task.op
      /\ s.task.hold = p.task.hold
      /\ s.task.accepted \in 0..Len(p.ops)
  BY <1>1, <1>3, <1>6
<1>10. p.w.pc # "idle" /\ i \in 1..Len(p.ops)
  BY <1>1
<1> QED BY <1>3, <1>7, <1>8, <1>9, <1>10, Finishes

\* A turn whose status and requirements are written.
LEMMA TurnsSet ==
  ASSUME NEW ts \in Seq(TurnRec), NEW k \in 1..Len(ts), NEW turn \in TurnRec,
         NEW n, n = [ts EXCEPT ![k] = turn]
  PROVE  /\ n \in Seq(TurnRec) /\ Len(n) = Len(ts) /\ n[k] = turn
         /\ \A j \in 1..Len(ts) : j # k => n[j] = ts[j]
BY SeqExcept

\* Rows do not mind what the last turn, if it runs, becomes.
LEMMA RowTurn ==
  ASSUME NEW task, NEW o, NEW ts, NEW i, Row(task, o, ts, i),
         Len(ts) > 0, ts[Len(ts)].status = "active",
         NEW turn \in TurnRec, NEW n, n = [ts EXCEPT ![Len(ts)] = turn],
         Timely(task, o, turn.told),
         turn.status = "active" /\ turn.by = "board" => Held(task, i),
         NEW q \in OpRec, q.state = o.state, q.thread = o.thread, q.turn = o.turn,
         q.plan = o.plan, q.req = o.req, q.asks = "none" \/ q.thread
  PROVE  Row(task, q, n, i) /\ Len(n) = Len(ts) /\ n[Len(n)] = turn
<1>1. ts \in Seq(TurnRec) /\ o \in OpRec
  BY DEF Row
<1>2. Len(ts) \in 1..Len(ts)
  BY <1>1
<1>3. /\ n \in Seq(TurnRec) /\ Len(n) = Len(ts) /\ n[Len(ts)] = turn
      /\ \A j \in 1..Len(ts) : j # Len(ts) => n[j] = ts[j]
  BY <1>1, <1>2, TurnsSet
<1>4. o.plan \in Nat /\ o.turn \in Nat
  BY <1>1 DEF OpRec
<1>5. q.plan # 0 => n[q.plan].status = "completed" /\ n[q.plan].plan
  <2> SUFFICES ASSUME q.plan # 0 PROVE n[q.plan].status = "completed" /\ n[q.plan].plan
    OBVIOUS
  <2>1. o.plan \in 1..Len(ts) /\ ts[o.plan].status = "completed" /\ ts[o.plan].plan
    BY <1>1, <1>4 DEF Row
  <2>2. o.plan # Len(ts)
    BY <2>1
  <2> QED BY <2>1, <2>2, <1>3
<1>6. LastTurn(task, q, n, i)
  BY <1>3 DEF LastTurn, Timely, Fresh
<1> QED BY <1>3, <1>5, <1>6 DEF Row

LEMMA SteeringIs ==
  ASSUME Good(p), p.w.pc = "steer", NEW i, i = p.w.op, Active(p, i), NEW z, z = Steering(p, i)
  PROVE  \E ts :
           /\ DOMAIN z = Fields /\ z.task = p.task /\ z.w = p.w /\ z.worker = p.worker
           /\ z.ops = p.ops /\ z.turns = [p.turns EXCEPT ![i] = ts]
           /\ Row(p.task, p.ops[i], ts, i)
           /\ Len(ts) > 0 /\ ts[Len(ts)].told = Told(p, i, p.w.req)
<1> DEFINE k == Last(p, i)
           told == Told(p, i, p.w.req)
           old == p.turns[i][k]
           turn == [[old EXCEPT !.told = told] EXCEPT !.by = "board"]
           ts == [p.turns[i] EXCEPT ![k] = turn]
<1>1. /\ i \in 1..Len(p.ops) /\ DOMAIN p = Fields
      /\ p.ops[i] \in OpRec /\ p.turns[i] \in Seq(TurnRec) /\ p.turns \in Seq(Seq(TurnRec))
      /\ Row(p.task, p.ops[i], p.turns[i], i) /\ Holds(p.task, p.ops[i], p.w)
  BY Holding DEF Good
<1>2. Held(p.task, i) /\ p.ops[i].thread
  BY <1>1 DEF Holds
<1>3. k = Len(p.turns[i]) /\ k \in 1..Len(p.turns[i]) /\ p.turns[i][k].status = "active"
  BY <1>1 DEF Active, Last
<1>4. told \in ToldRec /\ Timely(p.task, p.ops[i], told)
  BY Telling
<1>5. old \in TurnRec
  BY <1>1, <1>3
<1>6. /\ DOMAIN z = Fields /\ z.task = p.task /\ z.w = p.w /\ z.worker = p.worker
      /\ z.ops = p.ops /\ z.turns = [p.turns EXCEPT ![i] = ts]
  <2> DEFINE first == [p.turns EXCEPT ![i] = [p.turns[i] EXCEPT ![k].told = told]]
  <2>1. z = [p EXCEPT !.turns[i][k].told = told, !.turns[i][k].by = "board"]
    BY DEF Steering
  <2>2. k \in 1..Len(p.turns[i]) /\ Len(p.turns) = Len(p.ops)
    BY <1>3 DEF Good
  <2> HIDE DEF told, k
  <2>3. /\ DOMAIN z = Fields /\ z.task = p.task /\ z.w = p.w /\ z.worker = p.worker
        /\ z.ops = p.ops
    BY <2>1, <1>1 DEF Fields
  <2>4. z.turns = [first EXCEPT ![i] = [first[i] EXCEPT ![k] =
                     [first[i][k] EXCEPT !.by = "board"]]]
    BY <2>1, <1>1 DEF Fields
  <2>5. first[i] = [p.turns[i] EXCEPT ![k] = [old EXCEPT !.told = told]]
    BY <2>2, <1>1
  <2>6. first[i][k] = [old EXCEPT !.told = told]
    BY <2>2, <2>5, <1>1
  <2>7. [first[i] EXCEPT ![k] = turn] = ts
    BY <2>2, <2>5, <1>1
  <2>8. z.turns = [first EXCEPT ![i] = ts]
    BY <2>4, <2>6, <2>7
  <2> HIDE DEF ts
  <2>9. [first EXCEPT ![i] = ts] = [p.turns EXCEPT ![i] = ts]
    BY <2>2, <1>1
  <2> QED BY <2>3, <2>8, <2>9
<1> HIDE DEF told
<1>7. turn \in TurnRec /\ turn.told = told /\ turn.status = "active"
  <2>1. old.status = "active"
    BY <1>3
  <2> HIDE DEF old
  <2> QED BY <2>1, <1>4, <1>5 DEF TurnRec
<1> HIDE DEF turn, old
<1>8. Row(p.task, p.ops[i], ts, i) /\ Len(ts) = Len(p.turns[i]) /\ ts[Len(ts)] = turn
  <2>1. ts = [p.turns[i] EXCEPT ![Len(p.turns[i])] = turn]
    BY <1>3
  <2>2. Len(p.turns[i]) > 0 /\ p.turns[i][Len(p.turns[i])].status = "active"
    BY <1>3
  <2> HIDE DEF ts
  <2>3. turn \in TurnRec /\ Timely(p.task, p.ops[i], turn.told)
    BY <1>4, <1>7
  <2>4. turn.status = "active" /\ turn.by = "board" => Held(p.task, i)
    BY <1>2
  <2>5. \A o : o = p.ops[i] =>
          /\ o \in OpRec /\ (o.asks = "none" \/ o.thread) /\ Row(p.task, o, p.turns[i], i)
          /\ Timely(p.task, o, turn.told)
    BY <1>1, <1>2, <2>3
  <2> HIDE DEF k
  <2> QED BY <2>1, <2>2, <2>3, <2>4, <2>5, RowTurn
<1>9. Len(ts) > 0 /\ ts[Len(ts)].told = told
  BY <1>3, <1>7, <1>8
<1> HIDE DEF ts, k
<1> QED BY <1>6, <1>8, <1>9 DEF told

LEMMA SteeredFine ==
  ASSUME Good(p), Steered
  PROVE  Fine(p, p')
<1> DEFINE i == p.w.op
           z == Steering(p, i)
<1>1. p.w.pc = "steer"
  BY DEF Steered, At
<1>2. /\ i \in 1..Len(p.ops) /\ DOMAIN p = Fields
      /\ Row(p.task, p.ops[i], p.turns[i], i) /\ Holds(p.task, p.ops[i], p.w)
      /\ p.ops = [p.ops EXCEPT ![i] = p.ops[i]] /\ p.turns = [p.turns EXCEPT ![i] = p.turns[i]]
  BY <1>1, Holding
<1>3. p.ops[i].state # "confirmed"
  BY <1>1, <1>2 DEF Holds, Over
<1>4. CASE p' = Raised(p)
  BY <1>1, <1>2, <1>4, Raises
<1>5. CASE Active(p, i) /\ p' = Unlock(Sent(z, i))
  <2>1. PICK ts :
          /\ DOMAIN z = Fields /\ z.task = p.task /\ z.w = p.w /\ z.worker = p.worker
          /\ z.ops = p.ops /\ z.turns = [p.turns EXCEPT ![i] = ts]
          /\ Row(p.task, p.ops[i], ts, i)
          /\ Len(ts) > 0 /\ ts[Len(ts)].told = Told(p, i, p.w.req)
    BY <1>1, <1>5, SteeringIs
  <2> HIDE DEF z
  <2>2. z.ops = [p.ops EXCEPT ![i] = p.ops[i]]
    BY <2>1, <1>2
  <2> QED BY <1>1, <1>3, <1>5, <2>1, <2>2, Sending
<1> QED BY <1>4, <1>5 DEF Steered

\* Rows do not mind another turn, known or not.
LEMMA RowAppend ==
  ASSUME NEW task, NEW o, NEW ts, NEW i, Row(task, o, ts, i),
         NEW turn \in TurnRec, NEW n \in Seq(TurnRec),
         Len(n) = Len(ts) + 1, n[Len(ts) + 1] = turn, \A j \in 1..Len(ts) : n[j] = ts[j],
         Timely(task, o, turn.told), turn.by = "board" => Held(task, i),
         NEW q \in OpRec, q.thread, q.state # "pending", q.state \notin Over <=> Held(task, i),
         q.req = o.req,
         (q.turn = o.turn /\ q.plan = o.plan) \/ (q.turn = Len(ts) + 1 /\ q.plan = 0)
  PROVE  Row(task, q, n, i)
<1>1. ts \in Seq(TurnRec) /\ o \in OpRec
  BY DEF Row
<1>2. /\ n \in Seq(TurnRec) /\ Len(n) = Len(ts) + 1 /\ n[Len(ts) + 1] = turn
      /\ \A j \in 1..Len(ts) : n[j] = ts[j]
  OBVIOUS
<1>3. o.plan \in Nat /\ o.turn \in Nat /\ Len(ts) \in Nat
  BY <1>1 DEF OpRec
<1>4. q.turn <= Len(n) /\ q.plan \in {0, q.turn}
  BY <1>2, <1>3 DEF Row
<1>5. q.plan # 0 => n[q.plan].status = "completed" /\ n[q.plan].plan
  <2> SUFFICES ASSUME q.plan # 0 PROVE n[q.plan].status = "completed" /\ n[q.plan].plan
    OBVIOUS
  <2>1. q.plan = o.plan /\ ts[o.plan].status = "completed" /\ ts[o.plan].plan
    BY DEF Row
  <2>2. o.plan \in 1..Len(ts)
    BY <2>1, <1>3 DEF Row
  <2> QED BY <2>1, <2>2, <1>2
<1>6. LastTurn(task, q, n, i)
  BY <1>2 DEF LastTurn, Timely, Fresh
<1>7. ~task.back => q.req <= task.text
  BY DEF Row
<1> QED BY <1>2, <1>4, <1>5, <1>6, <1>7 DEF Row

\* Conversation i of b has a turn more than that of p, the last of ts, and anything that
\* its operation may record of that is in order.
BegunWith(b, i, ts) ==
  /\ DOMAIN b = Fields /\ b.task = p.task /\ b.w = p.w /\ b.worker = p.worker
  /\ b.ops = p.ops /\ b.turns = [p.turns EXCEPT ![i] = ts]
  /\ Len(ts) > 0 /\ ts[Len(ts)].told = Told(p, i, p.w.req)
  /\ \A q \in OpRec :
       /\ q.thread /\ q.state \notin Over \cup {"pending"} /\ q.req = p.ops[i].req
       /\ \/ q.turn = p.ops[i].turn /\ q.plan = p.ops[i].plan
          \/ q.turn = Len(p.turns[i]) + 1 /\ q.plan = 0
       => Row(p.task, q, ts, i)

\* Codex begins the turn of a message.
LEMMA BegunIs ==
  ASSUME Good(p), p.w.pc = "turn", NEW i, i = p.w.op, NEW b, b = Begun(p, i)
  PROVE  \E ts : BegunWith(b, i, ts)
<1> DEFINE told == Told(p, i, p.w.req)
           turn == NewTurn("board", told)
           ts == Append(p.turns[i], turn)
<1>1. /\ i \in 1..Len(p.ops) /\ DOMAIN p = Fields
      /\ p.ops[i] \in OpRec /\ p.turns[i] \in Seq(TurnRec)
      /\ Row(p.task, p.ops[i], p.turns[i], i) /\ Holds(p.task, p.ops[i], p.w)
  BY Holding
<1>2. Held(p.task, i)
  BY <1>1 DEF Holds
<1>3. told \in ToldRec /\ Timely(p.task, p.ops[i], told)
  BY Telling
<1>4. /\ DOMAIN b = Fields /\ b.task = p.task /\ b.w = p.w /\ b.worker = p.worker
      /\ b.ops = p.ops /\ b.turns = [p.turns EXCEPT ![i] = ts]
  <2>1. b = [p EXCEPT !.turns[i] = Append(@, turn)]
    BY DEF Begun
  <2> HIDE DEF turn
  <2> QED BY <2>1, <1>1 DEF Fields
<1> HIDE DEF told
<1>5. turn \in TurnRec /\ turn.told = told
  BY <1>3 DEF NewTurn, TurnRec
<1> HIDE DEF turn
<1>6. /\ ts \in Seq(TurnRec) /\ Len(ts) = Len(p.turns[i]) + 1
      /\ ts[Len(p.turns[i]) + 1] = turn
      /\ \A j \in 1..Len(p.turns[i]) : ts[j] = p.turns[i][j]
  BY <1>1, <1>5, SeqAppend
<1> HIDE DEF ts
<1>7. Len(ts) > 0 /\ ts[Len(ts)].told = told
  <2>1. Len(p.turns[i]) \in Nat
    BY <1>1
  <2> QED BY <2>1, <1>5, <1>6
<1>8. ASSUME NEW q \in OpRec, q.thread, q.state \notin Over \cup {"pending"},
             q.req = p.ops[i].req,
             \/ q.turn = p.ops[i].turn /\ q.plan = p.ops[i].plan
             \/ q.turn = Len(p.turns[i]) + 1 /\ q.plan = 0
      PROVE  Row(p.task, q, ts, i)
  <2>1. q.state # "pending" /\ (q.state \notin Over <=> Held(p.task, i))
    BY <1>2, <1>8
  <2>2. Timely(p.task, p.ops[i], turn.told) /\ (turn.by = "board" => Held(p.task, i))
    BY <1>2, <1>3, <1>5
  <2> QED BY <1>1, <1>5, <1>6, <1>8, <2>1, <2>2, RowAppend
<1> QED BY <1>4, <1>7, <1>8 DEF told, BegunWith

LEMMA TurnStartedFine ==
  ASSUME Good(p), TurnStarted
  PROVE  Fine(p, p')
<1> DEFINE i == p.w.op
           b == Begun(p, i)
           o == [p.ops[i] EXCEPT !.state = "agent_running", !.turn = Last(p, i) + 1,
                                 !.plan = 0, !.edited = FALSE]
           z == [Put(b, i, "agent_running") EXCEPT
                   !.ops[i].turn = Last(p, i) + 1, !.ops[i].plan = 0, !.ops[i].edited = FALSE]
<1>1. p.w.pc = "turn" /\ p' = Unlock(Sent(z, i))
  BY DEF TurnStarted, At
<1>2. /\ i \in 1..Len(p.ops) /\ DOMAIN p = Fields
      /\ p.ops \in Seq(OpRec) /\ p.ops[i] \in OpRec /\ p.turns[i] \in Seq(TurnRec)
      /\ Holds(p.task, p.ops[i], p.w)
  BY <1>1, Holding
<1>3. p.ops[i].thread
  BY <1>1, <1>2 DEF Holds
<1>9. PICK ts : BegunWith(b, i, ts)
  BY <1>1, BegunIs
<1>4. /\ DOMAIN b = Fields /\ b.task = p.task /\ b.w = p.w /\ b.worker = p.worker
      /\ b.ops = p.ops /\ b.turns = [p.turns EXCEPT ![i] = ts]
      /\ Len(ts) > 0 /\ ts[Len(ts)].told = Told(p, i, p.w.req)
      /\ \A q \in OpRec :
           /\ q.thread /\ q.state \notin Over \cup {"pending"} /\ q.req = p.ops[i].req
           /\ \/ q.turn = p.ops[i].turn /\ q.plan = p.ops[i].plan
              \/ q.turn = Len(p.turns[i]) + 1 /\ q.plan = 0
           => Row(p.task, q, ts, i)
  BY <1>9 DEF BegunWith
<1> HIDE DEF b
<1>5. /\ DOMAIN z = Fields /\ z.task = p.task /\ z.w = p.w /\ z.worker = p.worker
      /\ z.ops = [p.ops EXCEPT ![i] = o] /\ z.turns = [p.turns EXCEPT ![i] = ts]
  BY <1>2, <1>4 DEF Fields, Put
<1> HIDE DEF z
<1>6. /\ o \in OpRec /\ o.state = "agent_running" /\ o.req = p.ops[i].req
      /\ o.thread = p.ops[i].thread /\ o.turn = Len(p.turns[i]) + 1 /\ o.plan = 0
  <2>1. Last(p, i) + 1 = Len(p.turns[i]) + 1 /\ Last(p, i) + 1 \in Nat
    BY <1>2 DEF Last
  <2> DEFINE l == Last(p, i) + 1
  <2> HIDE DEF l
  <2> QED BY <2>1, <1>2 DEF OpRec, OpState, l
<1> HIDE DEF o
<1>7. Row(p.task, o, ts, i)
  BY <1>3, <1>4, <1>6 DEF Over
<1>8. o.req = p.ops[i].req /\ o.state # "confirmed" /\ Len(ts) > 0
      /\ ts[Len(ts)].told = Told(p, i, p.w.req)
  BY <1>4, <1>6
<1> QED BY <1>1, <1>5, <1>7, <1>8, Sending

\* The conversation that holds the task back is closed, and releases it.
LEMMA Closes ==
  ASSUME NEW x, NEW y, NEW z, Good(x), NEW i \in 1..Len(x.ops), Held(x.task, i),
         ~Active(x, i), x.worker = 0 \/ x.w.why = "start",
         NEW o \in OpRec, o.state \in Over, o.thread = x.ops[i].thread, o.asks = "none",
         o.turn <= Len(x.turns[i]), o.plan \in {0, o.turn}, o.req = x.ops[i].req,
         o.plan # 0 => x.turns[i][o.plan].status = "completed" /\ x.turns[i][o.plan].plan,
         Rightly(x, o, i), DOMAIN z = Fields,
         NEW a \in {i, x.task.accepted},
         z.task = [x.task EXCEPT !.accepted = a, !.hold = FALSE],
         z.ops = [x.ops EXCEPT ![i] = o], z.turns = x.turns, z.w.why = x.w.why,
         z.worker = x.worker, y = Unlock(z)
  PROVE  Fine(x, y)
<1>1. /\ x.task \in TaskRec /\ x.ops \in Seq(OpRec) /\ x.turns \in Seq(Seq(TurnRec))
      /\ Len(x.turns) = Len(x.ops) /\ x.task.accepted \in 0..Len(x.ops)
      /\ Row(x.task, x.ops[i], x.turns[i], i)
  BY DEF Good
<1>2. a \in 0..Len(x.ops) /\ a \in Nat
  BY <1>1
<1>3. /\ z.task \in TaskRec /\ z.task.text = x.task.text /\ z.task.back = x.task.back
      /\ z.task.op = x.task.op
      /\ ~z.task.hold /\ z.task.accepted = a
  BY <1>1, <1>2 DEF TaskRec
<1>4. /\ y.task = z.task /\ y.ops = z.ops /\ y.turns = z.turns /\ DOMAIN y = Fields
      /\ y.w = Unlocked /\ y.worker = IF z.w.why = "start" THEN 0 ELSE z.worker
  BY DEF Unlock, Fields
<1>5. y.worker = 0
  BY <1>4
<1>6. Row(z.task, o, x.turns[i], i)
  <2>1. ~Held(z.task, i)
    BY <1>3 DEF Held
  <2>2. x.turns[i] \in Seq(TurnRec)
    BY <1>1 DEF Row
  <2>3. Len(x.turns[i]) > 0 => x.turns[i][Len(x.turns[i])].status # "active"
    BY DEF Active, Last
  <2>4. LastTurn(z.task, o, x.turns[i], i)
    BY <2>3, <1>1, <1>3 DEF Row, LastTurn, Timely, Fresh
  <2>5. o.state # "pending" /\ (~z.task.back => o.req <= z.task.text)
        /\ (~o.thread => Len(x.turns[i]) = 0)
    BY <1>1, <1>3 DEF Row, Over
  <2> QED BY <2>1, <2>2, <2>4, <2>5 DEF Row
<1>7. y.turns = [x.turns EXCEPT ![i] = x.turns[i]]
  <2> DEFINE T == Seq(TurnRec)
  <2>1. x.turns \in Seq(T) BY <1>1
  <2> HIDE DEF T
  <2> QED BY <2>1, <1>1, <1>4, SeqSame
<1>8. Holds(y.task, y.ops[y.w.op], y.w) /\ Waits(y.task, y.ops, y.w, y.worker)
  BY <1>4, <1>5, FreeHolds, FreeWaits
<1>9. /\ y.task \in TaskRec /\ y.ops = [x.ops EXCEPT ![i] = o] /\ y.task.text = x.task.text
      /\ y.task.back = x.task.back
      /\ y.task.op = x.task.op /\ y.task.accepted \in 0..Len(x.ops) /\ ~y.task.hold
      /\ Row(y.task, o, x.turns[i], i) /\ x.task.op = i
  BY <1>2, <1>3, <1>4, <1>6 DEF Held
<1>10. y.w.pc = "idle" /\ y.worker \in 0..Len(x.ops) /\ DOMAIN y = Fields
  <2>1. Len(x.ops) \in Nat
    BY <1>1
  <2> QED BY <2>1, <1>4, <1>5 DEF Unlocked
<1> QED BY <1>7, <1>8, <1>9, <1>10, Change

LEMMA SaveFine ==
  ASSUME Good(p), Save
  PROVE  Fine(p, p')
<1> DEFINE i == Saveable
           k == Locked("save", "user", i)
<1>1. /\ p.w.pc = "idle" /\ i # 0 /\ p.ops[i].state \in {"ready", "confirmed"}
      /\ p' = [p EXCEPT !.w = k]
  BY DEF Save, Idle, Op
<1>2. p.worker = 0
  <2> SUFFICES ASSUME p.worker # 0 PROVE FALSE
    OBVIOUS
  <2>1. p.task.hold /\ p.task.op = p.worker /\ p.ops[p.worker].state = "pending"
    BY <1>1, Waiting DEF Held
  <2> QED BY <1>1, <2>1 DEF Saveable
<1>3. i \in 1..Len(p.ops)
  BY <1>1 DEF Good, Saveable
<1>4. k \in LockRec /\ k.pc = "save" /\ k.why = "user" /\ k.op = i /\ k.req = 0
  <2> HIDE DEF i
  <2> QED BY <1>3, LockedIs
<1> HIDE DEF k
<1>5. Holds(p.task, p.ops[i], k)
  BY <1>4 DEF Holds, Fresh
<1> HIDE DEF i
<1> QED BY <1>1, <1>2, <1>3, <1>4, <1>5, Takes

LEMMA SaveApplyFine ==
  ASSUME Good(p), SaveApply
  PROVE  Fine(p, p')
<1> DEFINE i == p.w.op
           o == [p.ops[i] EXCEPT !.edited = TRUE]
           z == [p EXCEPT !.ops[i].edited = TRUE]
<1>1. p.w.pc = "save" /\ (p' = Unlock(p) \/ p' = Unlock(z))
  BY DEF SaveApply, At
<1>2. /\ i \in 1..Len(p.ops) /\ DOMAIN p = Fields /\ p.ops[i] \in OpRec
      /\ Row(p.task, p.ops[i], p.turns[i], i) /\ p.task \in TaskRec
      /\ p.turns = [p.turns EXCEPT ![i] = p.turns[i]] /\ p.task.accepted \in 0..Len(p.ops)
  BY <1>1, Holding
<1>3. CASE p' = Unlock(p)
  BY <1>1, <1>3, GivesUp
<1>4. CASE p' = Unlock(z)
  <2>1. /\ DOMAIN z = Fields /\ z.task = p.task /\ z.w = p.w /\ z.worker = p.worker
        /\ z.turns = p.turns /\ z.ops = [p.ops EXCEPT ![i] = o]
    BY <1>2 DEF Fields
  <2>2. /\ o \in OpRec /\ o.state = p.ops[i].state /\ o.req = p.ops[i].req
        /\ o.thread = p.ops[i].thread /\ o.turn = p.ops[i].turn /\ o.plan = p.ops[i].plan
        /\ o.asks = p.ops[i].asks
    BY <1>2 DEF OpRec
  <2> HIDE DEF z, o
  <2>3. Row(p.task, o, p.turns[i], i)
    BY <1>2, <2>2 DEF Row, LastTurn, Timely, Fresh
  <2>4. Rightly(p, o, i)
    BY <2>2 DEF Rightly
  <2>5. /\ z.turns = [p.turns EXCEPT ![i] = p.turns[i]] /\ Row(z.task, o, p.turns[i], i)
        /\ z.task \in TaskRec /\ z.w.why = p.w.why /\ z.task.text = p.task.text
        /\ z.task.back = p.task.back
        /\ z.task.op = p.task.op /\ z.task.accepted \in 0..Len(p.ops)
        /\ z.task.hold = p.task.hold
    BY <1>2, <2>1, <2>3
  <2>6. p.w.pc # "idle" /\ i \in 1..Len(p.ops)
    BY <1>1, <1>2
  <2> HIDE DEF i
  <2> QED BY <1>4, <2>1, <2>4, <2>5, <2>6, Finishes
<1> QED BY <1>1, <1>3, <1>4

LEMMA AcceptFine ==
  ASSUME Good(p), Accept
  PROVE  Fine(p, p')
<1> DEFINE i == p.task.op
           k == Locked("accept", "user", i)
<1>1. p.w.pc = "idle" /\ p.task.hold /\ p.ops[i].thread /\ p' = [p EXCEPT !.w = k]
  BY DEF Accept, Idle, Op
<1>2. p.worker = 0
  BY <1>1, Waiting DEF Held
<1>3. i \in 1..Len(p.ops) /\ Row(p.task, p.ops[i], p.turns[i], i)
  BY <1>1 DEF Good
<1>4. k \in LockRec /\ k.pc = "accept" /\ k.why = "user" /\ k.op = i /\ k.req = 0
  BY <1>3, LockedIs
<1> HIDE DEF k
<1>5. p.ops[i].state \notin Over /\ Held(p.task, i)
  BY <1>1, <1>3 DEF Row, Held
<1>6. Holds(p.task, p.ops[i], k)
  BY <1>1, <1>4, <1>5 DEF Holds, Fresh
<1> HIDE DEF i
<1> QED BY <1>1, <1>2, <1>3, <1>4, <1>6, Takes

\* A conversation that has not changed since its plan was recorded can be accepted.
LEMMA Acceptable ==
  ASSUME NEW x, Good(x), NEW i \in 1..Len(x.ops), NEW o \in OpRec,
         o.plan = Last(x, i), o.plan # 0, x.turns[i][o.plan].status = "completed",
         x.turns[i][o.plan].plan, x.ops[i].req = x.task.text, x.ops[i].asks = "none"
  PROVE  Rightly(x, o, i)
<1>1. /\ x.task \in TaskRec /\ x.ops \in Seq(OpRec)
      /\ Row(x.task, x.ops[i], x.turns[i], i)
  BY DEF Good
<1>2. /\ LastTurn(x.task, x.ops[i], x.turns[i], i) /\ x.turns[i] \in Seq(TurnRec)
      /\ x.ops[i] \in OpRec
  BY <1>1 DEF Row
<1>3. Len(x.turns[i]) \in 1..Len(x.turns[i]) /\ Last(x, i) = Len(x.turns[i])
  BY <1>2 DEF Last
<1>4. x.turns[i][Len(x.turns[i])] \in TurnRec
  BY <1>2, <1>3
<1>5. x.turns[i][Last(x, i)].told \in ToldRec /\ x.task.text \in Nat
  BY <1>1, <1>3, <1>4 DEF TurnRec, TaskRec
<1>6. x.turns[i][Last(x, i)].told.req \in Nat
  BY <1>5 DEF ToldRec
<1>7. \/ x.turns[i][Last(x, i)].told.late \/ x.task.back
      \/ x.turns[i][Last(x, i)].told.req \in {0, x.task.text}
  BY <1>2, <1>3, <1>5, <1>6 DEF LastTurn, Timely, Fresh
<1> QED BY <1>7 DEF Rightly

LEMMA AcceptApplyFine ==
  ASSUME Good(p), AcceptApply
  PROVE  Fine(p, p')
<1> DEFINE i == p.w.op
           o == [p.ops[i] EXCEPT !.state = "confirmed"]
           z == Accepts(p, i)
<1>1. p.w.pc = "accept"
  BY DEF AcceptApply, At
<1>2. /\ i \in 1..Len(p.ops) /\ DOMAIN p = Fields /\ p.ops[i] \in OpRec
      /\ Row(p.task, p.ops[i], p.turns[i], i) /\ Holds(p.task, p.ops[i], p.w)
      /\ p.task \in TaskRec
  BY <1>1, Holding
<1>3. p.worker = 0 \/ p.w.why = "start"
  BY <1>1, Holding
<1>4. CASE p' = Unlock(p)
  BY <1>1, <1>4, GivesUp
<1>5. CASE /\ ~Changed(p, i) /\ p.ops[i].plan # 0 /\ p.ops[i].req = p.task.text
           /\ p.ops[i].asks = "none" /\ p' = Unlock(z)
  <2>1. ~Active(p, i) /\ Last(p, i) = p.ops[i].turn
    BY <1>5 DEF Changed
  <2>2. /\ DOMAIN z = Fields /\ z.w = p.w /\ z.worker = p.worker /\ z.turns = p.turns
        /\ z.task = [p.task EXCEPT !.accepted = i, !.hold = FALSE]
        /\ z.ops = [p.ops EXCEPT ![i] = o]
    BY <1>2 DEF Fields, Accepts, Released, Put
  <2>3. /\ o \in OpRec /\ o.state = "confirmed" /\ o.req = p.ops[i].req
        /\ o.thread = p.ops[i].thread /\ o.turn = p.ops[i].turn /\ o.plan = p.ops[i].plan
        /\ o.asks = p.ops[i].asks
    BY <1>2 DEF OpRec, OpState, Over
  <2> HIDE DEF z, o
  <2>4. /\ o.turn <= Len(p.turns[i]) /\ o.plan \in {0, o.turn} /\ o.plan # 0
        /\ p.turns[i][o.plan].status = "completed" /\ p.turns[i][o.plan].plan
    BY <1>2, <1>5, <2>3 DEF Row
  <2>5. Rightly(p, o, i)
    <3>1. o.plan = Last(p, i)
      BY <2>1, <2>3, <2>4
    <3> QED BY <3>1, <2>3, <2>4, <1>2, <1>5, Acceptable
  <2>6. Held(p.task, i) /\ o.state \in Over /\ o.asks = "none" /\ z.w.why = p.w.why
    BY <1>1, <1>2, <1>5, <2>2, <2>3 DEF Holds, Over
  <2>7. i \in 1..Len(p.ops) /\ i \in {i, p.task.accepted}
    BY <1>2
  <2> HIDE DEF i
  <2>8. /\ p' = Unlock(z) /\ ~Active(p, i) /\ z.worker = p.worker
        /\ o \in OpRec /\ o.thread = p.ops[i].thread /\ o.req = p.ops[i].req
    BY <1>5, <2>1, <2>2, <2>3
  <2> QED BY <1>3, <2>2, <2>4, <2>5, <2>6, <2>7, <2>8, Closes
<1> QED BY <1>4, <1>5 DEF AcceptApply, Op

\* A conversation without a turn under way is canceled.
LEMMA CanceledFine ==
  ASSUME Good(p), NEW i \in 1..Len(p.ops), Held(p.task, i), ~Active(p, i),
         p.worker = 0 \/ p.w.why = "start", NEW y, y = Unlock(Canceled(p, i))
  PROVE  Fine(p, y)
<1> DEFINE o == [p.ops[i] EXCEPT !.state = "canceled", !.asks = "none"]
           z == Canceled(p, i)
<1>1. /\ p.ops \in Seq(OpRec) /\ p.ops[i] \in OpRec /\ DOMAIN p = Fields /\ p.task \in TaskRec
      /\ Row(p.task, p.ops[i], p.turns[i], i)
  BY DEF Good
<1>2. /\ DOMAIN z = Fields /\ z.w = p.w /\ z.worker = p.worker /\ z.turns = p.turns
      /\ z.task = [p.task EXCEPT !.hold = FALSE] /\ z.ops = [p.ops EXCEPT ![i] = o]
  BY <1>1 DEF Fields, Canceled, Released, Put
<1>3. /\ o \in OpRec /\ o.state = "canceled" /\ o.req = p.ops[i].req /\ o.asks = "none"
      /\ o.thread = p.ops[i].thread /\ o.turn = p.ops[i].turn /\ o.plan = p.ops[i].plan
  BY <1>1 DEF OpRec, OpState, Over
<1>4. z.task = [p.task EXCEPT !.accepted = p.task.accepted, !.hold = FALSE]
  BY <1>1, <1>2 DEF TaskRec
<1>5. y = Unlock(z)
  OBVIOUS
<1> HIDE DEF z, o
<1>6. /\ o.turn <= Len(p.turns[i]) /\ o.plan \in {0, o.turn}
      /\ o.plan # 0 => p.turns[i][o.plan].status = "completed" /\ p.turns[i][o.plan].plan
  BY <1>1, <1>3 DEF Row
<1>7. Rightly(p, o, i) /\ o.state \in Over /\ z.w.why = p.w.why
  BY <1>2, <1>3 DEF Rightly, Over
<1>8. p.task.accepted \in {i, p.task.accepted}
  OBVIOUS
<1> QED BY <1>2, <1>3, <1>4, <1>5, <1>6, <1>7, <1>8, Closes

LEMMA CancelFine ==
  ASSUME Good(p), Cancel
  PROVE  Fine(p, p')
<1> DEFINE i == p.task.op
           k == Locked("cancel", "user", i)
<1>1. /\ p.w.pc = "idle" /\ p.task.hold /\ p.ops[i].state \notin {"pending", "starting"}
      /\ p' = IF p.ops[i].thread THEN [p EXCEPT !.w = k] ELSE Unlock(Canceled(p, i))
  BY DEF Cancel, Cancelable, Idle, Op
<1>2. p.worker = 0
  BY <1>1, Waiting DEF Held
<1>3. i \in 1..Len(p.ops) /\ Row(p.task, p.ops[i], p.turns[i], i)
  BY <1>1 DEF Good
<1>4. Held(p.task, i) /\ p.ops[i].state \notin Over
  BY <1>1, <1>3 DEF Held, Row
<1>5. CASE p.ops[i].thread
  <2>1. k \in LockRec /\ k.pc = "cancel" /\ k.why = "user" /\ k.op = i /\ k.req = 0
    BY <1>3, LockedIs
  <2>2. p' = [p EXCEPT !.w = k]
    BY <1>1, <1>5
  <2> HIDE DEF k
  <2>3. Holds(p.task, p.ops[i], k)
    BY <2>1, <1>4, <1>5 DEF Holds, Fresh
  <2> HIDE DEF i
  <2> QED BY <2>1, <2>2, <2>3, <1>2, <1>3, Takes
<1>6. CASE ~p.ops[i].thread
  <2>1. ~Active(p, i)
    <3>1. Len(p.turns[i]) = 0
      BY <1>3, <1>6 DEF Row
    <3> QED BY <3>1 DEF Active, Last
  <2> QED BY <2>1, <1>1, <1>2, <1>3, <1>4, <1>6, CanceledFine
<1> QED BY <1>5, <1>6

LEMMA CancelApplyFine ==
  ASSUME Good(p), CancelApply \/ CancelStopped
  PROVE  Fine(p, p')
<1> DEFINE i == p.w.op
<1>1. p.w.pc \in {"cancel", "stopped"}
  BY DEF CancelApply, CancelStopped, At
<1>2. /\ i \in 1..Len(p.ops) /\ DOMAIN p = Fields /\ Holds(p.task, p.ops[i], p.w)
      /\ p.w \in LockRec /\ p.worker \in 0..Len(p.ops)
      /\ p.worker = 0 \/ (p.worker = i /\ p.w.why = "start")
  BY <1>1, Holding
<1>3. Held(p.task, i) /\ p.ops[i].state \notin Over /\ p.ops[i].thread
  BY <1>1, <1>2 DEF Holds
<1>4. CASE p' = Unlock(p)
  BY <1>1, <1>4, GivesUp
<1>5. CASE ~Active(p, i) /\ p' = Unlock(Canceled(p, i))
  BY <1>2, <1>3, <1>5, CanceledFine
<1>6. CASE p.w.pc = "cancel" /\ p' = [p EXCEPT !.w.pc = "stopped"]
  <2>1. /\ DOMAIN p' = Fields /\ p'.task = p.task /\ p'.ops = p.ops /\ p'.turns = p.turns
        /\ p'.worker = p.worker /\ p'.w = [p.w EXCEPT !.pc = "stopped"]
    BY <1>6, <1>2 DEF Fields
  <2>2. /\ p'.w \in LockRec /\ p'.w.pc = "stopped" /\ p'.w.op = i /\ p'.w.why = p.w.why
        /\ p'.w.req = p.w.req
    BY <2>1, <1>2 DEF LockRec
  <2>3. Holds(p.task, p.ops[i], p'.w)
    BY <2>2, <1>1, <1>2, <1>3 DEF Holds
  <2>4. Waits(p.task, p.ops, p'.w, p'.worker)
    BY <2>1, <2>2, <1>2, <1>3 DEF Waits
  <2> QED BY <2>1, <2>2, <2>3, <2>4, <1>2, Moves
<1> QED BY <1>4, <1>5, <1>6 DEF CancelApply, CancelStopped, At

LEMMA RecoverFine ==
  ASSUME Good(p), NEW i \in 1..Len(p.ops), Recover(i)
  PROVE  Fine(p, p')
<1> DEFINE k == Locked("observe", "loop", i)
           o == [p.ops[i] EXCEPT !.state = "blocked"]
<1>1. p.w.pc = "idle" /\ p.ops[i].state \notin Over /\ i # p.worker
  BY DEF Recover, Idle, Unfinished, Op
<1>2. /\ Row(p.task, p.ops[i], p.turns[i], i) /\ DOMAIN p = Fields /\ p.ops \in Seq(OpRec)
      /\ p.ops[i] \in OpRec /\ p.w \in LockRec /\ p.w.why = "none"
  BY <1>1 DEF Good, Holds
<1>3. Held(p.task, i)
  BY <1>1, <1>2 DEF Row
<1>4. p.worker = 0
  BY <1>1, <1>3, Waiting DEF Held
<1>5. CASE p.ops[i].thread
  <2>1. k \in LockRec /\ k.pc = "observe" /\ k.why = "loop" /\ k.op = i /\ k.req = 0
    BY LockedIs
  <2>2. p' = [p EXCEPT !.w = k]
    BY <1>5 DEF Recover, Op
  <2> HIDE DEF k
  <2>3. Holds(p.task, p.ops[i], k)
    BY <2>1, <1>1, <1>3, <1>5 DEF Holds, Fresh
  <2> QED BY <2>1, <2>2, <2>3, <1>4, Takes
<1>6. CASE ~p.ops[i].thread
  <2>1. p' = Put(p, i, "blocked")
    BY <1>6 DEF Recover, Op
  <2>2. /\ DOMAIN p' = Fields /\ p'.task = p.task /\ p'.turns = p.turns /\ p'.worker = 0
        /\ p'.w = p.w /\ p'.ops = [p.ops EXCEPT ![i] = o]
    BY <2>1, <1>2, <1>4 DEF Put, Fields
  <2>3. /\ o \in OpRec /\ o.state = "blocked" /\ o.req = p.ops[i].req
        /\ o.thread = p.ops[i].thread /\ o.turn = p.ops[i].turn /\ o.plan = p.ops[i].plan
        /\ o.asks = p.ops[i].asks
    BY <1>2 DEF OpRec, OpState
  <2> HIDE DEF o
  <2>4. Row(p.task, o, p.turns[i], i)
    BY <1>2, <1>3, <2>3, RowLike DEF Over
  <2>5. /\ p.task \in TaskRec /\ p.task.accepted \in 0..Len(p.ops) /\ Len(p.ops) \in Nat
        /\ p.turns \in Seq(Seq(TurnRec)) /\ Len(p.turns) = Len(p.ops)
    BY <1>2 DEF Good
  <2>6. p'.turns = [p.turns EXCEPT ![i] = p.turns[i]]
    <3> DEFINE T == Seq(TurnRec)
    <3>1. p.turns \in Seq(T) BY <2>5
    <3> HIDE DEF T
    <3> QED BY <3>1, <2>2, <2>5, SeqSame
  <2>7. Rightly(p, o, i)
    BY <2>3 DEF Rightly
  <2>8. Holds(p'.task, p'.ops[p'.w.op], p'.w) /\ Waits(p'.task, p'.ops, p'.w, p'.worker)
    BY <2>2, <1>1, <1>2 DEF Holds, Waits
  <2>9. /\ p'.task \in TaskRec /\ p'.task.text = p.task.text /\ p'.task.back = p.task.back
        /\ p'.task.op = p.task.op
        /\ p'.task.accepted \in 0..Len(p.ops) /\ p'.task.hold = p.task.hold
        /\ p'.worker \in 0..Len(p.ops) /\ p'.w.pc = "idle" /\ Row(p'.task, o, p.turns[i], i)
    BY <2>2, <2>4, <2>5, <1>1
  <2> QED BY <2>2, <2>6, <2>7, <2>8, <2>9, Change
<1> QED BY <1>5, <1>6

\* The operation when the last of its n turns is known.
SeenOp(o, n) == IF n = o.turn THEN o
                ELSE [o EXCEPT !.turn = n, !.plan = 0, !.edited = FALSE]

LEMMA SeenIs ==
  ASSUME NEW o \in OpRec, NEW n \in Nat, NEW q, q = SeenOp(o, n)
  PROVE  /\ q \in OpRec /\ q.turn = n /\ q.plan \in {0, o.plan}
         /\ q.plan # 0 => n = o.turn
         /\ q.state = o.state /\ q.thread = o.thread /\ q.req = o.req /\ q.asks = o.asks
<1>1. CASE n = o.turn
  BY <1>1 DEF SeenOp, OpRec
<1>2. CASE n # o.turn
  BY <1>2 DEF SeenOp, OpRec
<1> QED BY <1>1, <1>2

\* What the loop makes of conversation i, whose last turn is the nth: operation q goes on,
\* or its proposal is recorded, and accepted or not.
ObservedAs(x, z, i, n, q, turn) ==
  /\ DOMAIN z = Fields /\ z.turns = x.turns /\ z.worker = x.worker /\ z.w = x.w
  /\ \/ \E state \in {"agent_running", "blocked", "conversation"} :
          z.task = x.task /\ z.ops = [x.ops EXCEPT ![i] = [q EXCEPT !.state = state]]
     \/ /\ turn.status \notin {"active", "failed", "interrupted"}
        /\ turn.status = "completed" => turn.plan
        /\ \E state \in {"ready", "blocked", "confirmed"} :
             /\ z.ops = [x.ops EXCEPT ![i] = [[q EXCEPT !.plan = n] EXCEPT !.state = state]]
             /\ IF state = "confirmed"
                  THEN Current(x, i) /\ z.task = [x.task EXCEPT !.accepted = i, !.hold = FALSE]
                  ELSE z.task = x.task

LEMMA ObservedIs ==
  ASSUME NEW x, DOMAIN x = Fields, x.ops \in Seq(OpRec), NEW i \in 1..Len(x.ops),
         NEW z, z = Observed(x, i), NEW n, n = Last(x, i), NEW q, q = SeenOp(x.ops[i], n),
         NEW turn, turn = x.turns[i][n]
  PROVE  ObservedAs(x, z, i, n, q, turn)
<1> DEFINE y == IF n = x.ops[i].turn THEN x
                ELSE [x EXCEPT !.ops[i].turn = n, !.ops[i].plan = 0, !.ops[i].edited = FALSE]
           m == [y EXCEPT !.ops[i].plan = n]
<1>1. z = CASE turn.status = "active" -> Put(y, i, "agent_running")
            [] turn.status \in {"failed", "interrupted"} -> Put(y, i, "blocked")
            [] turn.status = "completed" /\ ~turn.plan -> Put(y, i, "conversation")
            [] OTHER -> IF x.ops[i].asks # "none" THEN Put(m, i, "ready")
                        ELSE IF Current(x, i) THEN Accepts(m, i) ELSE Put(m, i, "blocked")
  BY DEF Observed
<1>2. /\ DOMAIN y = Fields /\ y.turns = x.turns /\ y.worker = x.worker /\ y.w = x.w
      /\ y.task = x.task /\ y.ops = [x.ops EXCEPT ![i] = q]
  <2>1. CASE n = x.ops[i].turn
    <3>1. q = x.ops[i] /\ y = x
      BY <2>1 DEF SeenOp
    <3> HIDE DEF y
    <3> QED BY <3>1, SeqSame
  <2>2. CASE n # x.ops[i].turn
    <3>1. q = [x.ops[i] EXCEPT !.turn = n, !.plan = 0, !.edited = FALSE]
      BY <2>2 DEF SeenOp
    <3>2. y = [x EXCEPT !.ops[i].turn = n, !.ops[i].plan = 0, !.ops[i].edited = FALSE]
      BY <2>2
    <3> HIDE DEF y
    <3> QED BY <3>1, <3>2 DEF Fields
  <2> QED BY <2>1, <2>2
<1>3. /\ DOMAIN m = Fields /\ m.turns = x.turns /\ m.worker = x.worker /\ m.w = x.w
      /\ m.task = x.task /\ m.ops = [x.ops EXCEPT ![i] = [q EXCEPT !.plan = n]]
  <2> HIDE DEF y
  <2> QED BY <1>2 DEF Fields
<1> HIDE DEF y, m
<1>4. \A state : LET b == Put(y, i, state) IN
         /\ DOMAIN b = Fields /\ b.turns = x.turns /\ b.worker = x.worker /\ b.w = x.w
         /\ b.task = x.task /\ b.ops = [x.ops EXCEPT ![i] = [q EXCEPT !.state = state]]
  BY <1>2 DEF Put, Fields
<1>5. \A state : LET b == Put(m, i, state) IN
         /\ DOMAIN b = Fields /\ b.turns = x.turns /\ b.worker = x.worker /\ b.w = x.w
         /\ b.task = x.task
         /\ b.ops = [x.ops EXCEPT ![i] = [[q EXCEPT !.plan = n] EXCEPT !.state = state]]
  BY <1>3 DEF Put, Fields
<1>6. LET b == Accepts(m, i) IN
         /\ DOMAIN b = Fields /\ b.turns = x.turns /\ b.worker = x.worker /\ b.w = x.w
         /\ b.task = [x.task EXCEPT !.accepted = i, !.hold = FALSE]
         /\ b.ops = [x.ops EXCEPT ![i] = [[q EXCEPT !.plan = n] EXCEPT !.state = "confirmed"]]
  BY <1>3 DEF Put, Fields, Accepts, Released
<1>7. CASE turn.status = "active"
  <2>1. z = Put(y, i, "agent_running")
    BY <1>1, <1>7
  <2>2. /\ DOMAIN z = Fields /\ z.turns = x.turns /\ z.worker = x.worker /\ z.w = x.w
        /\ z.task = x.task /\ z.ops = [x.ops EXCEPT ![i] = [q EXCEPT !.state = "agent_running"]]
    BY <2>1, <1>4
  <2> QED BY <2>2 DEF ObservedAs
<1>8. CASE turn.status \in {"failed", "interrupted"}
  <2>1. z = Put(y, i, "blocked")
    BY <1>1, <1>8
  <2>2. /\ DOMAIN z = Fields /\ z.turns = x.turns /\ z.worker = x.worker /\ z.w = x.w
        /\ z.task = x.task /\ z.ops = [x.ops EXCEPT ![i] = [q EXCEPT !.state = "blocked"]]
    BY <2>1, <1>4
  <2> QED BY <2>2 DEF ObservedAs
<1>9. CASE turn.status = "completed" /\ ~turn.plan
  <2>1. z = Put(y, i, "conversation")
    BY <1>1, <1>9
  <2>2. /\ DOMAIN z = Fields /\ z.turns = x.turns /\ z.worker = x.worker /\ z.w = x.w
        /\ z.task = x.task /\ z.ops = [x.ops EXCEPT ![i] = [q EXCEPT !.state = "conversation"]]
    BY <2>1, <1>4
  <2> QED BY <2>2 DEF ObservedAs
<1>10. CASE /\ turn.status \notin {"active", "failed", "interrupted"}
            /\ turn.status = "completed" => turn.plan
  <2>1. z = IF x.ops[i].asks # "none" THEN Put(m, i, "ready")
            ELSE IF Current(x, i) THEN Accepts(m, i) ELSE Put(m, i, "blocked")
    BY <1>1, <1>10
  <2>2. CASE z = Put(m, i, "ready")
    <3>1. /\ DOMAIN z = Fields /\ z.turns = x.turns /\ z.worker = x.worker /\ z.w = x.w
          /\ z.task = x.task
          /\ z.ops = [x.ops EXCEPT ![i] = [[q EXCEPT !.plan = n] EXCEPT !.state = "ready"]]
      BY <2>2, <1>5
    <3> QED BY <3>1, <1>10 DEF ObservedAs
  <2>3. CASE z = Put(m, i, "blocked")
    <3>1. /\ DOMAIN z = Fields /\ z.turns = x.turns /\ z.worker = x.worker /\ z.w = x.w
          /\ z.task = x.task
          /\ z.ops = [x.ops EXCEPT ![i] = [[q EXCEPT !.plan = n] EXCEPT !.state = "blocked"]]
      BY <2>3, <1>5
    <3> QED BY <3>1, <1>10 DEF ObservedAs
  <2>4. CASE Current(x, i) /\ z = Accepts(m, i)
    BY <2>4, <1>6, <1>10 DEF ObservedAs
  <2> QED BY <2>1, <2>2, <2>3, <2>4
<1> QED BY <1>7, <1>8, <1>9, <1>10

\* A conversation that is not over goes on as its last turn says.
LEMMA ObserveFine ==
  ASSUME Good(p), Observe
  PROVE  Fine(p, p')
<1> DEFINE i == p.w.op
           n == Last(p, i)
           q == SeenOp(p.ops[i], n)
           turn == p.turns[i][n]
           z == Observed(p, i)
<1>1. p.w.pc = "observe"
  BY DEF Observe, At
<1>2. /\ i \in 1..Len(p.ops) /\ DOMAIN p = Fields /\ p.ops \in Seq(OpRec)
      /\ p.ops[i] \in OpRec /\ p.turns[i] \in Seq(TurnRec) /\ p.task \in TaskRec
      /\ p.turns = [p.turns EXCEPT ![i] = p.turns[i]] /\ p.task.accepted \in 0..Len(p.ops)
      /\ Row(p.task, p.ops[i], p.turns[i], i) /\ Holds(p.task, p.ops[i], p.w)
  BY <1>1, Holding
<1>3. p.worker = 0 \/ p.w.why = "start"
  BY <1>1, Holding
<1>4. Held(p.task, i) /\ p.ops[i].state \notin Over /\ p.ops[i].thread
  BY <1>1, <1>2 DEF Holds
<1>5. CASE p' = Unlock(p)
  BY <1>1, <1>5, GivesUp
<1>6. CASE n # 0 /\ p' = Unlock(z)
  <2>1. n = Len(p.turns[i]) /\ n \in 1..Len(p.turns[i]) /\ n \in Nat
    BY <1>2, <1>6 DEF Last
  <2>2. turn \in TurnRec
    BY <2>1, <1>2
  <2>a. /\ n = Last(p, i) /\ q = SeenOp(p.ops[i], n) /\ turn = p.turns[i][n]
        /\ z = Observed(p, i)
    OBVIOUS
  <2> HIDE DEF q, turn, n, z
  <2>3. /\ q \in OpRec /\ q.turn = n /\ q.plan \in {0, p.ops[i].plan}
        /\ q.plan # 0 => n = p.ops[i].turn
        /\ q.state = p.ops[i].state /\ q.thread = p.ops[i].thread /\ q.req = p.ops[i].req
        /\ q.asks = p.ops[i].asks
    <3>1. p.ops[i] \in OpRec
      BY <1>2
    <3> HIDE DEF i
    <3> QED BY <2>1, <2>a, <3>1, SeenIs
  <2>4. ObservedAs(p, z, i, n, q, turn)
    <3>1. i \in 1..Len(p.ops) /\ DOMAIN p = Fields /\ p.ops \in Seq(OpRec)
      BY <1>2
    <3> HIDE DEF i
    <3> QED BY <2>a, <3>1, ObservedIs
  <2>5. ASSUME NEW o \in OpRec, z.task = p.task, z.ops = [p.ops EXCEPT ![i] = o],
               o.state \in {"agent_running", "blocked", "conversation", "ready"},
               o.turn = n, o.thread = q.thread, o.req = q.req, o.asks = q.asks,
               o.plan = q.plan \/ (o.plan = n /\ turn.status = "completed" /\ turn.plan)
        PROVE  Fine(p, p')
    <3>1. o.state \notin Over /\ o.state # "pending" /\ o.state # "confirmed" /\ o.thread
      BY <2>3, <2>5, <1>4 DEF Over
    <3>2. /\ o.plan \in {0, n}
          /\ o.plan # 0 => p.turns[i][o.plan].status = "completed" /\ p.turns[i][o.plan].plan
      <4>1. CASE o.plan = q.plan
        BY <4>1, <2>3, <1>2 DEF Row
      <4>2. CASE o.plan = n /\ turn.status = "completed" /\ turn.plan
        BY <4>2 DEF turn
      <4> QED BY <2>5, <4>1, <4>2
    <3>3. LastTurn(p.task, o, p.turns[i], i) /\ (~p.task.back => o.req <= p.task.text)
      BY <1>2, <2>3, <2>5 DEF Row, LastTurn, Timely, Fresh
    <3>4. Row(p.task, o, p.turns[i], i)
      <4>1. p.turns[i] \in Seq(TurnRec)
        BY <1>2
      <4> QED BY <3>1, <3>2, <3>3, <2>1, <2>5, <1>4, <4>1 DEF Row
    <3>5. Rightly(p, o, i)
      BY <3>1 DEF Rightly
    <3>6. /\ z.turns = [p.turns EXCEPT ![i] = p.turns[i]] /\ Row(z.task, o, p.turns[i], i)
          /\ z.task \in TaskRec /\ z.w.why = p.w.why /\ z.task.text = p.task.text
          /\ z.task.back = p.task.back
          /\ z.task.op = p.task.op /\ z.task.accepted \in 0..Len(p.ops)
          /\ z.task.hold = p.task.hold /\ z.worker = p.worker /\ DOMAIN z = Fields
      BY <1>2, <2>4, <2>5, <3>4 DEF ObservedAs
    <3>7. p.w.pc # "idle" /\ i \in 1..Len(p.ops) /\ p' = Unlock(z)
      BY <1>1, <1>2, <1>6
    <3> HIDE DEF i
    <3> QED BY <2>5, <3>5, <3>6, <3>7, Finishes
  <2>6. ASSUME NEW state \in {"agent_running", "blocked", "conversation"}, z.task = p.task,
               z.ops = [p.ops EXCEPT ![i] = [q EXCEPT !.state = state]]
        PROVE  Fine(p, p')
    <3> DEFINE o == [q EXCEPT !.state = state]
    <3>1. /\ o \in OpRec /\ o.state = state /\ o.turn = n /\ o.thread = q.thread
          /\ o.req = q.req /\ o.asks = q.asks /\ o.plan = q.plan
      BY <2>3 DEF OpRec, OpState
    <3>2. z.ops = [p.ops EXCEPT ![i] = o]
      BY <2>6
    <3> HIDE DEF o
    <3> QED BY <2>5, <2>6, <3>1, <3>2
  <2>7. ASSUME turn.status \notin {"active", "failed", "interrupted"},
               turn.status = "completed" => turn.plan,
               NEW state \in {"ready", "blocked", "confirmed"},
               z.ops = [p.ops EXCEPT ![i] = [[q EXCEPT !.plan = n] EXCEPT !.state = state]],
               IF state = "confirmed"
                 THEN Current(p, i) /\ z.task = [p.task EXCEPT !.accepted = i, !.hold = FALSE]
                 ELSE z.task = p.task
        PROVE  Fine(p, p')
    <3> DEFINE o == [[q EXCEPT !.plan = n] EXCEPT !.state = state]
    <3>1. /\ o \in OpRec /\ o.state = state /\ o.turn = n /\ o.thread = q.thread
          /\ o.req = q.req /\ o.asks = q.asks /\ o.plan = n
      BY <2>1, <2>3 DEF OpRec, OpState, Over
    <3>2. z.ops = [p.ops EXCEPT ![i] = o]
      BY <2>7
    <3> HIDE DEF o
    <3>3. turn.status = "completed" /\ turn.plan
      BY <2>2, <2>7 DEF TurnRec
    <3>4. CASE state # "confirmed"
      BY <2>5, <2>7, <3>1, <3>2, <3>3, <3>4
    <3>5. CASE state = "confirmed"
      <4>1. p.ops[i].asks = "none" /\ p.ops[i].req = p.task.text
        BY <2>7, <3>5 DEF Current
      <4>2. ~Active(p, i)
        BY <3>3 DEF Active, turn, n
      <4>3. /\ p.turns[i][o.plan].status = "completed" /\ p.turns[i][o.plan].plan
            /\ o.plan = Last(p, i) /\ o.plan # 0 /\ o.plan \in {0, o.turn}
            /\ o.turn <= Len(p.turns[i])
        BY <3>1, <3>3, <2>1 DEF turn, n
      <4>4. Rightly(p, o, i)
        BY <4>1, <4>3, <3>1, <1>2, Acceptable
      <4>5. /\ o.state \in Over /\ o.thread = p.ops[i].thread /\ o.asks = "none"
            /\ o.req = p.ops[i].req /\ z.w.why = p.w.why /\ z.worker = p.worker
            /\ z.turns = p.turns /\ DOMAIN z = Fields /\ o \in OpRec
        BY <2>3, <2>4, <3>1, <3>5, <4>1 DEF Over, ObservedAs
      <4>6. /\ z.task = [p.task EXCEPT !.accepted = i, !.hold = FALSE]
            /\ i \in {i, p.task.accepted} /\ i \in 1..Len(p.ops) /\ p' = Unlock(z)
        BY <2>7, <3>5, <1>2, <1>6
      <4>7. Held(p.task, i)
        BY <1>4
      <4> HIDE DEF i
      <4> QED BY <1>3, <3>2, <4>2, <4>3, <4>4, <4>5, <4>6, <4>7, Closes
    <3> QED BY <3>4, <3>5
  <2> QED BY <2>4, <2>6, <2>7 DEF ObservedAs
<1> QED BY <1>5, <1>6 DEF Observe, Op

LEMMA ObserveLostFine ==
  ASSUME Good(p), ObserveLost
  PROVE  Fine(p, p')
<1> DEFINE i == p.w.op
           z == Put(p, i, "blocked")
           o == [p.ops[i] EXCEPT !.state = "blocked"]
<1>1. p.w.pc = "observe"
  BY DEF ObserveLost, At
<1>2. /\ i \in 1..Len(p.ops) /\ DOMAIN p = Fields /\ p.ops \in Seq(OpRec)
      /\ p.ops[i] \in OpRec /\ p.turns[i] \in Seq(TurnRec) /\ p.task \in TaskRec
      /\ p.turns = [p.turns EXCEPT ![i] = p.turns[i]] /\ p.task.accepted \in 0..Len(p.ops)
      /\ Row(p.task, p.ops[i], p.turns[i], i) /\ Holds(p.task, p.ops[i], p.w)
  BY <1>1, Holding
<1>3. Held(p.task, i)
  BY <1>1, <1>2 DEF Holds
<1>4. CASE p' = Unlock(p)
  BY <1>1, <1>4, GivesUp
<1>5. CASE p' = Unlock(z)
  <2>1. /\ DOMAIN z = Fields /\ z.task = p.task /\ z.w = p.w /\ z.worker = p.worker
        /\ z.ops = [p.ops EXCEPT ![i] = o] /\ z.turns = p.turns
    BY <1>2 DEF Fields, Put
  <2> HIDE DEF z
  <2>2. /\ o \in OpRec /\ o.state = "blocked" /\ o.req = p.ops[i].req
        /\ o.thread = p.ops[i].thread /\ o.turn = p.ops[i].turn /\ o.plan = p.ops[i].plan
        /\ o.asks = p.ops[i].asks
    BY <1>2 DEF OpRec, OpState
  <2> HIDE DEF o
  <2>3. Row(p.task, o, p.turns[i], i)
    BY <1>2, <1>3, <2>2, RowLike DEF Over
  <2>4. Rightly(p, o, i)
    BY <2>2 DEF Rightly
  <2>5. /\ z.turns = [p.turns EXCEPT ![i] = p.turns[i]] /\ Row(z.task, o, p.turns[i], i)
        /\ z.task \in TaskRec /\ z.w.why = p.w.why /\ z.task.text = p.task.text
        /\ z.task.back = p.task.back
        /\ z.task.op = p.task.op /\ z.task.accepted \in 0..Len(p.ops)
        /\ z.task.hold = p.task.hold
    BY <1>2, <2>1, <2>3
  <2>6. p.w.pc # "idle" /\ i \in 1..Len(p.ops)
    BY <1>1, <1>2
  <2> HIDE DEF i
  <2> QED BY <1>5, <2>1, <2>4, <2>5, <2>6, Finishes
<1> QED BY <1>4, <1>5 DEF ObserveLost

\* Codex or its user changes a conversation, whoever holds the lock.
LEMMA Elsewhere ==
  ASSUME NEW x, NEW y, Good(x), NEW i \in 1..Len(x.ops), NEW o, NEW ts,
         DOMAIN y = Fields, y.task = x.task, y.w = x.w, y.worker = x.worker,
         y.ops = [x.ops EXCEPT ![i] = o], y.turns = [x.turns EXCEPT ![i] = ts],
         Row(x.task, o, ts, i), o.state = x.ops[i].state, o.thread = x.ops[i].thread,
         o.req = x.ops[i].req
  PROVE  Fine(x, y)
<1>1. /\ x.ops \in Seq(OpRec) /\ x.task \in TaskRec /\ x.task.accepted \in 0..Len(x.ops)
      /\ x.worker \in 0..Len(x.ops) /\ (x.w.pc # "idle" => x.w.op \in 1..Len(x.ops))
      /\ Holds(x.task, x.ops[x.w.op], x.w) /\ Waits(x.task, x.ops, x.w, x.worker)
  BY DEF Good
<1>2. y.ops[i] = o /\ \A j \in 1..Len(x.ops) : j # i => y.ops[j] = x.ops[j]
  BY <1>1
<1>3. Holds(x.task, y.ops[x.w.op], x.w)
  <2>1. CASE x.w.pc = "idle"
    BY <1>1, <2>1 DEF Holds
  <2>2. CASE x.w.pc # "idle"
    BY <1>1, <1>2, <2>2 DEF Holds, Fresh
  <2> QED BY <2>1, <2>2
<1>4. Waits(x.task, y.ops, x.w, x.worker)
  <2>1. x.worker # 0 => x.worker \in 1..Len(x.ops)
    BY <1>1
  <2> QED BY <1>1, <1>2, <2>1 DEF Waits
<1>5. Rightly(x, o, i)
  BY DEF Rightly
<1>6. /\ y.task \in TaskRec /\ y.task.text = x.task.text /\ y.task.back = x.task.back
      /\ y.task.op = x.task.op
      /\ y.task.accepted \in 0..Len(x.ops) /\ y.task.hold = x.task.hold
      /\ (y.w.pc # "idle" => y.w.op \in 1..Len(x.ops)) /\ y.worker \in 0..Len(x.ops)
      /\ Row(y.task, o, ts, i) /\ Holds(y.task, y.ops[y.w.op], y.w)
      /\ Waits(y.task, y.ops, y.w, y.worker)
  BY <1>1, <1>3, <1>4
<1> QED BY <1>5, <1>6, Change

\* What is known of a conversation that nobody needs to hold.
LEMMA Known ==
  ASSUME NEW x, Good(x), NEW i \in 1..Len(x.ops)
  PROVE  /\ DOMAIN x = Fields /\ x.ops \in Seq(OpRec) /\ x.ops[i] \in OpRec
         /\ x.turns \in Seq(Seq(TurnRec)) /\ Len(x.turns) = Len(x.ops)
         /\ x.turns[i] \in Seq(TurnRec) /\ x.task \in TaskRec
         /\ Row(x.task, x.ops[i], x.turns[i], i)
         /\ x.ops = [x.ops EXCEPT ![i] = x.ops[i]]
         /\ x.turns = [x.turns EXCEPT ![i] = x.turns[i]]
<1>1. /\ DOMAIN x = Fields /\ x.ops \in Seq(OpRec) /\ x.turns \in Seq(Seq(TurnRec))
      /\ Len(x.turns) = Len(x.ops) /\ x.task \in TaskRec /\ Row(x.task, x.ops[i], x.turns[i], i)
  BY DEF Good
<1>2. x.turns = [x.turns EXCEPT ![i] = x.turns[i]]
  <2> DEFINE T == Seq(TurnRec)
  <2>1. x.turns \in Seq(T) BY <1>1
  <2> HIDE DEF T
  <2> QED BY <2>1, <1>1, SeqSame
<1>3. x.ops = [x.ops EXCEPT ![i] = x.ops[i]]
  BY <1>1, SeqSame
<1>4. x.ops[i] \in OpRec /\ x.turns[i] \in Seq(TurnRec)
  BY <1>1 DEF Row
<1> QED BY <1>1, <1>2, <1>3, <1>4

\* Conversation i is altered from x to y by what leaves its state and its requirements alone.
Alters(x, y, i) ==
  \E o \in OpRec : \E ts :
    /\ DOMAIN y = Fields /\ y.task = x.task /\ y.w = x.w /\ y.worker = x.worker
    /\ y.ops = [x.ops EXCEPT ![i] = o] /\ y.turns = [x.turns EXCEPT ![i] = ts]
    /\ Row(x.task, o, ts, i)
    /\ o.state = x.ops[i].state /\ o.thread = x.ops[i].thread /\ o.req = x.ops[i].req

LEMMA AltersFine ==
  ASSUME NEW x, NEW y, Good(x), NEW i \in 1..Len(x.ops), Alters(x, y, i)
  PROVE  Fine(x, y)
BY Elsewhere DEF Alters

\* The last turn of a conversation, which runs, as it ends.
LEMMA EndedAlters ==
  ASSUME Good(p), NEW i \in 1..Len(p.ops), Active(p, i), NEW z, DOMAIN z = Fields,
         NEW plan \in BOOLEAN, NEW status \in {"completed", "failed", "interrupted"},
         z.task = p.task, z.ops = p.ops, z.w = p.w, z.worker = p.worker,
         z.turns = [p.turns EXCEPT ![i] = [p.turns[i] EXCEPT
                      ![Last(p, i)] = [p.turns[i][Last(p, i)] EXCEPT !.plan = plan]]],
         NEW y, y = Ended(z, i, status)
  PROVE  Alters(p, y, i)
<1> DEFINE n == Len(p.turns[i])
           old == p.turns[i][n]
           planned == [old EXCEPT !.plan = plan]
           ps == [p.turns[i] EXCEPT ![n] = planned]
           turn == [planned EXCEPT !.status = status]
           ts == [p.turns[i] EXCEPT ![n] = turn]
           o == [p.ops[i] EXCEPT !.asks = IF @ = "question" THEN "none" ELSE @]
<1>1. /\ DOMAIN p = Fields /\ p.ops \in Seq(OpRec) /\ p.ops[i] \in OpRec
      /\ p.turns \in Seq(Seq(TurnRec)) /\ Len(p.turns) = Len(p.ops)
      /\ p.turns[i] \in Seq(TurnRec) /\ p.task \in TaskRec
      /\ Row(p.task, p.ops[i], p.turns[i], i)
  BY Known
<1>2. n = Last(p, i) /\ n \in 1..n /\ old.status = "active" /\ n > 0
  BY <1>1 DEF Active, Last
<1>3. old \in TurnRec
  BY <1>1, <1>2
<1>4. planned \in TurnRec /\ turn \in TurnRec /\ turn.status = status /\ turn.told = old.told
  BY <1>3 DEF TurnRec
<1>5. z.turns = [p.turns EXCEPT ![i] = ps]
  BY <1>2
<1> HIDE DEF planned, turn, old
<1>6. ps \in Seq(TurnRec) /\ Len(ps) = n /\ ps[n] = planned
  BY <1>1, <1>2, <1>4, TurnsSet
<1>7. z.turns[i] = ps /\ Last(z, i) = n
  <2> DEFINE T == Seq(TurnRec)
  <2>1. p.turns \in Seq(T) /\ i \in 1..Len(p.turns) BY <1>1
  <2> HIDE DEF T, ps
  <2> QED BY <2>1, <1>5, <1>6 DEF Last
<1>8. [ps EXCEPT ![n] = turn] = ts
  BY <1>1, <1>2
<1>9. /\ DOMAIN y = Fields /\ y.task = p.task /\ y.w = p.w /\ y.worker = p.worker
      /\ y.ops = [p.ops EXCEPT ![i] = o] /\ y.turns = [p.turns EXCEPT ![i] = ts]
  <2>1. /\ DOMAIN y = Fields /\ y.task = z.task /\ y.w = z.w /\ y.worker = z.worker
        /\ y.ops = [z.ops EXCEPT ![i] =
                      [z.ops[i] EXCEPT !.asks = IF @ = "question" THEN "none" ELSE @]]
        /\ y.turns = [z.turns EXCEPT ![i] = [z.turns[i] EXCEPT
                        ![Last(z, i)] = [z.turns[i][Last(z, i)] EXCEPT !.status = status]]]
    BY DEF Ended, Fields
  <2>2. y.turns = [z.turns EXCEPT ![i] = ts]
    <3>1. [z.turns[i][Last(z, i)] EXCEPT !.status = status] = turn
      BY <1>6, <1>7 DEF turn
    <3>2. [z.turns[i] EXCEPT ![Last(z, i)] = turn] = ts
      BY <1>7, <1>8
    <3> QED BY <2>1, <3>1, <3>2
  <2> HIDE DEF ts, ps
  <2>3. y.turns = [p.turns EXCEPT ![i] = ts]
    BY <2>2, <1>5
  <2> QED BY <2>1, <2>3
<1>10. /\ o \in OpRec /\ o.state = p.ops[i].state /\ o.thread = p.ops[i].thread
       /\ o.turn = p.ops[i].turn /\ o.plan = p.ops[i].plan /\ o.req = p.ops[i].req
       /\ o.asks \in {"none", p.ops[i].asks}
  BY <1>1 DEF OpRec
<1> HIDE DEF o
<1>11. Row(p.task, o, ts, i)
  <2>1. Timely(p.task, p.ops[i], turn.told) /\ turn.status # "active"
    BY <1>1, <1>2, <1>4 DEF Row, LastTurn, old
  <2>2. o.asks = "none" \/ o.thread
    BY <1>1, <1>10 DEF Row
  <2>3. Len(p.turns[i]) > 0 /\ p.turns[i][Len(p.turns[i])].status = "active"
    BY <1>2 DEF old
  <2>4. Row(p.task, p.ops[i], p.turns[i], i)
    BY <1>1
  <2>5. ts = [p.turns[i] EXCEPT ![Len(p.turns[i])] = turn]
    OBVIOUS
  <2> HIDE DEF ts
  <2>6. turn \in TurnRec /\ (turn.status = "active" /\ turn.by = "board" => Held(p.task, i))
    BY <1>4, <2>1
  <2>7. /\ o \in OpRec /\ o.state = p.ops[i].state /\ o.thread = p.ops[i].thread
        /\ o.turn = p.ops[i].turn /\ o.plan = p.ops[i].plan /\ o.req = p.ops[i].req
    BY <1>10
  <2>8. Timely(p.task, p.ops[i], turn.told)
    BY <2>1
  <2> QED BY <2>2, <2>3, <2>4, <2>5, <2>6, <2>7, <2>8, RowTurn
<1> HIDE DEF ts
<1> QED BY <1>9, <1>10, <1>11 DEF Alters

LEMMA EndedHere ==
  ASSUME Good(p), NEW i \in 1..Len(p.ops), Active(p, i),
         NEW status \in {"completed", "failed", "interrupted"}
  PROVE  Alters(p, Ended(p, i, status), i)
<1> DEFINE n == Last(p, i)
           plan == p.turns[i][n].plan
<1>1. n \in 1..Len(p.turns[i]) /\ p.turns[i] \in Seq(TurnRec) /\ DOMAIN p = Fields
  <2>1. p.turns[i] \in Seq(TurnRec) /\ DOMAIN p = Fields
    BY Known
  <2>2. Last(p, i) > 0
    BY DEF Active
  <2> QED BY <2>1, <2>2 DEF Last
<1>2. p.turns[i][n] \in TurnRec
  BY <1>1
<1>3. plan \in BOOLEAN /\ [p.turns[i][n] EXCEPT !.plan = plan] = p.turns[i][n]
  BY <1>2 DEF TurnRec
<1>4. p.turns[i] = [p.turns[i] EXCEPT ![n] = [p.turns[i][n] EXCEPT !.plan = plan]]
  BY <1>1, <1>3
<1>5. p.turns = [p.turns EXCEPT ![i] = [p.turns[i] EXCEPT
                      ![n] = [p.turns[i][n] EXCEPT !.plan = plan]]]
  BY <1>4, Known
<1> HIDE DEF plan
<1> QED BY <1>1, <1>3, <1>5, EndedAlters

LEMMA TurnEndsFine ==
  ASSUME Good(p), TurnEnds
  PROVE  Fine(p, p')
<1>1. PICK i \in 1..Len(p.ops) :
        /\ Active(p, i)
        /\ \/ \E plan \in BOOLEAN :
                p' = Ended([p EXCEPT !.turns[i][Last(p, i)].plan = plan], i, "completed")
           \/ p' = Ended(p, i, "failed")
           \/ p' = Ended(p, i, "interrupted")
  BY DEF TurnEnds
<1>2. DOMAIN p = Fields
  BY DEF Good
<1>3. ASSUME NEW plan \in BOOLEAN,
             p' = Ended([p EXCEPT !.turns[i][Last(p, i)].plan = plan], i, "completed")
      PROVE  Fine(p, p')
  <2> DEFINE z == [p EXCEPT !.turns[i][Last(p, i)].plan = plan]
  <2>1. /\ DOMAIN z = Fields /\ z.task = p.task /\ z.ops = p.ops /\ z.w = p.w
        /\ z.worker = p.worker
        /\ z.turns = [p.turns EXCEPT ![i] = [p.turns[i] EXCEPT
                        ![Last(p, i)] = [p.turns[i][Last(p, i)] EXCEPT !.plan = plan]]]
    BY <1>2 DEF Fields
  <2>2. p' = Ended(z, i, "completed")
    BY <1>3
  <2> HIDE DEF z
  <2>3. Alters(p, p', i)
    BY <1>1, <2>1, <2>2, EndedAlters
  <2> QED BY <2>3, AltersFine
<1>4. ASSUME NEW status \in {"failed", "interrupted"}, p' = Ended(p, i, status)
      PROVE  Fine(p, p')
  <2>1. Alters(p, p', i)
    BY <1>1, <1>4, EndedHere
  <2> QED BY <2>1, AltersFine
<1> QED BY <1>1, <1>3, <1>4

LEMMA AsksFine ==
  ASSUME Good(p), Asks
  PROVE  Fine(p, p')
<1>1. PICK i \in 1..Len(p.ops), kind \in {"question", "async"} :
        Active(p, i) /\ p' = [p EXCEPT !.ops[i].asks = kind]
  BY DEF Asks
<1> DEFINE o == [p.ops[i] EXCEPT !.asks = kind]
<1>2. /\ DOMAIN p = Fields /\ p.ops \in Seq(OpRec) /\ p.ops[i] \in OpRec
      /\ p.turns[i] \in Seq(TurnRec) /\ p.turns = [p.turns EXCEPT ![i] = p.turns[i]]
      /\ Row(p.task, p.ops[i], p.turns[i], i)
  BY Known
<1>3. /\ DOMAIN p' = Fields /\ p'.task = p.task /\ p'.w = p.w /\ p'.worker = p.worker
      /\ p'.ops = [p.ops EXCEPT ![i] = o] /\ p'.turns = p.turns
  BY <1>1, <1>2 DEF Fields
<1>4. /\ o \in OpRec /\ o.state = p.ops[i].state /\ o.thread = p.ops[i].thread
      /\ o.turn = p.ops[i].turn /\ o.plan = p.ops[i].plan /\ o.req = p.ops[i].req
  BY <1>2 DEF OpRec
<1> HIDE DEF o
<1>5. p.ops[i].thread
  <2>1. Len(p.turns[i]) # 0
    BY <1>1, <1>2 DEF Active, Last
  <2> QED BY <2>1, <1>2 DEF Row
<1>6. Row(p.task, o, p.turns[i], i)
  BY <1>2, <1>4, <1>5 DEF Row, LastTurn, Timely, Fresh
<1>7. p'.turns = [p.turns EXCEPT ![i] = p.turns[i]]
  BY <1>2, <1>3
<1> QED BY <1>3, <1>4, <1>6, <1>7, Elsewhere

LEMMA NativeFine ==
  ASSUME Good(p), Native
  PROVE  Fine(p, p')
<1>1. PICK i \in 1..Len(p.ops) :
        /\ p.ops[i].thread
        /\ p' = [p EXCEPT !.turns[i] = Append(@, NewTurn("native", Told(p, i, 0)))]
  BY DEF Native, Op
<1> DEFINE told == Told(p, i, 0)
           turn == NewTurn("native", told)
           ts == Append(p.turns[i], turn)
<1>2. /\ DOMAIN p = Fields /\ p.ops[i] \in OpRec /\ p.turns[i] \in Seq(TurnRec)
      /\ p.ops = [p.ops EXCEPT ![i] = p.ops[i]] /\ Row(p.task, p.ops[i], p.turns[i], i)
  BY Known
<1>3. told \in ToldRec /\ Timely(p.task, p.ops[i], told)
  BY ToldIs
<1>4. /\ DOMAIN p' = Fields /\ p'.task = p.task /\ p'.w = p.w /\ p'.worker = p.worker
      /\ p'.ops = p.ops /\ p'.turns = [p.turns EXCEPT ![i] = ts]
  <2> HIDE DEF turn
  <2>1. p' = [p EXCEPT !.turns[i] = Append(@, turn)]
    BY <1>1 DEF turn
  <2> QED BY <2>1, <1>2 DEF Fields
<1> HIDE DEF told
<1>5. turn \in TurnRec /\ turn.told = told /\ turn.by # "board"
  BY <1>3 DEF TurnRec, NewTurn
<1> HIDE DEF turn
<1>6. /\ ts \in Seq(TurnRec) /\ Len(ts) = Len(p.turns[i]) + 1 /\ ts[Len(p.turns[i]) + 1] = turn
      /\ \A j \in 1..Len(p.turns[i]) : ts[j] = p.turns[i][j]
  BY <1>2, <1>5, SeqAppend
<1> HIDE DEF ts
<1>7. Row(p.task, p.ops[i], ts, i)
  <2>1. /\ p.ops[i].thread /\ p.ops[i].state # "pending"
        /\ (p.ops[i].state \notin Over <=> Held(p.task, i))
    BY <1>1, <1>2 DEF Row
  <2> QED BY <2>1, <1>2, <1>3, <1>5, <1>6, RowAppend
<1>8. p'.ops = [p.ops EXCEPT ![i] = p.ops[i]]
  BY <1>2, <1>4
<1> QED BY <1>4, <1>7, <1>8, Elsewhere

\* Codex gets a message that the board has given up.
LEMMA BelatedFine ==
  ASSUME Good(p), Belated
  PROVE  Fine(p, p')
<1>1. PICK i \in 1..Len(p.ops) : \E e \in p.ops[i].owed :
        LET told == [Told(p, i, e.req) EXCEPT !.late = @ \/ e.req # 0]
            by == IF p.ops[i].state \in Over THEN "astray" ELSE "board"
            x == [p EXCEPT !.ops[i].owed = @ \ {e}]
        IN
        /\ p.ops[i].thread
        /\ \/ p' = [x EXCEPT !.turns[i] = Append(@, NewTurn(by, told))]
           \/ /\ e.turn = Last(p, i) /\ Active(p, i)
              /\ p' = [x EXCEPT !.turns[i][e.turn].told = told]
  BY DEF Belated, Op
<1>2. PICK e \in p.ops[i].owed :
        LET told == [Told(p, i, e.req) EXCEPT !.late = @ \/ e.req # 0]
            by == IF p.ops[i].state \in Over THEN "astray" ELSE "board"
            x == [p EXCEPT !.ops[i].owed = @ \ {e}]
        IN
        /\ p.ops[i].thread
        /\ \/ p' = [x EXCEPT !.turns[i] = Append(@, NewTurn(by, told))]
           \/ /\ e.turn = Last(p, i) /\ Active(p, i)
              /\ p' = [x EXCEPT !.turns[i][e.turn].told = told]
  BY <1>1
<1> DEFINE by == IF p.ops[i].state \in Over THEN "astray" ELSE "board"
           req == e.req
           told == [Told(p, i, req) EXCEPT !.late = @ \/ req # 0]
           x == [p EXCEPT !.ops[i].owed = @ \ {e}]
<1>0. \/ p' = [x EXCEPT !.turns[i] = Append(@, NewTurn(by, told))]
      \/ Active(p, i) /\ p' = [x EXCEPT !.turns[i][Last(p, i)].told = told]
  BY <1>2
<1>3. /\ DOMAIN p = Fields /\ p.ops \in Seq(OpRec) /\ p.ops[i] \in OpRec
      /\ p.turns[i] \in Seq(TurnRec) /\ p.turns \in Seq(Seq(TurnRec))
      /\ Len(p.turns) = Len(p.ops) /\ Row(p.task, p.ops[i], p.turns[i], i)
  BY Known
<1>4. req \in Nat
  <2>1. p.ops[i].owed \subseteq [turn : Nat, req : Nat]
    BY <1>3 DEF OpRec
  <2> QED BY <2>1, <1>2
<1>5. told \in ToldRec /\ Timely(p.task, p.ops[i], told)
  <2> DEFINE old == Told(p, i, req)
  <2>1. old \in ToldRec /\ (req = 0 => Timely(p.task, p.ops[i], old))
    BY <1>4, ToldIs
  <2>2. told = [old EXCEPT !.late = @ \/ req # 0]
    OBVIOUS
  <2> HIDE DEF old, told
  <2>3. told \in ToldRec /\ told.req = old.req /\ (told.late <=> old.late \/ req # 0)
    BY <2>1, <2>2 DEF ToldRec
  <2> QED BY <2>1, <2>3 DEF Timely, Fresh
<1> DEFINE o == [p.ops[i] EXCEPT !.owed = @ \ {e}]
<1>6. /\ o \in OpRec /\ o.state = p.ops[i].state /\ o.thread = p.ops[i].thread
      /\ o.turn = p.ops[i].turn /\ o.plan = p.ops[i].plan /\ o.req = p.ops[i].req
      /\ o.asks = p.ops[i].asks
  BY <1>3 DEF OpRec
<1>7. /\ DOMAIN x = Fields /\ x.task = p.task /\ x.w = p.w /\ x.worker = p.worker
      /\ x.ops = [p.ops EXCEPT ![i] = o] /\ x.turns = p.turns
  BY <1>3 DEF Fields
<1> HIDE DEF o, x, told, req
<1>8. /\ p.ops[i].thread /\ p.ops[i].state # "pending"
      /\ (p.ops[i].state \notin Over <=> Held(p.task, i))
      /\ (p.ops[i].asks = "none" \/ p.ops[i].thread)
  BY <1>1, <1>3 DEF Row
<1>9. CASE p' = [x EXCEPT !.turns[i] = Append(@, NewTurn(by, told))]
  <2> DEFINE turn == NewTurn(by, told)
             ts == Append(p.turns[i], turn)
  <2>1. /\ DOMAIN p' = Fields /\ p'.task = p.task /\ p'.w = p.w /\ p'.worker = p.worker
        /\ p'.ops = [p.ops EXCEPT ![i] = o] /\ p'.turns = [p.turns EXCEPT ![i] = ts]
    <3> HIDE DEF turn
    <3>1. p' = [x EXCEPT !.turns[i] = Append(@, turn)]
      BY <1>9 DEF turn
    <3> QED BY <3>1, <1>3, <1>7 DEF Fields
  <2>2. turn \in TurnRec /\ turn.told = told /\ (turn.by = "board" => Held(p.task, i))
    BY <1>5, <1>8 DEF TurnRec, NewTurn
  <2> HIDE DEF turn, by
  <2>3. /\ ts \in Seq(TurnRec) /\ Len(ts) = Len(p.turns[i]) + 1
        /\ ts[Len(p.turns[i]) + 1] = turn /\ \A j \in 1..Len(p.turns[i]) : ts[j] = p.turns[i][j]
    BY <1>3, <2>2, SeqAppend
  <2> HIDE DEF ts
  <2>4. Row(p.task, o, ts, i)
    BY <1>3, <1>5, <1>6, <1>8, <2>2, <2>3, RowAppend
  <2> QED BY <2>1, <2>4, <1>6, Elsewhere
<1>10. CASE Active(p, i) /\ p' = [x EXCEPT !.turns[i][Last(p, i)].told = told]
  <2> DEFINE n == Len(p.turns[i])
             old == p.turns[i][n]
             turn == [old EXCEPT !.told = told]
             ts == [p.turns[i] EXCEPT ![n] = turn]
  <2>1. n = Last(p, i) /\ n \in 1..n /\ old.status = "active" /\ n > 0
    BY <1>3, <1>10 DEF Active, Last
  <2>2. old \in TurnRec
    BY <1>3, <2>1
  <2>3. /\ DOMAIN p' = Fields /\ p'.task = p.task /\ p'.w = p.w /\ p'.worker = p.worker
        /\ p'.ops = [p.ops EXCEPT ![i] = o] /\ p'.turns = [p.turns EXCEPT ![i] = ts]
    <3>1. p' = [x EXCEPT !.turns[i][n].told = told]
      BY <1>10, <2>1
    <3> HIDE DEF n
    <3> QED BY <3>1, <1>3, <1>7 DEF Fields
  <2>4. /\ turn \in TurnRec /\ turn.told = told /\ turn.status = old.status
        /\ turn.by = old.by
    <3> HIDE DEF old
    <3> QED BY <1>5, <2>2 DEF TurnRec
  <2>5. turn.status = "active" /\ turn.by = "board" => Held(p.task, i)
    BY <1>3, <2>1, <2>4 DEF Row, LastTurn
  <2>6. n > 0 /\ p.turns[i][n].status = "active" /\ (o.asks = "none" \/ o.thread)
    BY <1>6, <1>8, <2>1
  <2> HIDE DEF turn, old
  <2>7. ts = [p.turns[i] EXCEPT ![Len(p.turns[i])] = turn]
    OBVIOUS
  <2> HIDE DEF ts
  <2>8. Row(p.task, o, ts, i)
    <3>1. Row(p.task, p.ops[i], p.turns[i], i)
      BY <1>3
    <3>2. Len(p.turns[i]) > 0 /\ p.turns[i][Len(p.turns[i])].status = "active"
      BY <2>6
    <3>3. turn \in TurnRec /\ Timely(p.task, p.ops[i], turn.told)
      BY <1>5, <2>4
    <3>4. o.asks = "none" \/ o.thread
      BY <2>6
    <3> HIDE DEF n
    <3> QED BY <3>1, <3>2, <3>3, <3>4, <1>6, <2>5, <2>7, RowTurn
  <2> QED BY <2>3, <2>8, <1>6, Elsewhere
<1> QED BY <1>0, <1>9, <1>10

\* Nobody hears the answer of the request that is under way.
LEMMA UnansweredAlters ==
  ASSUME Good(p), p.w.pc # "idle", NEW i, i = p.w.op, NEW x \in Unanswered
  PROVE  Alters(p, x, i)
<1>1. /\ i \in 1..Len(p.ops) /\ DOMAIN p = Fields
      /\ p.ops \in Seq(OpRec) /\ p.ops[i] \in OpRec /\ p.turns[i] \in Seq(TurnRec)
      /\ p.turns = [p.turns EXCEPT ![i] = p.turns[i]]
      /\ p.ops = [p.ops EXCEPT ![i] = p.ops[i]]
      /\ Row(p.task, p.ops[i], p.turns[i], i) /\ Holds(p.task, p.ops[i], p.w)
      /\ p.w \in LockRec
  BY Holding
<1>2. p.w.pc \in {"turn", "steer"} => p.ops[i].thread /\ p.ops[i].state \notin Over \cup {"pending"}
  BY <1>1 DEF Holds, Row
<1>3. CASE x = p
  BY <1>1, <1>3 DEF Alters
<1>4. CASE p.w.pc \in {"turn", "steer"} /\ x = Owing(p, i)
  <2> DEFINE e == [turn |-> IF p.w.pc = "steer" THEN Last(p, i) ELSE 0, req |-> p.w.req]
             o == [p.ops[i] EXCEPT !.owed = @ \cup {e}]
  <2>1. e \in [turn : Nat, req : Nat]
    BY <1>1 DEF LockRec, Last
  <2>2. x = [p EXCEPT !.ops[i].owed = @ \cup {e}]
    BY <1>4 DEF Owing
  <2> HIDE DEF e
  <2>3. /\ o \in OpRec /\ o.state = p.ops[i].state /\ o.thread = p.ops[i].thread
        /\ o.turn = p.ops[i].turn /\ o.plan = p.ops[i].plan /\ o.req = p.ops[i].req
        /\ o.asks = p.ops[i].asks
    BY <1>1, <2>1 DEF OpRec
  <2>4. /\ DOMAIN x = Fields /\ x.task = p.task /\ x.w = p.w /\ x.worker = p.worker
        /\ x.ops = [p.ops EXCEPT ![i] = o] /\ x.turns = [p.turns EXCEPT ![i] = p.turns[i]]
    BY <1>1, <2>2 DEF Fields
  <2> HIDE DEF o
  <2>5. Row(p.task, o, p.turns[i], i)
    <3>1. o.state \notin Over <=> Held(p.task, i)
      BY <1>1, <2>3 DEF Row
    <3>2. /\ o.asks \in {"none", p.ops[i].asks}
          /\ (o.state # "pending" \/ o.state = p.ops[i].state)
      BY <2>3
    <3>3. Row(p.task, p.ops[i], p.turns[i], i)
      BY <1>1
    <3> QED BY <3>1, <3>2, <3>3, <2>3, RowLike
  <2> QED BY <2>3, <2>4, <2>5 DEF Alters
<1>5. CASE p.w.pc = "turn" /\ x = Begun(p, i)
  <2>1. PICK ts : BegunWith(x, i, ts)
    BY <1>5, BegunIs
  <2>2. Row(p.task, p.ops[i], ts, i)
    BY <1>1, <1>2, <1>5, <2>1 DEF BegunWith
  <2> QED BY <1>1, <2>1, <2>2 DEF Alters, BegunWith
<1>6. CASE p.w.pc = "steer" /\ Active(p, i) /\ x = Steering(p, i)
  <2>1. PICK ts :
          /\ DOMAIN x = Fields /\ x.task = p.task /\ x.w = p.w /\ x.worker = p.worker
          /\ x.ops = p.ops /\ x.turns = [p.turns EXCEPT ![i] = ts]
          /\ Row(p.task, p.ops[i], ts, i)
    BY <1>6, SteeringIs
  <2> QED BY <1>1, <2>1 DEF Alters
<1>7. CASE Active(p, i) /\ x = Ended(p, i, "interrupted")
  BY <1>1, <1>7, EndedHere
<1> QED BY <1>3, <1>4, <1>5, <1>6, <1>7 DEF Unanswered, At

LEMMA FailedFine ==
  ASSUME Good(p), Failed
  PROVE  Fine(p, p')
<1>1. PICK x \in Unanswered : p.w.pc # "idle" /\ p' = Raised(x)
  BY DEF Failed
<1>2. Alters(p, x, p.w.op)
  BY <1>1, UnansweredAlters
<1> QED BY <1>1, <1>2, Raises DEF Alters

LEMMA TurnNotStartedFine ==
  ASSUME Good(p), TurnNotStarted
  PROVE  Fine(p, p')
<1> DEFINE i == p.w.op
<1>1. PICK x \in Unanswered, state \in {"blocked", "uncertain"} :
        p.w.pc = "turn" /\ p' = Raised(Put(x, i, state))
  BY DEF TurnNotStarted, At
<1>2. PICK o, ts :
        /\ o \in OpRec /\ DOMAIN x = Fields /\ x.task = p.task /\ x.w = p.w /\ x.worker = p.worker
        /\ x.ops = [p.ops EXCEPT ![i] = o] /\ x.turns = [p.turns EXCEPT ![i] = ts]
        /\ Row(p.task, o, ts, i)
  <2>1. Alters(p, x, i)
    BY <1>1, UnansweredAlters
  <2> QED BY <2>1 DEF Alters
<1>3. /\ i \in 1..Len(p.ops) /\ p.ops \in Seq(OpRec) /\ Holds(p.task, p.ops[i], p.w)
  BY <1>1, Holding
<1>4. Held(p.task, i)
  BY <1>1, <1>3 DEF Holds
<1> DEFINE z == Put(x, i, state)
           q == [o EXCEPT !.state = state]
<1>5. /\ DOMAIN z = Fields /\ z.task = p.task /\ z.w = p.w /\ z.worker = p.worker
      /\ z.ops = [p.ops EXCEPT ![i] = q] /\ z.turns = [p.turns EXCEPT ![i] = ts]
  BY <1>2, <1>3 DEF Fields, Put
<1> HIDE DEF z
<1>6. /\ q \in OpRec /\ q.state = state /\ q.req = o.req /\ q.thread = o.thread
      /\ q.turn = o.turn /\ q.plan = o.plan /\ q.asks = o.asks
  BY <1>2 DEF OpRec, OpState
<1> HIDE DEF q
<1>7. q.state \notin Over /\ q.state # "pending"
  BY <1>6 DEF Over
<1>8. Row(p.task, q, ts, i)
  BY <1>2, <1>4, <1>6, <1>7, RowLike
<1>9. p' = Raised(z)
  BY <1>1 DEF z
<1> QED BY <1>1, <1>5, <1>7, <1>8, <1>9, Raises

\* The task changes, and who compares its version later notices.
LEMMA Touches ==
  ASSUME NEW x, NEW y, NEW z, Good(x), DOMAIN z = Fields, z.task \in TaskRec,
         ~z.task.back => ~x.task.back /\ x.task.text <= z.task.text,
         z.task.hold = x.task.hold, z.task.op = x.task.op,
         z.task.accepted = x.task.accepted, z.ops = x.ops, z.turns = x.turns,
         z.worker = x.worker, z.w = x.w, y = Touched(z)
  PROVE  Fine(x, y)
<1>1. /\ x.task \in TaskRec /\ x.ops \in Seq(OpRec) /\ x.w \in LockRec
      /\ Holds(x.task, x.ops[x.w.op], x.w) /\ Waits(x.task, x.ops, x.w, x.worker)
  BY DEF Good, Holds
<1>2. /\ DOMAIN y = Fields /\ y.task = z.task /\ y.ops = x.ops /\ y.turns = x.turns
      /\ y.worker = x.worker /\ y.w = [x.w EXCEPT !.fresh = FALSE]
  BY DEF Touched, Fields
<1>3. /\ y.w \in LockRec /\ y.w.pc = x.w.pc /\ y.w.why = x.w.why /\ y.w.op = x.w.op
      /\ y.w.req = x.w.req
  BY <1>1, <1>2 DEF LockRec
<1>4. x.task.text \in Nat /\ z.task.text \in Nat /\ x.w.req \in Nat
  BY <1>1 DEF TaskRec, LockRec
<1>5. \A i : Held(x.task, i) <=> Held(y.task, i)
  BY <1>2 DEF Held
<1>6. \A i \in 1..Len(x.ops) : Row(y.task, x.ops[i], x.turns[i], i)
  <2> TAKE i \in 1..Len(x.ops)
  <2>1. Row(x.task, x.ops[i], x.turns[i], i)
    BY DEF Good
  <2>2. /\ y.task \in TaskRec /\ (~y.task.back => ~x.task.back /\ x.task.text <= y.task.text)
        /\ Held(x.task, i) <=> Held(y.task, i)
    BY <1>2, <1>5
  <2> QED BY <2>1, <2>2, <1>1, RowStays
<1>7. Holds(y.task, y.ops[y.w.op], y.w)
  BY <1>1, <1>2, <1>3, <1>4, <1>5 DEF Holds, Fresh
<1>8. Waits(y.task, y.ops, y.w, y.worker)
  BY <1>1, <1>2, <1>3, <1>5 DEF Waits
<1>9. Good(y)
  BY <1>2, <1>3, <1>6, <1>7, <1>8 DEF Good
<1>10. \A i \in 1..Len(x.ops) : Rightly(x, y.ops[i], i)
  BY <1>2 DEF Rightly
<1> QED BY <1>9, <1>10 DEF Fine

LEMMA EditFine ==
  ASSUME Good(p), Edit \/ SetBack \/ Take
  PROVE  Fine(p, p')
<1>1. DOMAIN p = Fields /\ p.task \in TaskRec
  BY DEF Good
<1>2. CASE Edit
  <2> DEFINE z == [p EXCEPT !.task.text = @ + 1]
  <2>1. p.task.text \in Nat
    BY <1>1 DEF TaskRec
  <2>2. /\ DOMAIN z = Fields /\ z.task = [p.task EXCEPT !.text = p.task.text + 1]
        /\ z.ops = p.ops /\ z.turns = p.turns /\ z.worker = p.worker /\ z.w = p.w
    BY <1>1 DEF Fields
  <2>3. p' = Touched(z)
    BY <1>2 DEF Edit
  <2> HIDE DEF z
  <2>4. /\ z.task \in TaskRec /\ z.task.back = p.task.back
        /\ p.task.text <= z.task.text /\ z.task.hold = p.task.hold
        /\ z.task.op = p.task.op /\ z.task.accepted = p.task.accepted
    BY <1>1, <2>1, <2>2 DEF TaskRec
  <2> QED BY <2>2, <2>3, <2>4, Touches
<1>3. CASE Take
  <2> DEFINE z == [p EXCEPT !.task.taken = TRUE]
  <2>1. p.task.text \in Nat
    BY <1>1 DEF TaskRec
  <2>2. /\ DOMAIN z = Fields /\ z.task = [p.task EXCEPT !.taken = TRUE]
        /\ z.ops = p.ops /\ z.turns = p.turns /\ z.worker = p.worker /\ z.w = p.w
    BY <1>1 DEF Fields
  <2>3. p' = Touched(z)
    BY <1>3 DEF Take
  <2> HIDE DEF z
  <2>4. /\ z.task \in TaskRec /\ z.task.back = p.task.back
        /\ p.task.text <= z.task.text /\ z.task.hold = p.task.hold
        /\ z.task.op = p.task.op /\ z.task.accepted = p.task.accepted
    <3>1. z.task \in TaskRec
      BY <1>1, <2>2, Zenon DEF TaskRec
    <3>2. /\ z.task.text = p.task.text /\ z.task.back = p.task.back /\ z.task.hold = p.task.hold
          /\ z.task.op = p.task.op /\ z.task.accepted = p.task.accepted
      BY <1>1, <2>2 DEF TaskRec
    <3> QED BY <2>1, <3>1, <3>2
  <2> QED BY <2>2, <2>3, <2>4, Touches
<1>4. CASE SetBack
  <2>1. PICK text \in 1..(p.task.text - 1) :
          p' = Touched([p EXCEPT !.task.text = text, !.task.back = TRUE])
    BY <1>4 DEF SetBack
  <2> DEFINE z == [p EXCEPT !.task.text = text, !.task.back = TRUE]
  <2>2. p.task.text \in Nat /\ text \in Nat
    BY <1>1 DEF TaskRec
  <2>3. /\ DOMAIN z = Fields /\ z.task = [p.task EXCEPT !.text = text, !.back = TRUE]
        /\ z.ops = p.ops /\ z.turns = p.turns /\ z.worker = p.worker /\ z.w = p.w
    BY <1>1 DEF Fields
  <2>4. p' = Touched(z)
    BY <2>1
  <2> HIDE DEF z
  <2>5. /\ z.task \in TaskRec /\ z.task.back /\ z.task.hold = p.task.hold
        /\ z.task.op = p.task.op /\ z.task.accepted = p.task.accepted
    BY <1>1, <2>2, <2>3 DEF TaskRec
  <2> QED BY <2>3, <2>4, <2>5, Touches
<1> QED BY <1>2, <1>3, <1>4

LEMMA CrashFine ==
  ASSUME Good(p), Crash
  PROVE  Fine(p, p')
<1>1. PICK x \in Unanswered : p' = Unlock([x EXCEPT !.worker = 0])
  BY DEF Crash
<1>2. /\ DOMAIN p = Fields /\ Len(p.ops) \in Nat /\ p.task \in TaskRec
      /\ p.task.accepted \in 0..Len(p.ops)
  BY DEF Good
<1>3. CASE p.w.pc = "idle"
  <2>1. x = p
    BY <1>3 DEF Unanswered, At
  <2>2. /\ DOMAIN p' = Fields /\ p'.task = p.task /\ p'.ops = p.ops /\ p'.turns = p.turns
        /\ p'.worker = 0 /\ p'.w = Unlocked
    BY <1>1, <1>2, <2>1 DEF Unlock, Fields
  <2>3. p'.w.pc = "idle"
    BY <2>2 DEF Unlocked
  <2>4. Holds(p.task, p.ops[p'.w.op], p'.w) /\ Waits(p.task, p.ops, p'.w, p'.worker)
    BY <2>2, FreeHolds, FreeWaits
  <2> QED BY <1>2, <2>2, <2>3, <2>4, Moves
<1>4. CASE p.w.pc # "idle"
  <2> DEFINE i == p.w.op
  <2>1. i \in 1..Len(p.ops)
    BY <1>4, Holding
  <2>2. PICK o, ts :
          /\ o \in OpRec /\ DOMAIN x = Fields /\ x.task = p.task /\ x.w = p.w /\ x.worker = p.worker
          /\ x.ops = [p.ops EXCEPT ![i] = o] /\ x.turns = [p.turns EXCEPT ![i] = ts]
          /\ Row(p.task, o, ts, i) /\ o.state = p.ops[i].state
    <3>1. Alters(p, x, i)
      BY <1>4, UnansweredAlters
    <3> QED BY <3>1 DEF Alters
  <2> HIDE DEF i
  <2>3. /\ DOMAIN p' = Fields /\ p'.task = p.task /\ p'.worker = 0 /\ p'.w = Unlocked
        /\ p'.ops = [p.ops EXCEPT ![i] = o] /\ p'.turns = [p.turns EXCEPT ![i] = ts]
    BY <1>1, <2>2 DEF Unlock, Fields
  <2>4. p'.w.pc = "idle"
    BY <2>3 DEF Unlocked
  <2>5. Holds(p'.task, p'.ops[p'.w.op], p'.w) /\ Waits(p'.task, p'.ops, p'.w, p'.worker)
    BY <2>3, FreeHolds, FreeWaits
  <2>6. Rightly(p, o, i)
    BY <2>2 DEF Rightly
  <2>7. /\ p'.task \in TaskRec /\ p'.task.text = p.task.text /\ p'.task.back = p.task.back
        /\ p'.task.op = p.task.op /\ p'.task.accepted \in 0..Len(p.ops)
        /\ p'.task.hold = p.task.hold /\ p'.worker \in 0..Len(p.ops)
        /\ Row(p'.task, o, ts, i)
    BY <1>2, <2>2, <2>3
  <2> QED BY <2>1, <2>3, <2>4, <2>5, <2>6, <2>7, Change
<1> QED BY <1>3, <1>4

\* A conversation begins when none holds the task back.
LEMMA StartFine ==
  ASSUME Good(p), Start
  PROVE  Fine(p, p')
<1> DEFINE i == Len(p.ops) + 1
           o == NewOp(p.task.text)
<1>1. /\ p.w.pc = "idle" /\ ~p.task.hold
      /\ p' = [p EXCEPT !.ops = Append(@, o), !.turns = Append(@, <<>>),
                        !.task.hold = TRUE, !.task.op = i, !.worker = i]
  BY DEF Start, Idle
<1>2. /\ DOMAIN p = Fields /\ p.ops \in Seq(OpRec) /\ p.turns \in Seq(Seq(TurnRec))
      /\ Len(p.turns) = Len(p.ops) /\ p.task \in TaskRec /\ p.task.accepted \in 0..Len(p.ops)
      /\ p.w \in LockRec /\ p.w.why = "none" /\ Len(p.ops) \in Nat
  BY <1>1 DEF Good, Holds
<1>3. /\ o \in OpRec /\ o.state = "pending" /\ ~o.thread /\ o.asks = "none" /\ o.turn = 0
      /\ o.plan = 0 /\ o.req = p.task.text
  <2>1. p.task.text \in Nat
    BY <1>2 DEF TaskRec
  <2>2. {} \in SUBSET [turn : Nat, req : Nat]
    OBVIOUS
  <2> QED BY <2>1, <2>2 DEF NewOp, OpRec, OpState
<1> HIDE DEF o
<1>4. /\ DOMAIN p' = Fields /\ p'.ops = Append(p.ops, o) /\ p'.turns = Append(p.turns, <<>>)
      /\ p'.task = [p.task EXCEPT !.hold = TRUE, !.op = i] /\ p'.worker = i /\ p'.w = p.w
  <2> HIDE DEF i
  <2> QED BY <1>1, <1>2 DEF Fields
<1>5. /\ p'.task \in TaskRec /\ p'.task.hold /\ p'.task.op = i /\ p'.task.text = p.task.text
      /\ p'.task.back = p.task.back
      /\ p'.task.accepted = p.task.accepted
  <2>1. i \in Nat
    BY <1>2
  <2> HIDE DEF i
  <2>2. /\ p'.task.hold /\ p'.task.op = i /\ p'.task.text = p.task.text
        /\ p'.task.back = p.task.back
        /\ p'.task.accepted = p.task.accepted
    BY <1>2, <1>4 DEF TaskRec
  <2>3. p'.task \in TaskRec
    BY <2>1, <1>2, <1>4 DEF TaskRec
  <2> QED BY <2>2, <2>3
<1>6. /\ p'.ops \in Seq(OpRec) /\ Len(p'.ops) = i /\ p'.ops[i] = o
      /\ \A j \in 1..Len(p.ops) : p'.ops[j] = p.ops[j]
  BY <1>2, <1>3, <1>4, SeqAppend
<1>7. /\ p'.turns \in Seq(Seq(TurnRec)) /\ Len(p'.turns) = i /\ p'.turns[i] = <<>>
      /\ \A j \in 1..Len(p.ops) : p'.turns[j] = p.turns[j]
  <2> DEFINE T == Seq(TurnRec)
             e == <<>>
  <2>1. p.turns \in Seq(T) /\ e \in T /\ p'.turns = Append(p.turns, e)
    BY <1>2, <1>4
  <2> HIDE DEF T, e
  <2>2. /\ p'.turns \in Seq(T) /\ Len(p'.turns) = Len(p.turns) + 1
        /\ p'.turns[Len(p.turns) + 1] = e
        /\ \A j \in 1..Len(p.turns) : p'.turns[j] = p.turns[j]
    BY <2>1, SeqAppend
  <2> QED BY <2>2, <1>2 DEF T, e
<1>8. \A j \in 1..Len(p'.ops) : Row(p'.task, p'.ops[j], p'.turns[j], j)
  <2> TAKE j \in 1..Len(p'.ops)
  <2>1. CASE j = i
    <3>1. <<>> \in Seq(TurnRec) /\ Len(<<>>) = 0 /\ p.task.text <= p.task.text
      BY <1>2 DEF TaskRec
    <3> QED BY <2>1, <3>1, <1>3, <1>5, <1>6, <1>7 DEF Row, LastTurn, Held, Over
  <2>2. CASE j # i
    <3>1. j \in 1..Len(p.ops)
      BY <2>2, <1>2, <1>6
    <3>2. Row(p.task, p.ops[j], p.turns[j], j)
      BY <3>1 DEF Good
    <3>3. ~Held(p.task, j) /\ ~Held(p'.task, j)
      BY <2>2, <1>1, <1>5 DEF Held
    <3>4. ~p'.task.back => ~p.task.back /\ p.task.text <= p'.task.text
      BY <1>2, <1>5 DEF TaskRec
    <3>5. Row(p'.task, p.ops[j], p.turns[j], j)
      BY <3>2, <3>3, <3>4, <1>2, <1>5, RowStays
    <3> QED BY <3>1, <3>5, <1>6, <1>7
  <2> QED BY <2>1, <2>2
<1>9. Holds(p'.task, p'.ops[p'.w.op], p'.w)
  BY <1>1, <1>2, <1>4 DEF Holds
<1>10. Waits(p'.task, p'.ops, p'.w, p'.worker)
  BY <1>1, <1>2, <1>3, <1>4, <1>5, <1>6 DEF Waits, Held
<1>11. /\ p'.worker \in 0..Len(p'.ops) /\ p'.task.op \in 0..Len(p'.ops) /\ p'.task.op # 0
       /\ p'.task.accepted \in 0..Len(p'.ops) /\ p'.w.pc = "idle"
  BY <1>1, <1>2, <1>4, <1>5, <1>6
<1>12. Good(p')
  BY <1>4, <1>5, <1>6, <1>7, <1>8, <1>9, <1>10, <1>11 DEF Good
<1>13. \A j \in 1..Len(p.ops) : Rightly(p, p'.ops[j], j)
  BY <1>6 DEF Rightly
<1> QED BY <1>12, <1>13 DEF Fine

LEMMA InitGood == Init => Good(p)
<1> SUFFICES ASSUME Init PROVE Good(p)
  OBVIOUS
<1>1. /\ p.task = NewTask /\ p.ops = <<>> /\ p.turns = <<>> /\ p.worker = 0 /\ p.w = Unlocked
      /\ DOMAIN p = Fields
  BY DEF Init, Fields
<1>2. /\ p.task \in TaskRec /\ p.task.op = 0 /\ p.task.accepted = 0 /\ ~p.task.hold
  BY <1>1 DEF NewTask, TaskRec
<1>3. /\ p.ops \in Seq(OpRec) /\ p.turns \in Seq(Seq(TurnRec)) /\ Len(p.ops) = 0
      /\ Len(p.turns) = 0
  BY <1>1
<1>4. Holds(p.task, p.ops[p.w.op], p.w) /\ Waits(p.task, p.ops, p.w, p.worker)
  BY <1>1, FreeHolds, FreeWaits
<1>5. p.w.pc = "idle"
  BY <1>1 DEF Unlocked
<1> QED BY <1>1, <1>2, <1>3, <1>4, <1>5 DEF Good

LEMMA NextFine ==
  ASSUME Good(p), Next
  PROVE  Fine(p, p')
<1>1. CASE Holder
  BY <1>1, StartBeginsFine, ThreadMadeFine, SendFine, SteeredFine, TurnStartedFine,
     SaveApplyFine, AcceptApplyFine, CancelApplyFine, ObserveFine DEF Holder
<1>2. CASE Users
  BY <1>2, StartFine, ContinueFine, AnswerFine, SaveFine, AcceptFine, CancelFine, EditFine
     DEF Users
<1>3. CASE Failed \/ TurnNotStarted \/ ObserveLost \/ TurnEnds \/ Asks \/ Native \/ Belated
            \/ Crash
  BY <1>3, FailedFine, TurnNotStartedFine, ObserveLostFine, TurnEndsFine, AsksFine,
     NativeFine, BelatedFine, CrashFine
<1>4. ASSUME NEW i \in 1..Len(p.ops), Recover(i) PROVE Fine(p, p')
  BY <1>4, RecoverFine
<1> QED BY <1>1, <1>2, <1>3, <1>4 DEF Next

\* The board and Codex keep their records together: Good is inductive.
LEMMA GoodAlways == Spec => []Good(p)
<1>1. Init => Good(p)
  BY InitGood
<1>2. Good(p) /\ [Next]_vars => Good(p)'
  <2> SUFFICES ASSUME Good(p), [Next]_vars PROVE Good(p')
    OBVIOUS
  <2>1. CASE Next
    BY <2>1, NextFine DEF Fine
  <2>2. CASE UNCHANGED vars
    BY <2>2 DEF vars
  <2> QED BY <2>1, <2>2
<1> QED BY <1>1, <1>2, PTL DEF Spec

\* Operations, their turns and the task that they hold back have their types and refer to
\* one another (TaskPlanning, the plan operations of the database).
THEOREM PlanTyped == Spec => []TypeOK
<1>1. Good(p) => TypeOK
  <2> SUFFICES ASSUME Good(p) PROVE TypeOK
    OBVIOUS
  <2>1. /\ p.task.accepted \in 0..Len(p.ops) /\ p.task.op \in 0..Len(p.ops)
        /\ p.task.hold => p.task.op # 0
    BY DEF Good
  <2>2. ASSUME NEW i \in 1..Len(p.ops)
        PROVE  /\ p.ops[i].state \in OpState
               /\ p.ops[i].turn \in 0..Last(p, i) /\ p.ops[i].plan \in {0, p.ops[i].turn}
    <3>1. /\ p.ops[i] \in OpRec /\ p.turns[i] \in Seq(TurnRec)
          /\ Row(p.task, p.ops[i], p.turns[i], i)
      BY Known
    <3>2. p.ops[i].turn \in Nat /\ p.ops[i].state \in OpState /\ Last(p, i) \in Nat
      BY <3>1 DEF OpRec, Last
    <3> QED BY <3>1, <3>2 DEF Row, Last
  <2> QED BY <2>1, <2>2 DEF TypeOK, OpState, Op
<1> QED BY <1>1, GoodAlways, PTL

\* A turn that the board has started runs only in the conversation that holds its task back:
\* when a plan has been accepted or canceled nothing of it goes on (accept and cancel read
\* the turn again under the lock, and release the task only when it has stopped), but for a
\* start that Codex carries out after that.
THEOREM PlansHeld == Spec => []OnlyHeldRuns
<1>1. Good(p) => OnlyHeldRuns
  <2> SUFFICES ASSUME Good(p), NEW i \in 1..Len(p.ops), Active(p, i),
                      p.turns[i][Last(p, i)].by = "board"
               PROVE  Held(p.task, i)
    BY DEF OnlyHeldRuns, Held
  <2>1. LastTurn(p.task, p.ops[i], p.turns[i], i)
    BY DEF Good, Row
  <2> QED BY <2>1 DEF LastTurn, Active, Last
<1> QED BY <1>1, GoodAlways, PTL

\* What is accepted is the proposal of the last, completed turn, with no question open, and
\* for the requirements the task has then: an edit of the task between the proposal and its
\* acceptance, or a message written in Codex, is not passed over, unless the edit is undone
\* or a message that had been given up reaches Codex late.
THEOREM PlansAccepted == Spec => AcceptedForText
<1> DEFINE Step ==
      \A i \in 1..Len(p.ops) : p'.ops[i].state = "confirmed" /\ Op(i).state # "confirmed" =>
        LET turn == p.turns[i][Last(p, i)] IN
        /\ turn.status = "completed" /\ turn.plan
        /\ turn.told.late \/ p.task.back \/ turn.told.req \in {0, p.task.text}
        /\ p'.ops[i].plan = Last(p, i) /\ Op(i).asks = "none"
<1>1. Good(p) /\ [Next]_vars => [Step]_vars
  <2> SUFFICES ASSUME Good(p), Next PROVE Step
    OBVIOUS
  <2>1. \A i \in 1..Len(p.ops) : Rightly(p, p'.ops[i], i)
    BY NextFine DEF Fine
  <2> QED BY <2>1 DEF Rightly, Op
<1> HIDE DEF Step
<1>2. Spec => [][Step]_vars
  BY <1>1, GoodAlways, PTL DEF Spec
<1> QED BY <1>2 DEF Step, AcceptedForText
=============================================================================
