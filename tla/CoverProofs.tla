----------------------------- MODULE CoverProofs -----------------------------
(***************************************************************************)
(* A turn the board started runs under its task's lease, and every entry   *)
(* of the journal has the turn of its own prompt, in the scenarios that     *)
(* Orderly admits.                                                         *)
(*                                                                         *)
(* While Codex is not Over (a turn runs, or it has said something that the  *)
(* board has not heard) the lease is held, the row is in progress and no    *)
(* start is wanted; what takes leases back acts when Codex is Over.         *)
(***************************************************************************)
EXTENDS ExecutionProofs

Live(c) == Len(c.turns) # 0 /\ c.turns[Len(c.turns)].state = "active"
Over(c) == ~Live(c) /\ c.inbox = <<>>
Announced(c) == \E i \in DOMAIN c.inbox : c.inbox[i].what = "started"

Callers == {"worker", "follow"}
\* A start is on its way to Codex; or it was carried out, and its turn is the latest.
Wants(x, c, h) == x[h].pc = "turn" /\ c.calls[h] = 0
Called(x, c, h) == x[h].pc = "turn" /\ c.calls[h] = Len(c.turns)

\* Where the code is not known to lose track: Orderly, without Alone.
Tidy(can) ==
  /\ can \cap {"impatient", "crash", "quota", "timeout", "late"} = {}
  /\ ~({"follow_up", "missed"} \subseteq can)
  /\ "lost" \in can =>
       can \cap {"follow_up", "missed", "refused", "pause", "cancel", "requeue"} = {}
AllOwn(c) == \A i \in DOMAIN c.turns : c.turns[i].prompt # 0
Loses(can) == "lost" \in can

Going(x) == x.task.status = "in_progress" /\ x.task.run \in {"starting", "running"}
Held(x) == x.lease /\ Going(x)

\* The lease is held while Codex works on a turn of the task.
Leased(x, c, can) ==
  ~Over(c) => /\ x.lease /\ x.task.status = "in_progress"
              /\ x.task.run \in {"starting", "running"} \/ (Loses(can) /\ x.task.conflict)

\* Whoever is about to ask for a turn does so when Codex is over, under the lease.
Eager(x, c, can) ==
  /\ x.worker.pc \in Before =>
       /\ Over(c)
       /\ Held(x) \/ (Loses(can) /\ x.task.status # "in_progress")
       /\ Loses(can) \/ ~x.task.conflict
  /\ x.follow.pc = "options" => Over(c) /\ Held(x) /\ ~x.task.conflict /\ x.worker.pc = "none"
  /\ \A h \in Callers : Wants(x, c, h) =>
       /\ Over(c) /\ Held(x) /\ (Loses(can) \/ ~x.task.conflict)
       /\ x.ops[Len(x.ops)].prev = Len(c.turns)
  /\ Wants(x, c, "follow") => x.worker.pc = "none"

\* A stop goes on beside no start, and is applied when Codex is over.
Halted(x, c, can) ==
  /\ x.stop.pc # "none" =>
       ~OnWay(x) /\ x.follow.pc = "none" /\ ~Loses(can) /\ ~Announced(c)
  /\ x.stop.pc = "check" => ~Live(c)
  /\ x.stop.pc = "apply" => Over(c)
  /\ x.override => x.stop.pc # "none"

\* What is waited for is the latest turn; what has ended is over.
Watched(x, c) ==
  /\ x.worker.pc = "wait" => x.worker.turn = Len(c.turns)
  /\ Len(c.turns) \in x.ended => Over(c)

\* Each turn has a run, but for the latest, of which the board is to hear.
Heard(x, c, can) ==
  /\ LastRun(x).turn <= Len(c.turns)
  /\ \A t \in Turned(x) : t <= LastRun(x).turn
  /\ \A i \in 1..(Len(c.turns) - 1) : i \in Turned(x)
  /\ Len(c.turns) # 0 /\ Len(c.turns) \notin Turned(x) =>
       /\ "missed" \in can \/ Announced(c)
       /\ Loses(can) \/ \E h \in Callers : Called(x, c, h)
  /\ x.turn \in {0, Len(c.turns)} \/ Len(c.turns) \notin Turned(x)
  /\ "missed" \notin can /\ x.turn = Len(c.turns) /\ Len(c.turns) # 0 => Len(c.turns) \in Turned(x)

\* The latest entry is that of the start under way ...
Asked(x, c) ==
  /\ \A h \in Callers : x[h].pc = "turn" =>
       /\ x[h].op = Len(x.ops) /\ Len(x.ops) # 0
       /\ x.ops[Len(x.ops)].prompt = x[h].prompt /\ x.task.uncertain = 0
  /\ \A h \in Callers : c.calls[h] # 0 =>
       /\ x[h].pc = "turn" /\ c.calls[h] = Len(c.turns)
       /\ c.turns[Len(c.turns)].prompt = x[h].prompt

\* ... and of the latest turn, if there is one after the turn that was the latest
\* when the entry was written.
Tracked(x, c) ==
  /\ Len(x.ops) # 0 =>
       \/ x.ops[Len(x.ops)].prev = Len(c.turns)
       \/ /\ x.ops[Len(x.ops)].prev + 1 = Len(c.turns)
          /\ c.turns[Len(c.turns)].prompt = x.ops[Len(x.ops)].prompt
  /\ \A i \in DOMAIN x.ops : x.ops[i].turn # 0 =>
       x.ops[i].turn \in DOMAIN c.turns /\ c.turns[x.ops[i].turn].prompt = x.ops[i].prompt
Entered(x, c, can) == Asked(x, c) /\ Tracked(x, c)

\* Only the latest entry may be uncertain.
Certain(x, can) ==
  /\ \A i \in DOMAIN x.ops : x.ops[i].state = "uncertain" => i = Len(x.ops)
  /\ x.task.uncertain # 0 =>
       x.task.uncertain = Len(x.ops) /\ x.ops[Len(x.ops)].state = "uncertain"
  /\ ~Loses(can) =>
       /\ x.task.uncertain = 0
       /\ \A i \in DOMAIN x.ops : x.ops[i].state = "uncertain" => \E h \in Callers : x[h].pc = "turn"

\* Notifications are about the latest turn, and its end is the last of them.
Ordinal(c) ==
  \A i \in DOMAIN c.inbox :
    /\ c.inbox[i].turn = Len(c.turns)
    /\ c.inbox[i].what = "ended" => i = Len(c.inbox) /\ ~Live(c)

\* A prompt that waits cannot be claimed, and a conflict keeps the lease.
Waiting(x, can) ==
  /\ x.task.paused => x.queue.state # "pending" /\ ~Loses(can)
  /\ x.queue.state = "pending" => Busy(x) \/ x.task.conflict
  /\ x.task.conflict /\ ~Loses(can) => x.lease \/ x.task.status \in {"todo", "canceled"}
  /\ x.task.status \in {"todo", "canceled"} => ~OnWay(x) /\ x.follow.pc = "none"
  /\ Asking(x) => x.lease /\ (Loses(can) \/ ~x.task.conflict)
  /\ x.follow.pc # "none" => x.follow.row.status \in {"in_progress", "in_review"}

\* The loop has found a turn for the latest entry.
Finds(x) == x.loop.pc = "recover" /\ x.loop.latest \notin {0, x.ops[x.loop.op].prev}

\* What the loop has read and not applied is still so, or is not news.
Listed(x, c, sn) ==
  x.loop.pc = "sync" =>
    /\ x.loop.latest = Len(c.turns) /\ x.loop.state # "active" => Over(c)
    /\ x.loop.latest # Len(c.turns) /\ "loop" \in sn =>
         Len(c.turns) \in Turned(x) \/ \E h \in Callers : x[h].pc = "turn"
Matching(x, c, can) ==
  Finds(x) =>
    /\ x.loop.op = Len(x.ops) /\ x.loop.latest = Len(c.turns)
    /\ c.turns[Len(c.turns)].prompt = x.ops[Len(x.ops)].prompt
    /\ x.loop.state # "active" => Over(c)
    /\ "missed" \notin can => Len(c.turns) \in Turned(x)
    /\ x.follow.pc # "options" /\ \A h \in Callers : ~Wants(x, c, h)
    /\ x.worker.pc \in Before =>
         Loses(can) /\ x.ops[Len(x.ops)].state = "uncertain" /\ x.loop.state = "completed"
    /\ x.queue.state = "pending" /\ ~x.lease => Loses(can) /\ x.loop.state # "active"
Reads(x, c, can, sn) == Listed(x, c, sn) /\ Matching(x, c, can)

\* No usage limit is met; and what is lost is nothing but answers.
Plainly(x, c, can) ==
  /\ x.limits = {} /\ x.worker.pc # "limits" /\ x.loop.pc # "limits"
  /\ \A i \in DOMAIN c.turns : c.turns[i].state # "quota"
  /\ Loses(can) =>
       /\ x.follow.pc = "none"
       /\ \A i \in DOMAIN c.turns : c.turns[i].state \in {"active", "completed"}
       /\ x.loop.pc \in {"sync", "recover"} => x.loop.state \in {"active", "completed", "none"}
  /\ x.loop.pc \in {"sync", "recover"} => x.loop.state # "quota"

\* What is so whatever the loop is about to apply.
Core(x, c, can) ==
  /\ Leased(x, c, can) /\ Eager(x, c, can) /\ Halted(x, c, can) /\ Watched(x, c)
  /\ Heard(x, c, can) /\ Entered(x, c, can) /\ Certain(x, can) /\ Ordinal(c)
  /\ Waiting(x, can) /\ Plainly(x, c, can)
Covering(x, c, can, sn) == Core(x, c, can) /\ Reads(x, c, can, sn)
CInv == Tidy(left.can) /\ AllOwn(codex) => Covering(s, codex, left.can, seen)

-----------------------------------------------------------------------------
(* What the records hold.                                                    *)

LEMMA Shape ==
  ASSUME NEW n \in Nat, NEW x, Typed(x, n)
  PROVE  /\ x.worker.pc \in Before \cup Without \cup {"turn"} /\ x.worker.turn \in 0..n
         /\ x.follow.pc \in {"none", "options", "turn"}
         /\ x.stop.pc \in {"none", "ask", "check", "apply"}
         /\ x.loop.latest \in 0..n /\ x.loop.state \in TurnState \cup {"none"}
         /\ x.turn \in 0..n /\ x.ended \subseteq 0..n
         /\ x.lease \in BOOLEAN /\ x.starting \in BOOLEAN /\ x.override \in BOOLEAN
         /\ x.queue.state \in {"none", "pending", "claimed", "done"}
         /\ x.worker.prompt \in Nat /\ x.follow.prompt \in Nat
<1>1. x \in States(n)
  BY DEF Typed
<1>2. /\ x.worker \in WorkerRec(n) /\ x.follow \in FollowRec /\ x.stop \in StopRec
      /\ x.loop \in LoopRec(n) /\ x.queue \in QueueRec
      /\ x.turn \in 0..n /\ x.ended \subseteq 0..n
      /\ x.lease \in BOOLEAN /\ x.starting \in BOOLEAN /\ x.override \in BOOLEAN
  BY <1>1 DEF States
<1> QED BY <1>2 DEF WorkerRec, FollowRec, StopRec, LoopRec, QueueRec

LEMMA RowShape ==
  ASSUME NEW n \in Nat, NEW x, Typed(x, n)
  PROVE  /\ x.task.conflict \in BOOLEAN /\ x.task.paused \in BOOLEAN /\ x.task.observe \in BOOLEAN
         /\ x.task.thread \in BOOLEAN /\ x.task.uncertain \in 0..Len(x.ops)
         /\ x.task.status \in {"todo", "in_progress", "in_review", "canceled"}
         /\ x.task.run \in {"none", "starting", "running", "waiting_quota", "failed"}
<1>1. x.task \in TaskRec /\ x.task.uncertain <= Len(x.ops)
  BY DEF Typed, States
<1> QED BY <1>1, OpsOf DEF TaskRec

\* The journal, the runs and what Codex shows have the lengths of sequences.
LEMMA InboxOf ==
  ASSUME NEW c, Shown(c)
  PROVE  /\ Len(c.turns) \in Nat /\ DOMAIN c.turns = 1..Len(c.turns)
         /\ c.inbox \in Seq(InboxRec(Len(c.turns))) /\ Len(c.inbox) \in Nat
         /\ DOMAIN c.inbox = 1..Len(c.inbox)
         /\ c.calls.worker \in 0..Len(c.turns) /\ c.calls.follow \in 0..Len(c.turns)
<1> DEFINE n == Len(c.turns)
           S == InboxRec(n)
           q == c.inbox
<1>1. n \in Nat /\ DOMAIN c.turns = 1..n
  BY TurnsOf
<1>2. q \in Seq(S) /\ c.calls \in CallRec(n)
  BY DEF Shown, CodexRec
<1>3. c.calls.worker \in 0..n /\ c.calls.follow \in 0..n
  BY <1>2 DEF CallRec
<1> HIDE DEF n, S, q
<1>4. Len(q) \in Nat /\ DOMAIN q = 1..Len(q)
  BY <1>2
<1> QED BY <1>1, <1>2, <1>3, <1>4 DEF n, S, q

LEMMA RunsOf ==
  ASSUME NEW n, NEW x, Typed(x, n)
  PROVE  /\ Turned(x) \subseteq Nat /\ LastRun(x).turn \in Nat
         /\ x.runs # <<>> => LastRun(x).turn \in Turned(x)
         /\ x.runs = <<>> => Turned(x) = {} /\ LastRun(x).turn = 0
<1> DEFINE S == RunRec
           q == x.runs
<1>1. q \in Seq(S)
  BY DEF Typed, States
<1> HIDE DEF S, q
<1>2. \A j \in DOMAIN q : q[j] \in S
  BY <1>1
<1>3. Turned(x) \subseteq Nat
  BY <1>2 DEF Turned, S, q, RunRec
<1>4. CASE q = <<>>
  BY <1>3, <1>4 DEF Turned, LastRun, q
<1>5. CASE q # <<>>
  BY <1>3, <1>5, RunTurns DEF q
<1> QED BY <1>3, <1>4, <1>5 DEF q

\* What the steps start from.
Based(x, c, can) ==
  /\ Shown(c) /\ Typed(x, Len(c.turns)) /\ Threadless(x) /\ Guarded(x, c, can)
  /\ Tidy(can) /\ AllOwn(c)

LEMMA Single ==
  ASSUME NEW x, NEW c, NEW can, Based(x, c, can)
  PROVE  /\ "impatient" \notin can /\ "crash" \notin can /\ "quota" \notin can
         /\ "follow_up" \notin can => x.follow.pc = "none"
         /\ x.follow.pc # "none" => ~OnWay(x) /\ x.queue.state # "pending" /\ x.starting /\ ~Executing(x)
         /\ OnWay(x) => x.starting
         /\ LastActive(c) /\ AllFiled(x) /\ PauseHolds(x, c, can)
BY DEF Based, Guarded, OneStart, Solo, Patience, Tidy

\* At most one of the two asks.
LEMMA OneCaller ==
  ASSUME NEW x, NEW c, NEW can, Based(x, c, can), NEW h \in Callers, NEW g \in Callers,
         x[h].pc = "turn", x[g].pc = "turn"
  PROVE  g = h
BY Single DEF Callers, OnWay
-----------------------------------------------------------------------------
(* What Codex does.                                                          *)

\* A start is carried out.
LEMMA StartCovers ==
  ASSUME NEW x, NEW c, NEW can, NEW sn, Based(x, c, can), Covering(x, c, can, sn),
         NEW h \in Callers, Wants(x, c, h), NEW d,
         Len(d.turns) = Len(c.turns) + 1, DOMAIN d.turns = 1..(Len(c.turns) + 1),
         \A i \in 1..Len(c.turns) : d.turns[i] = c.turns[i],
         d.turns[Len(c.turns) + 1].state = "active",
         d.turns[Len(c.turns) + 1].prompt = x[h].prompt,
         d.calls[h] = Len(c.turns) + 1,
         \A g \in Callers : g # h => d.calls[g] = c.calls[g],
         d.inbox # <<>>, DOMAIN d.inbox = {1}, Len(d.inbox) = 1,
         d.inbox[1].turn = Len(c.turns) + 1, d.inbox[1].what = "started"
  PROVE  Covering(x, d, can, sn)
<1> DEFINE n == Len(c.turns)
           m == Len(d.turns)
<1>1. /\ n \in Nat /\ m = n + 1 /\ Typed(x, n) /\ DOMAIN c.turns = 1..n /\ DOMAIN d.turns = 1..m
      /\ x.follow.pc \in {"none", "options", "turn"}
      /\ x.worker.turn \in 0..n /\ x.turn \in 0..n /\ x.ended \subseteq 0..n /\ x.loop.latest \in 0..n
      /\ DOMAIN x.ops = 1..Len(x.ops) /\ Len(x.ops) \in Nat
      /\ c.calls.worker \in 0..n /\ c.calls.follow \in 0..n
  BY Shape, OpsOf, InboxOf DEF Based
<1>2. /\ x[h].pc = "turn" /\ c.calls[h] = 0
      /\ Over(c) /\ Held(x) /\ (Loses(can) \/ ~x.task.conflict) /\ x.ops[Len(x.ops)].prev = n
  BY DEF Wants, Covering, Core, Eager
<1>3. \A g \in Callers : x[g].pc = "turn" => g = h
  BY <1>2, OneCaller
<1>4. x.worker.pc \notin Before /\ x.worker.pc # "wait" /\ x.follow.pc # "options" /\ x.stop.pc = "none"
  <2>1. x.stop.pc = "none"
    BY <1>2 DEF Covering, Core, Halted, Callers, OnWay
  <2>2. CASE h = "worker"
    BY <1>2, <2>1, <2>2, Single DEF OnWay, Before
  <2>3. CASE h = "follow"
    BY <1>2, <2>1, <2>3 DEF Covering, Core, Eager, Wants, Before
  <2> QED BY <2>1, <2>2, <2>3 DEF Callers
<1>5. /\ Live(d) /\ ~Over(d) /\ Announced(d) /\ Called(x, d, h) /\ \A g \in Callers : ~Wants(x, d, g)
      /\ ~Announced(c)
  BY <1>1, <1>2, <1>3 DEF Live, Over, Announced, Called, Wants
<1>6. LastRun(x).turn <= n /\ (\A t \in Turned(x) : t <= LastRun(x).turn) /\ \A i \in 1..(n - 1) : i \in Turned(x)
  BY DEF Covering, Core, Heard
<1>7. n # 0 => n \in Turned(x)
  <2>1. ASSUME n # 0, n \notin Turned(x)
        PROVE  FALSE
    <3>1. "missed" \in can
      BY <1>5, <2>1 DEF Covering, Core, Heard
    <3>2. ~Loses(can)
      BY <3>1 DEF Based, Tidy, Loses
    <3>3. PICK g \in Callers : Called(x, c, g)
      BY <2>1, <3>2 DEF Covering, Core, Heard
    <3> QED BY <1>2, <1>3, <2>1, <3>3 DEF Called
  <2> QED BY <2>1
<1>8. \A t \in Turned(x) : t # n + 1
  <2>1. LastRun(x).turn <= n
    BY <1>6
  <2> QED BY <1>1, <1>6, RunsOf DEF Based
<1> HIDE DEF n, m
<1>9. Leased(x, d, can)
  BY <1>2 DEF Leased, Held, Going
<1>10. Eager(x, d, can)
  BY <1>4, <1>5 DEF Eager, Callers
<1>11. Halted(x, d, can)
  BY <1>4 DEF Halted, Covering, Core
<1>12. Watched(x, d)
  BY <1>1, <1>4 DEF Watched, m
<1>13. Heard(x, d, can)
  <2>1. \A i \in 1..(m - 1) : i \in Turned(x)
    <3>1. ASSUME NEW i \in 1..(m - 1) PROVE i \in Turned(x)
      <4>1. i \in 1..(n - 1) \/ (i = n /\ n # 0)
        BY <1>1
      <4> QED BY <1>6, <1>7, <4>1
    <3> QED BY <3>1
  <2>2. x.turn # m /\ m \notin Turned(x) /\ LastRun(x).turn <= m
    BY <1>1, <1>6, <1>8, RunsOf
  <2> QED BY <1>5, <1>6, <2>1, <2>2 DEF Heard, m
<1>14. Entered(x, d, can)
  <2>1. /\ x[h].op = Len(x.ops) /\ Len(x.ops) # 0 /\ x.task.uncertain = 0
        /\ x.ops[Len(x.ops)].prompt = x[h].prompt
    BY <1>2 DEF Covering, Core, Entered, Asked, Tracked
  <2>2. \A g \in Callers : d.calls[g] # 0 => g = h
    BY <1>3, <1>5 DEF Covering, Core, Entered, Asked, Tracked
  <2>3. \A i \in DOMAIN x.ops : x.ops[i].turn # 0 =>
          x.ops[i].turn \in DOMAIN d.turns /\ d.turns[x.ops[i].turn].prompt = x.ops[i].prompt
    <3>1. ASSUME NEW i \in DOMAIN x.ops, x.ops[i].turn # 0
          PROVE  x.ops[i].turn \in 1..n /\ c.turns[x.ops[i].turn].prompt = x.ops[i].prompt
      BY <1>1, <3>1 DEF Covering, Core, Entered, Asked, Tracked
    <3>2. ASSUME NEW t \in 1..n
          PROVE  t \in DOMAIN d.turns /\ d.turns[t] = c.turns[t]
      BY <1>1, <3>2 DEF n
    <3> QED BY <3>1, <3>2
  <2> QED BY <1>1, <1>2, <1>3, <2>1, <2>2, <2>3 DEF Entered, Asked, Tracked, m, n
<1>15. Certain(x, can)
  BY DEF Covering, Core
<1>16. Ordinal(d)
  BY <1>1 DEF Ordinal, m, n
<1>17. Waiting(x, can)
  BY DEF Covering, Core
<1>18. Reads(x, d, can, sn)
  <2>1. ~Finds(x)
    BY <1>2 DEF Covering, Core, Reads, Listed, Matching, Wants
  <2>2. x.loop.latest # m
    BY <1>1
  <2> QED BY <1>2, <2>1, <2>2 DEF Reads, Listed, Matching, m
<1>19. Plainly(x, d, can)
  <2>1. \A i \in DOMAIN d.turns : d.turns[i].state = "active" \/ (i \in DOMAIN c.turns /\ d.turns[i] = c.turns[i])
    BY <1>1 DEF n, m
  <2> QED BY <2>1 DEF Plainly, Covering, Core
<1> QED BY <1>9, <1>10, <1>11, <1>12, <1>13, <1>14, <1>15, <1>16, <1>17, <1>18, <1>19 DEF Covering, Core

\* A turn ends.
LEMMA EndCovers ==
  ASSUME NEW x, NEW c, NEW can, NEW sn, Based(x, c, can), Covering(x, c, can, sn), Live(c),
         NEW state \in {"completed", "failed", "interrupted"}, Loses(can) => state = "completed", NEW d,
         Len(d.turns) = Len(c.turns), DOMAIN d.turns = DOMAIN c.turns,
         \A i \in 1..Len(c.turns) : i # Len(c.turns) => d.turns[i] = c.turns[i],
         d.turns[Len(c.turns)].state = state,
         d.turns[Len(c.turns)].prompt = c.turns[Len(c.turns)].prompt,
         d.calls = c.calls,
         DOMAIN d.inbox = 1..(Len(c.inbox) + 1), Len(d.inbox) = Len(c.inbox) + 1,
         \A i \in 1..Len(c.inbox) : d.inbox[i] = c.inbox[i],
         d.inbox[Len(c.inbox) + 1].turn = Len(c.turns), d.inbox[Len(c.inbox) + 1].what = "ended",
         d.inbox # <<>>
  PROVE  Covering(x, d, can, sn)
<1> DEFINE n == Len(c.turns)
           k == Len(c.inbox)
<1>1. /\ n \in Nat /\ n # 0 /\ k \in Nat /\ DOMAIN c.turns = 1..n /\ DOMAIN c.inbox = 1..k
      /\ Len(d.turns) = n /\ DOMAIN d.turns = 1..n /\ d.turns[n].state = state
  BY InboxOf DEF Based, Live
<1>2. /\ ~Over(c) /\ ~Live(d) /\ ~Over(d)
  BY <1>1 DEF Live, Over
<1>3. Announced(c) <=> Announced(d)
  <2>1. ASSUME Announced(c) PROVE Announced(d)
    <3>1. PICK i \in DOMAIN c.inbox : c.inbox[i].what = "started"
      BY <2>1 DEF Announced
    <3>2. i \in DOMAIN d.inbox /\ d.inbox[i].what = "started"
      BY <1>1, <3>1
    <3> QED BY <3>2 DEF Announced
  <2>2. ASSUME Announced(d) PROVE Announced(c)
    <3>1. PICK i \in DOMAIN d.inbox : d.inbox[i].what = "started"
      BY <2>2 DEF Announced
    <3>2. i \in DOMAIN c.inbox /\ c.inbox[i].what = "started"
      BY <1>1, <3>1
    <3> QED BY <3>2 DEF Announced
  <2> QED BY <2>1, <2>2
<1>4. \A i \in 1..n : d.turns[i].prompt = c.turns[i].prompt
  BY <1>1
<1>5. \A h \in Callers : /\ Wants(x, d, h) <=> Wants(x, c, h)
                         /\ Called(x, d, h) <=> Called(x, c, h)
  BY DEF Wants, Called
<1>6. /\ x.worker.pc \notin Before /\ x.follow.pc # "options" /\ (\A h \in Callers : ~Wants(x, c, h))
      /\ x.stop.pc # "apply" /\ n \notin x.ended
  BY <1>2 DEF Covering, Core, Eager, Halted, Watched
<1> HIDE DEF n, k
<1>7. Leased(x, d, can)
  BY <1>2 DEF Covering, Core, Leased
<1>8. Eager(x, d, can)
  BY <1>5, <1>6 DEF Eager, Callers
<1>9. Halted(x, d, can)
  BY <1>3, <1>6 DEF Covering, Core, Halted
<1>10. Watched(x, d)
  BY <1>6 DEF Covering, Core, Watched, n
<1>11. Heard(x, d, can)
  BY <1>3, <1>5 DEF Covering, Core, Heard
<1>12. Entered(x, d, can)
  <2>1. \A i \in DOMAIN x.ops : x.ops[i].turn # 0 =>
          x.ops[i].turn \in 1..n /\ d.turns[x.ops[i].turn].prompt = x.ops[i].prompt
    BY <1>1, <1>4 DEF Covering, Core, Entered, Asked, Tracked
  <2>2. d.turns[n].prompt = c.turns[n].prompt
    BY <1>1, <1>4
  <2> QED BY <1>1, <2>1, <2>2 DEF Covering, Core, Entered, Asked, Tracked, n
<1>13. Certain(x, can) /\ Waiting(x, can)
  BY DEF Covering, Core
<1>14. Ordinal(d)
  <2>1. \A i \in 1..k : c.inbox[i].turn = n /\ c.inbox[i].what # "ended"
    BY <1>1 DEF Covering, Core, Ordinal, n
  <2>2. \A i \in DOMAIN d.inbox : i = k + 1 \/ (i \in 1..k /\ d.inbox[i] = c.inbox[i])
    BY <1>1 DEF k
  <2> QED BY <1>1, <1>2, <2>1, <2>2 DEF Ordinal, k, n
<1>15. Reads(x, d, can, sn)
  <2>1. ~(x.loop.pc = "sync" /\ x.loop.latest = n /\ x.loop.state # "active")
    BY <1>2 DEF Covering, Core, Reads, Listed, Matching, n
  <2>2. ~(Finds(x) /\ x.loop.state # "active")
    BY <1>2 DEF Covering, Core, Reads, Listed, Matching
  <2>3. d.turns[n].prompt = c.turns[n].prompt
    BY <1>1, <1>4
  <2> QED BY <1>1, <1>5, <2>1, <2>2, <2>3 DEF Covering, Core, Reads, Listed, Matching, n
<1>16. Plainly(x, d, can)
  <2>1. \A i \in 1..n : d.turns[i].state = state \/ d.turns[i] = c.turns[i]
    BY <1>1 DEF n
  <2>2. \A i \in 1..n : c.turns[i].state # "quota" /\ (Loses(can) => c.turns[i].state \in {"active", "completed"})
    BY <1>1 DEF Covering, Core, Plainly
  <2> QED BY <1>1, <2>1, <2>2 DEF Plainly, Covering, Core
<1> QED BY <1>7, <1>8, <1>9, <1>10, <1>11, <1>12, <1>13, <1>14, <1>15, <1>16 DEF Covering, Core

\* A notification is missed.
LEMMA MissedCovers ==
  ASSUME NEW x, NEW c, NEW can, NEW sn, Based(x, c, can), Covering(x, c, can, sn), c.inbox # <<>>,
         "missed" \in can,
         NEW d, d.turns = c.turns, d.calls = c.calls, DOMAIN d.inbox = 1..(Len(c.inbox) - 1),
         Len(d.inbox) = Len(c.inbox) - 1, \A i \in DOMAIN d.inbox : d.inbox[i] = c.inbox[i + 1]
  PROVE  Covering(x, d, can, sn)
<1> DEFINE k == Len(c.inbox)
<1>1. k \in Nat /\ DOMAIN c.inbox = 1..k
  BY InboxOf DEF Based
<1>2. ~Over(c) /\ (Live(c) <=> Live(d))
  BY DEF Over, Live
<1> HIDE DEF k
<1>3. Announced(d) => Announced(c)
  <2>1. ASSUME NEW i \in DOMAIN d.inbox, d.inbox[i].what = "started"
        PROVE  i + 1 \in DOMAIN c.inbox /\ c.inbox[i + 1].what = "started"
    BY <1>1, <2>1 DEF k
  <2> QED BY <2>1 DEF Announced
<1>4. \A h \in Callers : /\ Wants(x, d, h) <=> Wants(x, c, h)
                         /\ Called(x, d, h) <=> Called(x, c, h)
  BY DEF Wants, Called
<1>5. /\ x.worker.pc \notin Before /\ x.follow.pc # "options" /\ (\A h \in Callers : ~Wants(x, c, h))
      /\ x.stop.pc # "apply" /\ Len(c.turns) \notin x.ended
  BY <1>2 DEF Covering, Core, Eager, Halted, Watched
<1>6. Leased(x, d, can)
  BY <1>2 DEF Covering, Core, Leased
<1>7. Eager(x, d, can)
  BY <1>4, <1>5 DEF Eager, Callers
<1>8. Halted(x, d, can)
  BY <1>2, <1>3, <1>5 DEF Covering, Core, Halted
<1>9. Watched(x, d)
  BY <1>5 DEF Covering, Core, Watched
<1>10. Heard(x, d, can)
  BY <1>4 DEF Covering, Core, Heard
<1>11. Entered(x, d, can)
  BY DEF Covering, Core, Entered, Asked, Tracked
<1>12. Certain(x, can) /\ Waiting(x, can) /\ Plainly(x, d, can)
  BY DEF Covering, Core, Plainly
<1>13. Ordinal(d)
  <2>1. ASSUME NEW i \in DOMAIN d.inbox
        PROVE  i + 1 \in 1..k /\ d.inbox[i] = c.inbox[i + 1] /\ (i + 1 = k => i = Len(d.inbox))
    BY <1>1, <2>1 DEF k
  <2> QED BY <1>1, <1>2, <2>1 DEF Covering, Core, Ordinal, k
<1>14. Reads(x, d, can, sn)
  BY <1>2, <1>4 DEF Covering, Core, Reads, Listed, Matching
<1> QED BY <1>6, <1>7, <1>8, <1>9, <1>10, <1>11, <1>12, <1>13, <1>14 DEF Covering, Core

-----------------------------------------------------------------------------
(* Results.                                                                  *)

\* The version that the loop has seen goes unnoticed.
LEMMA SeenCovers ==
  ASSUME NEW x, NEW c, NEW can, NEW sn, Covering(x, c, can, sn), NEW tn, "loop" \in tn => "loop" \in sn
  PROVE  Covering(x, c, can, tn)
BY DEF Covering, Reads, Listed, Matching

\* Nobody is about to ask for a turn.
Nobody(x, c) ==
  x.worker.pc \notin Before /\ x.follow.pc # "options" /\ \A h \in Callers : ~Wants(x, c, h)

LEMMA NotOver ==
  ASSUME NEW x, NEW c, NEW can, Core(x, c, can), ~Over(c)
  PROVE  /\ Nobody(x, c) /\ x.stop.pc # "apply" /\ Len(c.turns) \notin x.ended
         /\ x.lease /\ x.task.status = "in_progress"
BY DEF Core, Eager, Halted, Watched, Leased, Nobody

\* A result is reported when Codex is over and nobody asks, but for a worker that
\* is on its way and finds the task reviewed.
LEMMA ReportedCovers ==
  ASSUME NEW x, NEW y, NEW c, NEW can, Shown(c), Typed(x, Len(c.turns)), Len(c.turns) # 0,
         Reported(x, y, Len(c.turns)), Over(c),
         x.follow.pc # "options", \A h \in Callers : ~Wants(x, c, h),
         x.worker.pc \in Before => Loses(can) /\ y.task.status = "in_review",
         Halted(x, c, can), Watched(x, c), Heard(x, c, can), Entered(x, c, can), Certain(x, can),
         Ordinal(c), Plainly(x, c, can),
         x.follow.pc # "none" => x.follow.row.status \in {"in_progress", "in_review"}
  PROVE  Core(y, c, can) /\ Turned(x) \subseteq Turned(y)
<1> DEFINE n == Len(c.turns)
<1>1. /\ n \in Nat /\ x.turn \in {0, n} /\ Turned(x) \subseteq Nat
      /\ DOMAIN x.ops = 1..Len(x.ops) /\ Len(x.ops) \in Nat
  BY InboxOf, RunsOf, OpsOf DEF Reported
<1>2. /\ y.worker = x.worker /\ y.follow = x.follow /\ y.stop = x.stop /\ y.override = x.override
      /\ y.ended = x.ended /\ y.loop = x.loop /\ y.limits = x.limits /\ y.turn = 0
  BY DEF Reported, Beside, Fields
<1>3. /\ ~y.task.conflict /\ y.task.uncertain = 0 /\ y.queue.state # "pending" /\ ~y.task.paused
      /\ y.task.status \notin {"todo", "canceled"} /\ y.task.run # "starting"
  BY DEF Reported
<1>4. OpsRecorded(x, y, n) /\ RunsKept(x, y)
  BY DEF Reported
<1>5. \A h \in Callers : y[h] = x[h]
  BY <1>2 DEF Callers
<1>6. Turned(x) \subseteq Turned(y)
  BY <1>4, RunsOf DEF RunsKept
<1>7. \A h \in Callers : /\ ~Wants(y, c, h)
                         /\ Called(y, c, h) <=> Called(x, c, h)
  BY <1>5 DEF Wants, Called
<1>8. DOMAIN y.ops = 1..Len(x.ops) /\ Len(y.ops) = Len(x.ops)
  BY <1>1, <1>4 DEF OpsRecorded
<1> HIDE DEF n
<1>9. Leased(y, c, can)
  BY DEF Leased
<1>10. Eager(y, c, can)
  BY <1>2, <1>3, <1>7 DEF Eager, Callers
<1>11. Halted(y, c, can) /\ Watched(y, c)
  BY <1>2 DEF Halted, Watched, OnWay
<1>12. Heard(y, c, can)
  <2>1. CASE Turned(y) = Turned(x) /\ LastRun(y).turn = LastRun(x).turn
    BY <1>2, <1>7, <2>1 DEF Heard
  <2>2. CASE x.runs = <<>> /\ Turned(y) = {x.turn} /\ LastRun(y).turn = x.turn
    <3>1. Turned(x) = {}
      BY <2>2, RunsOf
    <3>2. \A i \in 1..(n - 1) : FALSE
      BY <3>1 DEF Heard, n
    <3>3. LastRun(y).turn <= n
      BY <1>1, <2>2
    <3>4. \A t \in Turned(y) : t <= LastRun(y).turn
      BY <1>1, <2>2
    <3> QED BY <1>2, <1>7, <3>1, <3>2, <3>3, <3>4 DEF Heard, n
  <2> QED BY <1>4, <2>1, <2>2 DEF RunsKept
<1>13. Entered(y, c, can)
  <2>1. \A i \in DOMAIN x.ops : /\ y.ops[i].turn = x.ops[i].turn /\ y.ops[i].prompt = x.ops[i].prompt
                                /\ y.ops[i].prev = x.ops[i].prev
    BY <1>4 DEF OpsRecorded
  <2>2. Len(x.ops) # 0 => Len(x.ops) \in DOMAIN x.ops
    BY <1>1
  <2> QED BY <1>1, <1>3, <1>5, <1>8, <2>1, <2>2 DEF Entered, Asked, Tracked
<1>14. Certain(y, can)
  <2>1. \A i \in DOMAIN x.ops : y.ops[i].state = "uncertain" => x.ops[i].state = "uncertain"
    BY <1>4 DEF OpsRecorded
  <2> QED BY <1>1, <1>3, <1>5, <1>8, <2>1 DEF Certain
<1>15. Waiting(y, can)
  BY <1>2, <1>3 DEF Waiting, Asking
<1>16. Plainly(y, c, can)
  BY <1>2 DEF Plainly
<1> QED BY <1>6, <1>9, <1>10, <1>11, <1>12, <1>13, <1>14, <1>15, <1>16 DEF Core

\* The start of the latest turn is noticed.
LEMMA NoticedCovers ==
  ASSUME NEW x, NEW c, NEW can, NEW sn, Based(x, c, can), Covering(x, c, can, sn), c.inbox # <<>>,
         Announced(c), Len(c.turns) # 0,
         NEW d, d.turns = c.turns, d.calls = c.calls, DOMAIN d.inbox = 1..(Len(c.inbox) - 1),
         Len(d.inbox) = Len(c.inbox) - 1, \A i \in DOMAIN d.inbox : d.inbox[i] = c.inbox[i + 1],
         NEW y, \/ y = x /\ Passed(x, Len(c.turns))
                \/ TakenUp(x, y, Len(c.turns), TRUE)
  PROVE  Covering(y, d, can, sn)
<1> DEFINE n == Len(c.turns)
           k == Len(c.inbox)
<1>1. /\ n \in Nat /\ n # 0 /\ k \in Nat /\ DOMAIN c.inbox = 1..k /\ Turned(x) \subseteq Nat
      /\ x.lease \in BOOLEAN /\ x.task.conflict \in BOOLEAN
  BY InboxOf, RunsOf, Shape, RowShape DEF Based
<1>2. /\ ~Over(c) /\ (Live(c) <=> Live(d)) /\ Len(d.turns) = n
  BY DEF Over, Live
<1>3. /\ Nobody(x, c) /\ x.stop.pc # "apply" /\ n \notin x.ended /\ x.lease /\ x.task.status = "in_progress"
  BY <1>2, NotOver DEF Covering
<1>4. x.stop.pc = "none" /\ ~x.override
  BY <1>2 DEF Covering, Core, Halted
<1>5. /\ y.worker = x.worker /\ y.follow = x.follow /\ y.stop = x.stop /\ y.override = x.override
      /\ y.ended = x.ended /\ y.loop = x.loop /\ y.limits = x.limits /\ y.ops = x.ops
      /\ y.queue = x.queue
  BY DEF TakenUp, Beside, Fields
<1>6. /\ y.task.conflict = x.task.conflict /\ y.task.paused = x.task.paused
      /\ y.task.uncertain = x.task.uncertain /\ y.lease /\ y.task.status = "in_progress"
      /\ y.task.thread = x.task.thread
  BY <1>1, <1>3 DEF TakenUp, RowBut, TaskFields
<1>7. y = x \/ y.task.run = "running"
  BY DEF TakenUp
<1>8. y = x \/ (y.turn = n /\ Turned(y) = Turned(x) \cup {n} /\ LastRun(y).turn = n)
  BY DEF TakenUp
<1>9. Passed(x, n) => x.turn = n \/ n \in Turned(x)
  BY <1>1, <1>4 DEF Passed
<1>10. \A h \in Callers : y[h] = x[h] /\ (Called(y, d, h) <=> Called(x, c, h)) /\ ~Wants(y, d, h)
  BY <1>3, <1>5 DEF Callers, Called, Wants, Nobody
<1>11. y = x => Passed(x, n)
  BY <1>1 DEF TakenUp, Passed
<1> HIDE DEF n, k
<1>12. Leased(y, d, can)
  <2>1. x.task.run \in {"starting", "running"} \/ (Loses(can) /\ x.task.conflict)
    BY <1>2 DEF Covering, Core, Leased
  <2> QED BY <1>6, <1>7, <2>1 DEF Leased
<1>13. Eager(y, d, can)
  BY <1>3, <1>5, <1>10 DEF Eager, Callers, Nobody
<1>14. Halted(y, d, can)
  BY <1>4, <1>5 DEF Halted
<1>15. Watched(y, d)
  BY <1>2, <1>3, <1>5 DEF Covering, Core, Watched, n
<1>16. Heard(y, d, can)
  <2>1. CASE y = x
    <3>1. n \notin Turned(x) => "missed" \in can
      BY <1>1, <1>9, <1>11, <2>1 DEF Covering, Core, Heard, n
    <3> QED BY <1>2, <1>10, <2>1, <3>1 DEF Covering, Core, Heard, n
  <2>2. CASE y.turn = n /\ Turned(y) = Turned(x) \cup {n} /\ LastRun(y).turn = n
    <3>1. \A t \in Turned(x) : t <= n
      <4>1. LastRun(x).turn <= n /\ \A t \in Turned(x) : t <= LastRun(x).turn
        BY DEF Covering, Core, Heard, n
      <4>2. LastRun(x).turn \in Nat
        BY RunsOf DEF Based
      <4> QED BY <1>1, <4>1, <4>2
    <3>2. \A i \in 1..(n - 1) : i \in Turned(x)
      BY DEF Covering, Core, Heard, n
    <3> QED BY <1>1, <1>2, <2>2, <3>1, <3>2 DEF Heard, n
  <2> QED BY <1>8, <2>1, <2>2
<1>17. Entered(y, d, can)
  BY <1>2, <1>5, <1>6, <1>10 DEF Covering, Core, Entered, Asked, Tracked, n
<1>18. Certain(y, can)
  BY <1>5, <1>6, <1>10 DEF Covering, Core, Certain
<1>19. Ordinal(d)
  <2>1. ASSUME NEW i \in DOMAIN d.inbox
        PROVE  i + 1 \in 1..k /\ d.inbox[i] = c.inbox[i + 1] /\ (i + 1 = k => i = Len(d.inbox))
    BY <1>1, <2>1 DEF k
  <2> QED BY <1>1, <1>2, <2>1 DEF Covering, Core, Ordinal, k, n
<1>20. Waiting(y, can)
  <2>1. CASE y = x
    BY <2>1 DEF Covering, Core
  <2>2. CASE y.task.run = "running"
    BY <1>5, <1>6, <2>2 DEF Covering, Core, Waiting, Busy, Asking
  <2> QED BY <1>7, <2>1, <2>2
<1>21. Reads(y, d, can, sn)
  <2>1. Finds(y) <=> Finds(x)
    BY <1>5 DEF Finds
  <2>2. Turned(x) \subseteq Turned(y)
    BY <1>8
  <2> QED BY <1>2, <1>3, <1>5, <1>6, <1>10, <2>1, <2>2 DEF Covering, Reads, Listed, Matching, n, Nobody
<1>22. Plainly(y, d, can)
  BY <1>5 DEF Covering, Core, Plainly
<1> QED BY <1>12, <1>13, <1>14, <1>15, <1>16, <1>17, <1>18, <1>19, <1>20, <1>21, <1>22 DEF Covering, Core

\* The end of the latest turn is noticed, and nothing is left to notice.
LEMMA NotedCovers ==
  ASSUME NEW x, NEW c, NEW can, NEW sn, Based(x, c, can), Covering(x, c, can, sn), ~Over(c), ~Live(c),
         ~Announced(c), NEW d, d.turns = c.turns, d.calls = c.calls, d.inbox = <<>>,
         NEW y, Beside(x, y, {"ended"})
  PROVE  Covering(y, d, can, sn)
<1>1. Nobody(x, c) /\ x.stop.pc # "apply"
  BY NotOver DEF Covering
<1>2. Over(d) /\ ~Announced(d) /\ ~Live(d)
  BY DEF Over, Live, Announced
<1>3. /\ y.worker = x.worker /\ y.follow = x.follow /\ y.stop = x.stop /\ y.override = x.override
      /\ y.loop = x.loop /\ y.limits = x.limits /\ y.ops = x.ops /\ y.queue = x.queue
      /\ y.task = x.task /\ y.lease = x.lease /\ y.runs = x.runs /\ y.turn = x.turn
  BY DEF Beside, Fields
<1>4. \A h \in Callers : y[h] = x[h] /\ (Called(y, d, h) <=> Called(x, c, h)) /\ ~Wants(y, d, h)
  BY <1>1, <1>3 DEF Callers, Called, Wants, Nobody
<1>5. Turned(y) = Turned(x) /\ LastRun(y) = LastRun(x)
  BY <1>3 DEF Turned, LastRun
<1>6. Leased(y, d, can) /\ Watched(y, d)
  BY <1>2, <1>3 DEF Leased, Watched, Covering, Core
<1>7. Eager(y, d, can)
  BY <1>1, <1>3, <1>4 DEF Eager, Callers, Nobody
<1>8. Halted(y, d, can)
  BY <1>1, <1>2, <1>3 DEF Halted, Covering, Core, OnWay
<1>9. Heard(y, d, can)
  BY <1>3, <1>4, <1>5 DEF Heard, Covering, Core
<1>10. Entered(y, d, can) /\ Certain(y, can)
  BY <1>3, <1>4 DEF Entered, Asked, Tracked, Certain, Covering, Core
<1>11. Ordinal(d) /\ Plainly(y, d, can)
  BY <1>3 DEF Ordinal, Plainly, Covering, Core
<1>12. Waiting(y, can)
  <2>1. (Busy(y) <=> Busy(x)) /\ (Asking(y) <=> Asking(x)) /\ (OnWay(y) <=> OnWay(x))
    BY <1>3 DEF Busy, Asking, OnWay
  <2>2. Waiting(x, can)
    BY DEF Covering, Core
  <2> QED BY <1>3, <2>1, <2>2 DEF Waiting
<1>13. Reads(y, d, can, sn)
  <2>1. Finds(y) <=> Finds(x)
    BY <1>3 DEF Finds
  <2> QED BY <1>1, <1>2, <1>3, <1>4, <1>5, <2>1 DEF Covering, Reads, Listed, Matching, Nobody
<1> QED BY <1>6, <1>7, <1>8, <1>9, <1>10, <1>11, <1>12, <1>13 DEF Covering, Core

-----------------------------------------------------------------------------
(* The steps of Codex.                                                       *)

LEMMA Added ==
  ASSUME NEW S, NEW q \in Seq(S), NEW e, NEW r, r = Append(q, e)
  PROVE  /\ DOMAIN r = 1..(Len(q) + 1) /\ Len(r) = Len(q) + 1 /\ r # <<>>
         /\ \A i \in 1..Len(q) : r[i] = q[i]
         /\ r[Len(q) + 1] = e
<1>1. Len(q) \in Nat /\ DOMAIN q = 1..Len(q)
  OBVIOUS
<1>2. Len(r) = Len(q) + 1 /\ DOMAIN r = 1..(Len(q) + 1)
  BY <1>1
<1>3. r # <<>>
  BY <1>1, <1>2
<1> QED BY <1>1, <1>2, <1>3

LEMMA Dropped ==
  ASSUME NEW S, NEW q \in Seq(S), q # <<>>, NEW r, r = Tail(q)
  PROVE  /\ DOMAIN r = 1..(Len(q) - 1) /\ Len(r) = Len(q) - 1
         /\ \A i \in DOMAIN r : r[i] = q[i + 1]
         /\ Len(q) = 1 => r = <<>>
         /\ Head(q) = q[1] /\ 1 \in DOMAIN q /\ Head(q) \in S
<1>1. Len(q) \in Nat \ {0} /\ DOMAIN q = 1..Len(q)
  OBVIOUS
<1>2. r \in Seq(S) /\ DOMAIN r = 1..(Len(q) - 1) /\ Len(r) = Len(q) - 1 /\ \A i \in DOMAIN r : r[i] = q[i + 1]
  BY <1>1
<1>3. Len(q) = 1 => r = <<>>
  BY <1>2
<1> QED BY <1>1, <1>2, <1>3

\* In a scenario that Orderly admits, nothing the board does not know has started.
Grounds ==
  /\ IInv /\ GInv /\ IInv' /\ CanSame
  /\ Tidy(left.can) /\ AllOwn(codex) /\ AllOwn(codex')
  /\ Covering(s, codex, left.can, seen)
Covered == Covering(s', codex', left.can, seen')

LEMMA Grounded ==
  ASSUME Grounds
  PROVE  /\ Based(s, codex, left.can) /\ Covering(s, codex, left.can, seen)
         /\ Typed(s', Len(codex'.turns)) /\ Shown(codex')
         /\ Latest = Len(codex.turns) /\ Latest \in Nat
BY Facts DEF Grounds, Based, IInv, Good, Ordered, GInv, Latest

\* Unless the row is written, what the loop has seen is seen still.
LEMMA SeenLess ==
  ASSUME Unseen
  PROVE  "loop" \in seen' => "loop" \in seen
BY DEF Unseen

LEMMA CodexStartsCovered ==
  ASSUME Grounds, CodexStarts
  PROVE  Covered
<1> DEFINE c == codex
           d == codex'
           n == Len(codex.turns)
           can == left.can
<1>1. PICK h \in Callers :
        /\ s[h].pc = "turn" /\ codex.calls[h] = 0
        /\ codex' = [codex EXCEPT
             !.turns = Append(@, [prompt |-> s[h].prompt, state |-> "active"]),
             !.calls[h] = Latest + 1,
             !.inbox = Append(@, [turn |-> Latest + 1, what |-> "started"])]
  BY DEF CodexStarts, Callers
<1>2. s' = s /\ seen' = seen
  BY DEF CodexStarts
<1>3. Based(s, c, can) /\ Covering(s, c, can, seen) /\ Latest = n /\ n \in Nat
  BY Grounded
<1>4. /\ c.calls \in CallRec(n) /\ c.turns \in Seq(TurnRec) /\ c.inbox \in Seq(InboxRec(n))
      /\ DOMAIN c = {"threads", "trees", "turns", "calls", "late", "inbox"}
  BY <1>3 DEF Based, Shown, CodexRec
<1>5. Wants(s, c, h) /\ h \in Callers
  BY <1>1 DEF Wants
<1>6. c.inbox = <<>>
  BY <1>3, <1>5 DEF Covering, Core, Eager, Over
<1>7. /\ d.turns = Append(c.turns, [prompt |-> s[h].prompt, state |-> "active"])
      /\ d.calls = [c.calls EXCEPT ![h] = n + 1]
      /\ d.inbox = Append(c.inbox, [turn |-> n + 1, what |-> "started"])
  BY <1>1, <1>3, <1>4
<1>8. /\ d.calls[h] = n + 1 /\ \A g \in Callers : g # h => d.calls[g] = c.calls[g]
  <2>1. DOMAIN c.calls = {"worker", "follow"}
    BY <1>4 DEF CallRec
  <2> QED BY <1>7, <2>1 DEF Callers
<1> DEFINE e == [prompt |-> s[h].prompt, state |-> "active"]
           m == [turn |-> n + 1, what |-> "started"]
           r == d.turns
           b == d.inbox
<1>9. e.prompt = s[h].prompt /\ e.state = "active" /\ m.turn = n + 1 /\ m.what = "started"
  OBVIOUS
<1>10. r = Append(c.turns, e) /\ b = Append(c.inbox, m)
  BY <1>7
<1> HIDE DEF e, m, r, b, c, d, can
<1>11. /\ DOMAIN r = 1..(Len(c.turns) + 1) /\ Len(r) = Len(c.turns) + 1
       /\ \A i \in 1..Len(c.turns) : r[i] = c.turns[i]
       /\ r[Len(c.turns) + 1] = e
  BY <1>4, <1>10, Added
<1>12. /\ DOMAIN b = 1..(Len(c.inbox) + 1) /\ Len(b) = Len(c.inbox) + 1 /\ b # <<>>
       /\ b[Len(c.inbox) + 1] = m
  BY <1>4, <1>10, Added
<1>13. Len(c.inbox) = 0
  BY <1>6
<1>14. DOMAIN b = {1} /\ Len(b) = 1 /\ b[1] = m
  BY <1>12, <1>13
<1>15. Covering(s, d, can, seen)
  BY <1>3, <1>5, <1>8, <1>9, <1>11, <1>12, <1>14, StartCovers DEF b, r, c
<1> QED BY <1>2, <1>15 DEF Covered, d, can

\* What the loop has read stays good when a result is reported and nobody asks.
LEMMA ReportedReads ==
  ASSUME NEW x, NEW y, NEW c, NEW can, NEW sn, Reported(x, y, Len(c.turns)), Over(c), Nobody(x, c),
         Typed(x, Len(c.turns)), Len(c.turns) \in Nat,
         Turned(x) \subseteq Turned(y), Reads(x, c, can, sn),
         x.loop.pc = "recover" => x.loop.op \in 1..Len(x.ops)
  PROVE  Reads(y, c, can, sn)
<1>1. y.worker = x.worker /\ y.follow = x.follow /\ y.loop = x.loop
  BY DEF Reported, Beside, Fields
<1>2. y.queue.state # "pending" /\ OpsRecorded(x, y, Len(c.turns))
  BY DEF Reported
<1>3. DOMAIN y.ops = 1..Len(x.ops) /\ Len(y.ops) = Len(x.ops) /\ DOMAIN x.ops = 1..Len(x.ops) /\ Len(x.ops) \in Nat
  BY <1>2, OpsOf DEF OpsRecorded
<1>4. \A i \in 1..Len(x.ops) : y.ops[i].prompt = x.ops[i].prompt /\ y.ops[i].prev = x.ops[i].prev
  BY <1>2, <1>3 DEF OpsRecorded
<1>5. \A h \in Callers : y[h] = x[h] /\ ~Wants(y, c, h)
  BY <1>1 DEF Callers, Nobody, Wants
<1>6. Finds(y) => Finds(x)
  BY <1>1, <1>3, <1>4 DEF Finds
<1>7. Finds(x) => Len(x.ops) \in 1..Len(x.ops)
  BY <1>3 DEF Finds, Reads, Listed, Matching
<1> QED BY <1>1, <1>2, <1>3, <1>4, <1>5, <1>6, <1>7 DEF Reads, Listed, Matching, Nobody

\* The latest turn ends, and its end is to be noticed.
LEMMA MarkedCovers ==
  ASSUME NEW x, NEW c, NEW can, NEW sn, Based(x, c, can), Covering(x, c, can, sn), Live(c),
         NEW state \in {"completed", "failed", "interrupted"}, Loses(can) => state = "completed",
         NEW d, d = Marked(c, Len(c.turns), state)
  PROVE  Covering(x, d, can, sn) /\ ~Live(d) /\ ~Over(d) /\ d.calls = c.calls /\ (Announced(d) => Announced(c))
<1> DEFINE n == Len(c.turns)
           q == c.turns
           e == [q[n] EXCEPT !.state = state]
           m == [turn |-> n, what |-> "ended"]
           u == [q EXCEPT ![n] = e]
           b == Append(c.inbox, m)
<1>1. /\ DOMAIN c = {"threads", "trees", "turns", "calls", "late", "inbox"} /\ q \in Seq(TurnRec)
      /\ c.inbox \in Seq(InboxRec(n)) /\ n \in Nat /\ n # 0 /\ n = Len(q) /\ Len(c.inbox) \in Nat
      /\ DOMAIN c.inbox = 1..Len(c.inbox) /\ DOMAIN q = 1..n
  BY InboxOf DEF Based, Shown, CodexRec, Live
<1>2. d = [c EXCEPT !.turns = u, !.inbox = b]
  BY <1>1 DEF Marked
<1>3. d.turns = u /\ d.calls = c.calls /\ d.inbox = b
  BY <1>1, <1>2
<1>4. m.turn = n /\ m.what = "ended"
  OBVIOUS
<1>5. e \in TurnRec /\ e.state = state /\ e.prompt = q[n].prompt
  <2>1. q[n] \in TurnRec
    <3> HIDE DEF q, n
    <3>1. n \in 1..Len(q)
      BY <1>1
    <3> QED BY <1>1, <3>1
  <2> HIDE DEF q, n
  <2> QED BY <2>1 DEF TurnRec, TurnState
<1>6. b = Append(c.inbox, m)
  OBVIOUS
<1>7. SameBut(TurnRec, q, n, e, u)
  <2>1. u = [q EXCEPT ![n] = e]
    OBVIOUS
  <2> HIDE DEF q, e, u, n
  <2> QED BY <1>1, <1>5, <2>1, SeqExcept
<1> HIDE DEF u, b, m, e, q, n
<1>8. /\ Len(u) = n /\ DOMAIN u = DOMAIN q /\ u[n] = e
      /\ \A i \in 1..n : i # n => u[i] = q[i]
  <2>1. DOMAIN u = 1..Len(u)
    BY <1>7 DEF SameBut
  <2> QED BY <1>1, <1>7, <2>1 DEF SameBut
<1>9. /\ DOMAIN b = 1..(Len(c.inbox) + 1) /\ Len(b) = Len(c.inbox) + 1 /\ b # <<>>
      /\ \A i \in 1..Len(c.inbox) : b[i] = c.inbox[i]
      /\ b[Len(c.inbox) + 1] = m
  BY <1>1, <1>6, Added
<1>10. Covering(x, d, can, sn)
  BY <1>3, <1>4, <1>5, <1>8, <1>9, EndCovers DEF n, q
<1>11. ~Live(d)
  BY <1>3, <1>5, <1>8 DEF Live
<1>12. ~Over(d)
  BY <1>3, <1>9 DEF Over
<1>13. Announced(d) => Announced(c)
  <2>1. ASSUME NEW i \in DOMAIN d.inbox, d.inbox[i].what = "started"
        PROVE  i \in DOMAIN c.inbox /\ c.inbox[i].what = "started"
    BY <1>1, <1>3, <1>4, <1>9, <2>1
  <2> QED BY <2>1 DEF Announced
<1> QED BY <1>3, <1>10, <1>11, <1>12, <1>13

LEMMA CodexEndsCovered ==
  ASSUME Grounds, CodexEnds
  PROVE  Covered
<1>1. Based(s, codex, left.can) /\ Covering(s, codex, left.can, seen) /\ Latest = Len(codex.turns) /\ Latest \in Nat
  BY Grounded
<1>2. PICK state \in {"completed", "failed"} :
        codex' = Marked(codex, Latest, state) /\ (state = "failed" => May("refused"))
  <2>1. ~May("quota")
    BY <1>1, Single DEF May
  <2> QED BY <2>1 DEF CodexEnds, Marked
<1>3. Loses(left.can) => state = "completed"
  BY <1>1, <1>2 DEF Based, Tidy, Loses, May
<1>4. Live(codex)
  BY <1>1 DEF CodexEnds, Active, StateOf, Live
<1>5. s' = s /\ seen' = seen
  BY DEF CodexEnds
<1>6. Covering(s, codex', left.can, seen)
  BY <1>1, <1>2, <1>3, <1>4, MarkedCovers
<1> QED BY <1>5, <1>6 DEF Covered

LEMMA MissedCovered ==
  ASSUME Grounds, Missed
  PROVE  Covered
<1>1. Based(s, codex, left.can) /\ Covering(s, codex, left.can, seen) /\ Shown(codex)
  BY Grounded DEF Based
<1>2. /\ s' = s /\ seen' = seen /\ "missed" \in left.can /\ codex.inbox # <<>>
      /\ codex' = [codex EXCEPT !.inbox = Tail(@)]
  BY DEF Missed, May
<1>3. /\ DOMAIN codex = {"threads", "trees", "turns", "calls", "late", "inbox"}
      /\ codex.inbox \in Seq(InboxRec(Len(codex.turns)))
  BY <1>1 DEF Shown, CodexRec
<1>4. codex'.turns = codex.turns /\ codex'.calls = codex.calls /\ codex'.inbox = Tail(codex.inbox)
  BY <1>2, <1>3
<1>5. /\ DOMAIN codex'.inbox = 1..(Len(codex.inbox) - 1) /\ Len(codex'.inbox) = Len(codex.inbox) - 1
      /\ \A i \in DOMAIN codex'.inbox : codex'.inbox[i] = codex.inbox[i + 1]
  BY <1>2, <1>3, <1>4, Dropped
<1>6. Covering(s, codex', left.can, seen)
  BY <1>1, <1>2, <1>4, <1>5, MissedCovers
<1> QED BY <1>2, <1>6 DEF Covered

LEMMA NotifiedCovered ==
  ASSUME Grounds, Notified
  PROVE  Covered
<1> DEFINE c == codex
           d == codex'
           n == Len(c.turns)
           can == left.can
           m == Head(codex.inbox)
           e == [s EXCEPT !.ended = @ \cup {m.turn}]
           b == TRUE
           g == StateOf(m.turn)
           by == "notice"
           x == s
           y == s'
<1>1. /\ Based(x, c, can) /\ Covering(x, c, can, seen) /\ n \in Nat /\ Latest = n
      /\ Shown(c) /\ Typed(x, n)
  BY Grounded DEF Based
<1>2. /\ c.inbox # <<>> /\ d = [c EXCEPT !.inbox = Tail(@)] /\ Unseen /\ b \in BOOLEAN
      /\ y = IF m.what = "started" THEN Adopted(x, m.turn, b) ELSE Result(e, m.turn, g, b, by)
  BY DEF Notified
<1>3. /\ DOMAIN c = {"threads", "trees", "turns", "calls", "late", "inbox"} /\ c.inbox \in Seq(InboxRec(n))
  BY <1>1 DEF Shown, CodexRec
<1>4. d.turns = c.turns /\ d.calls = c.calls /\ d.inbox = Tail(c.inbox)
  BY <1>2, <1>3
<1>5. DOMAIN x = Fields /\ x \in States(n)
  BY <1>1 DEF Typed, States, Fields
<1>6. by \in {"worker", "loop", "notice"}
  OBVIOUS
<1>7. g = IF m.turn = 0 THEN "none" ELSE c.turns[m.turn].state
  BY DEF StateOf
<1> HIDE DEF b, g, by, n, m, c, d, can, x, y
<1>8. /\ DOMAIN d.inbox = 1..(Len(c.inbox) - 1) /\ Len(d.inbox) = Len(c.inbox) - 1
      /\ \A i \in DOMAIN d.inbox : d.inbox[i] = c.inbox[i + 1]
      /\ Len(c.inbox) = 1 => d.inbox = <<>>
      /\ m = c.inbox[1] /\ 1 \in DOMAIN c.inbox /\ m \in InboxRec(n)
  BY <1>2, <1>3, <1>4, Dropped DEF m, c
<1>9. /\ m.turn = n /\ n # 0 /\ n \in 0..n /\ m.what \in {"started", "ended"}
      /\ m.what = "ended" => Len(c.inbox) = 1 /\ ~Live(c)
  <2>1. m.turn \in 1..n /\ m.what \in {"started", "ended"}
    BY <1>8 DEF InboxRec
  <2>2. m.turn = n /\ (m.what = "ended" => 1 = Len(c.inbox) /\ ~Live(c))
    BY <1>1, <1>8 DEF Covering, Core, Ordinal, n
  <2> QED BY <1>1, <2>1, <2>2
<1>10. CASE m.what = "started"
  <2>1. Announced(c)
    BY <1>8, <1>10 DEF Announced
  <2>2. (y = x /\ Passed(x, n)) \/ TakenUp(x, y, n, TRUE)
    BY <1>1, <1>2, <1>9, <1>10, AdoptedIs DEF b
  <2>3. Covering(y, d, can, seen)
    BY <1>1, <1>2, <1>4, <1>8, <1>9, <2>1, <2>2, NoticedCovers DEF n
  <2> QED BY <1>2, <2>3, SeenCovers, SeenLess DEF Covered, y, d, can
<1>11. CASE m.what = "ended"
  <2>1. Beside(x, e, {"ended"})
    BY <1>5 DEF Beside, Fields, x
  <2>2. ~Over(c) /\ ~Live(c) /\ ~Announced(c) /\ d.inbox = <<>>
    BY <1>2, <1>3, <1>8, <1>9, <1>11 DEF Over, Announced
  <2>3. Typed(e, n)
    <3>1. e \in States(n)
      BY <1>5, <1>9 DEF States, x
    <3>2. Beside(x, e, Side)
      BY <2>1 DEF Beside, Side
    <3> QED BY <1>1, <3>1, <3>2, SideSane DEF Sane
  <2> HIDE DEF e
  <2>4. Covering(e, d, can, seen)
    BY <1>1, <1>4, <2>1, <2>2, NotedCovers
  <2>5. g # "quota" /\ g \in TurnState
    BY <1>1, <1>7, <1>9, TurnsOf DEF Covering, Core, Plainly, n
  <2>6. y = e \/ Reported(e, y, n)
    BY <1>2, <1>6, <1>9, <1>11, <2>3, <2>5, ResultIs
  <2>7. Over(d) /\ Nobody(e, d) /\ Len(d.turns) = n /\ Shown(d)
    <3>1. Nobody(x, c)
      BY <1>1, <2>2, NotOver DEF Covering
    <3>2. e.worker = x.worker /\ e.follow = x.follow
      BY <2>1 DEF Beside, Fields
    <3>3. Nobody(e, d)
      BY <1>4, <3>1, <3>2 DEF Nobody, Wants, Callers
    <3> QED BY <1>4, <2>2, <3>3, Grounded DEF Over, Live, n, d
  <2>8. ASSUME Reported(e, y, n)
        PROVE  Covering(y, d, can, seen)
    <3>1. Core(y, d, can) /\ Turned(e) \subseteq Turned(y)
      BY <1>9, <2>3, <2>4, <2>7, <2>8, ReportedCovers DEF Covering, Core, Nobody, Waiting
    <3>2. Reads(y, d, can, seen)
      <4>1. e.loop.pc = "recover" => e.loop.op \in 1..Len(e.ops)
        BY <1>1, <2>1, Single DEF AllFiled, Beside, Fields
      <4> QED BY <1>1, <2>3, <2>4, <2>7, <2>8, <3>1, <4>1, ReportedReads DEF Covering
    <3> QED BY <3>1, <3>2 DEF Covering
  <2>9. Covering(y, d, can, seen)
    BY <2>4, <2>6, <2>8
  <2> QED BY <1>2, <2>9, SeenCovers, SeenLess DEF Covered, y, d, can
<1> QED BY <1>9, <1>10, <1>11

-----------------------------------------------------------------------------
(* The worker's way to its start.                                            *)

\* When Codex is over and no answer is under way, every turn has a run.
LEMMA AllHeard ==
  ASSUME NEW x, NEW c, NEW can, Heard(x, c, can), Over(c), Tidy(can), \A h \in Callers : ~Called(x, c, h),
         Len(c.turns) # 0
  PROVE  Len(c.turns) \in Turned(x)
<1>1. ~Announced(c)
  BY DEF Over, Announced
<1>2. ASSUME Len(c.turns) \notin Turned(x)
      PROVE  "missed" \in can /\ Loses(can)
  BY <1>1, <1>2 DEF Heard
<1> QED BY <1>2 DEF Tidy, Loses

LEMMA KeptHeard ==
  ASSUME NEW x, NEW y, NEW c, NEW can, Typed(x, Len(c.turns)), Len(c.turns) \in Nat,
         Heard(x, c, can), RunsKept(x, y), y.turn \in {0, x.turn},
         Len(c.turns) # 0 /\ Len(c.turns) \notin Turned(x) =>
           Loses(can) \/ \E h \in Callers : Called(y, c, h)
  PROVE  Heard(y, c, can) /\ Turned(x) \subseteq Turned(y)
<1> DEFINE n == Len(c.turns)
<1>1. n \in Nat /\ x.turn \in 0..n
  BY Shape
<1> HIDE DEF n
<1>2. CASE Turned(y) = Turned(x) /\ LastRun(y).turn = LastRun(x).turn
  BY <1>1, <1>2 DEF Heard, n
<1>3. CASE x.runs = <<>> /\ Turned(y) = {x.turn} /\ LastRun(y).turn = x.turn
  <2>1. Turned(x) = {}
    BY <1>3, RunsOf
  <2>2. \A i \in 1..(n - 1) : FALSE
    BY <2>1 DEF Heard, n
  <2>3. LastRun(y).turn <= n /\ \A t \in Turned(y) : t <= LastRun(y).turn
    BY <1>1, <1>3
  <2>4. x.turn \in {0, n}
    <3>1. x.turn = 0 \/ x.turn = n
      <4>1. n <= 1
        <5>1. n > 1 => 1 \in 1..(n - 1)
          BY <1>1
        <5> QED BY <1>1, <2>2, <5>1
      <4> QED BY <1>1, <4>1
    <3> QED BY <3>1
  <2>5. n \notin Turned(y) => n \notin Turned(x)
    BY <2>1
  <2> QED BY <1>3, <2>1, <2>2, <2>3, <2>4, <2>5 DEF Heard, n
<1> QED BY <1>2, <1>3 DEF RunsKept

\* Matching, but for who asks.
Fitting(x, c, can) ==
  Finds(x) =>
    /\ x.loop.op = Len(x.ops) /\ x.loop.latest = Len(c.turns)
    /\ c.turns[Len(c.turns)].prompt = x.ops[Len(x.ops)].prompt
    /\ x.loop.state # "active" => Over(c)
    /\ "missed" \notin can => Len(c.turns) \in Turned(x)
    /\ x.queue.state = "pending" /\ ~x.lease => Loses(can) /\ x.loop.state # "active"

\* A worker gives up, or ends on what it has read.
LEMMA FailedCovers ==
  ASSUME NEW x, NEW c, NEW can, NEW sn, Shown(c), Typed(x, Len(c.turns)), Tidy(can),
         x.worker.pc \in Before \cup {"turn"}, x.follow.pc = "none", x.stop.pc = "none", ~x.override,
         c.calls.worker = 0, c.calls.follow = 0,
         NEW lost \in BOOLEAN, lost => Loses(can), Over(c) \/ lost,
         ~Loses(can) => x.lease /\ ~x.task.conflict /\ x.task.status = "in_progress",
         Leased(x, c, can), Watched(x, c), Heard(x, c, can), Tracked(x, c), Ordinal(c), Waiting(x, can),
         Plainly(x, c, can), Fitting(x, c, can),
         x.loop.pc = "sync" /\ x.loop.latest = Len(c.turns) /\ x.loop.state # "active" => Over(c),
         x.loop.pc = "sync" /\ "loop" \in sn => Over(c),
         \A i \in DOMAIN x.ops : x.ops[i].state = "uncertain" => i = Len(x.ops),
         x.task.uncertain # 0 => x.task.uncertain = Len(x.ops) /\ x.ops[Len(x.ops)].state = "uncertain",
         ~Loses(can) => x.task.uncertain = 0 /\ \A i \in DOMAIN x.ops : x.ops[i].state # "uncertain",
         NEW y, y = Ended(FailedWith(x, lost))
  PROVE  Covering(y, c, can, sn)
<1> DEFINE n == Len(c.turns)
           z == FailedWith(x, lost)
<1>1. n \in Nat /\ Typed(x, n) /\ DOMAIN x.ops = 1..Len(x.ops) /\ Len(x.ops) \in Nat /\ x.loop.latest \in 0..n
  BY InboxOf, OpsOf, Shape
<1>2. Typed(z, n)
  BY <1>1, FailedWithSane DEF Sane
<1> HIDE DEF n, z
<1>3. /\ Mild(x, z) /\ (~Open(x) => z = x)
      /\ Open(x) => /\ Beside(x, z, {"task", "queue", "lease", "runs"}) /\ RunsKept(x, z)
                    /\ RowBut(x.task, z.task, {"run", "conflict", "observe"})
                    /\ z.task.run = "failed"
                    /\ z.task.conflict = (x.task.conflict \/ lost \/ x.turn # 0)
                    /\ z.lease = (x.lease /\ (lost \/ x.turn # 0)) /\ z.queue.state # "pending"
  BY <1>1, FailedWithIs DEF z
<1>4. /\ z.stop = x.stop /\ z.override = x.override /\ z.ended = x.ended /\ z.loop = x.loop
      /\ z.limits = x.limits /\ z.follow = x.follow /\ z.worker = x.worker /\ z.ops = x.ops
      /\ z.turn = x.turn
  BY <1>3 DEF Beside, Fields
<1>5. Beside(z, y, {"worker", "starting"}) /\ y.worker = NoWorker
  BY <1>2, EndedIs DEF z
<1>6. /\ y.stop = x.stop /\ y.override = x.override /\ y.ended = x.ended /\ y.loop = x.loop
      /\ y.limits = x.limits /\ y.follow = x.follow /\ y.ops = x.ops /\ y.turn = x.turn
      /\ y.worker.pc = "none" /\ y.worker.turn = 0
      /\ y.task = z.task /\ y.lease = z.lease /\ y.queue = z.queue /\ y.runs = z.runs
  BY <1>4, <1>5 DEF Beside, Fields, NoWorker
<1>7. z = x \/ (Open(x) /\ RunsKept(x, z))
  BY <1>3
<1>8. /\ y.task.uncertain = x.task.uncertain /\ y.task.paused = x.task.paused
      /\ y.task.status = x.task.status /\ y.task.thread = x.task.thread
      /\ x.task.conflict => y.task.conflict
  BY <1>3, <1>6, <1>7 DEF RowBut, TaskFields
<1>9. /\ y.lease => x.lease
      /\ lost \/ x.turn # 0 => y.lease = x.lease
      /\ y.queue.state = "pending" => z = x
      /\ z = x \/ (y.task.run = "failed" /\ y.task.conflict = (x.task.conflict \/ lost \/ x.turn # 0))
  BY <1>3, <1>6, <1>7, Shape, <1>1
<1>10. \A h \in Callers : y[h].pc = "none" /\ c.calls[h] = 0 /\ ~Wants(y, c, h)
  BY <1>6 DEF Callers, Wants
<1>11. Open(x) <=> x.task.status = "in_progress"
  BY DEF Open
<1>12. n # 0 /\ n \notin Turned(x) => Loses(can)
  <2>1. ASSUME n # 0, n \notin Turned(x), ~Loses(can)
        PROVE  FALSE
    <3>1. Over(c) /\ \A h \in Callers : ~Called(x, c, h)
      BY <1>10, <2>1 DEF Called, n
    <3> QED BY <2>1, <3>1, AllHeard DEF n
  <2> QED BY <2>1
<1>13. Heard(z, c, can) /\ Turned(x) \subseteq Turned(z)
  <2>1. CASE z = x
    BY <2>1
  <2>2. CASE RunsKept(x, z)
    BY <1>1, <1>4, <1>12, <2>2, KeptHeard DEF n
  <2> QED BY <1>7, <2>1, <2>2
<1>14. Turned(y) = Turned(z) /\ LastRun(y) = LastRun(z)
  BY <1>6 DEF Turned, LastRun
<1>15. Leased(y, c, can)
  <2>1. CASE Over(c)
    BY <2>1 DEF Leased
  <2>2. CASE ~Over(c)
    <3>1. lost /\ Loses(can) /\ x.lease /\ x.task.status = "in_progress"
      BY <2>2 DEF Leased
    <3>2. y.lease /\ y.task.conflict
      BY <1>3, <1>6, <1>11, <3>1
    <3> QED BY <1>8, <3>1, <3>2 DEF Leased
  <2> QED BY <2>1, <2>2
<1>16. Eager(y, c, can) /\ Halted(y, c, can) /\ Watched(y, c)
  BY <1>6, <1>10 DEF Eager, Halted, Watched, Callers, Before
<1>17. Heard(y, c, can)
  <2>1. \A h \in Callers : ~(Called(z, c, h) /\ n # 0)
    BY <1>10 DEF Called, n
  <2> QED BY <1>4, <1>6, <1>13, <1>14, <2>1 DEF Heard, n
<1>18. Entered(y, c, can) /\ Certain(y, can)
  BY <1>6, <1>8, <1>10 DEF Entered, Asked, Tracked, Certain
<1>19. Waiting(y, can)
  <2>1. y.task.paused => y.queue.state # "pending" /\ ~Loses(can)
    BY <1>6, <1>8, <1>9 DEF Waiting
  <2>2. y.queue.state = "pending" => Busy(y) \/ y.task.conflict
    BY <1>6, <1>9 DEF Waiting, Busy
  <2>3. y.task.conflict /\ ~Loses(can) => y.lease
    BY <1>3, <1>6, <1>11
  <2>4. y.task.status \in {"todo", "canceled"} => ~OnWay(y) /\ y.follow.pc = "none"
    BY <1>6 DEF OnWay, Before
  <2>5. Asking(y) => y.lease /\ (Loses(can) \/ ~y.task.conflict)
    BY <1>3, <1>6, <1>8, <1>11 DEF Asking
  <2> QED BY <1>6, <2>1, <2>2, <2>3, <2>4, <2>5 DEF Waiting
<1>20. Listed(y, c, sn)
  <2>1. ASSUME x.loop.pc = "sync", x.loop.latest # n, "loop" \in sn
        PROVE  n \in Turned(y)
    <3>1. Over(c) /\ n # 0
      BY <1>1, <2>1 DEF n
    <3>2. \A h \in Callers : ~Called(x, c, h)
      BY <1>10, <3>1 DEF Called, n
    <3> QED BY <1>13, <1>14, <3>1, <3>2, AllHeard DEF n
  <2> QED BY <1>6, <2>1 DEF Listed, n
<1>21. Matching(y, c, can)
  <2>1. Finds(y) <=> Finds(x)
    BY <1>6 DEF Finds
  <2>2. y.queue.state = "pending" => x.queue.state = "pending" /\ y.lease = x.lease
    BY <1>6, <1>9
  <2> QED BY <1>6, <1>10, <1>13, <1>14, <2>1, <2>2 DEF Matching, Fitting, Before
<1>22. Plainly(y, c, can)
  BY <1>6 DEF Plainly
<1> QED BY <1>15, <1>16, <1>17, <1>18, <1>19, <1>20, <1>21, <1>22 DEF Covering, Core, Reads

\* A worker is on its way to its start, alone.
Approaching(x, c, can, sn) ==
  /\ Covering(x, c, can, sn) /\ Shown(c) /\ Typed(x, Len(c.turns)) /\ Tidy(can)
  /\ x.worker.pc \in Before /\ x.follow.pc = "none"

LEMMA Approached ==
  ASSUME NEW x, NEW c, NEW can, NEW sn, Based(x, c, can), Covering(x, c, can, sn), x.worker.pc \in Before
  PROVE  Approaching(x, c, can, sn)
BY Single DEF Approaching, Based, OnWay

LEMMA ApproachIs ==
  ASSUME NEW x, NEW c, NEW can, NEW sn, Approaching(x, c, can, sn)
  PROVE  /\ Over(c) /\ (Held(x) \/ (Loses(can) /\ x.task.status # "in_progress"))
         /\ Loses(can) \/ ~x.task.conflict
         /\ x.stop.pc = "none" /\ ~x.override /\ c.calls.worker = 0 /\ c.calls.follow = 0
         /\ ~Loses(can) => x.task.uncertain = 0 /\ \A i \in DOMAIN x.ops : x.ops[i].state # "uncertain"
         /\ Len(c.turns) # 0 => Len(c.turns) \in Turned(x)
         /\ Len(c.turns) \in Nat /\ x.loop.latest \in 0..Len(c.turns)
         /\ \A h \in Callers : x[h].pc # "turn"
<1>1. /\ Over(c) /\ (Held(x) \/ (Loses(can) /\ x.task.status # "in_progress"))
      /\ Loses(can) \/ ~x.task.conflict
  BY DEF Approaching, Covering, Core, Eager
<1>2. x.stop.pc = "none" /\ ~x.override
  BY DEF Approaching, Covering, Core, Halted, OnWay
<1>3. \A h \in Callers : x[h].pc # "turn"
  BY DEF Approaching, Callers, Before
<1>4. c.calls.worker = 0 /\ c.calls.follow = 0
  BY <1>3 DEF Approaching, Covering, Core, Entered, Asked, Callers
<1>5. ~Loses(can) => x.task.uncertain = 0 /\ \A i \in DOMAIN x.ops : x.ops[i].state # "uncertain"
  BY <1>3 DEF Approaching, Covering, Core, Certain
<1>6. Len(c.turns) \in Nat /\ x.loop.latest \in 0..Len(c.turns)
  BY InboxOf, Shape DEF Approaching
<1>7. Len(c.turns) # 0 => Len(c.turns) \in Turned(x)
  BY <1>1, <1>3, AllHeard DEF Approaching, Covering, Core, Called
<1> QED BY <1>1, <1>2, <1>3, <1>4, <1>5, <1>6, <1>7

LEMMA FailApproach ==
  ASSUME NEW x, NEW c, NEW can, NEW sn, Approaching(x, c, can, sn),
         NEW lost \in BOOLEAN, lost => Loses(can), NEW y, y = Ended(FailedWith(x, lost))
  PROVE  Covering(y, c, can, sn)
<1>1. /\ Over(c) /\ x.stop.pc = "none" /\ ~x.override /\ c.calls.worker = 0 /\ c.calls.follow = 0
      /\ ~Loses(can) => x.lease /\ ~x.task.conflict /\ x.task.status = "in_progress"
      /\ ~Loses(can) => x.task.uncertain = 0 /\ \A i \in DOMAIN x.ops : x.ops[i].state # "uncertain"
  BY ApproachIs DEF Held, Going
<1>2. /\ \A i \in DOMAIN x.ops : x.ops[i].state = "uncertain" => i = Len(x.ops)
      /\ x.task.uncertain # 0 => x.task.uncertain = Len(x.ops) /\ x.ops[Len(x.ops)].state = "uncertain"
  BY DEF Approaching, Covering, Core, Certain
<1>3. /\ Leased(x, c, can) /\ Watched(x, c) /\ Heard(x, c, can) /\ Tracked(x, c) /\ Ordinal(c)
      /\ Waiting(x, can) /\ Plainly(x, c, can) /\ Fitting(x, c, can)
      /\ Shown(c) /\ Typed(x, Len(c.turns)) /\ Tidy(can) /\ x.worker.pc \in Before \cup {"turn"}
      /\ x.follow.pc = "none"
  BY DEF Approaching, Covering, Core, Entered, Reads, Matching, Fitting
<1> QED BY <1>1, <1>2, <1>3, FailedCovers

\* Only the worker and its mark, the tree, the thread and the run are written.
LEMMA WayCovers ==
  ASSUME NEW x, NEW c, NEW can, NEW sn, Approaching(x, c, can, sn),
         NEW y, Beside(x, y, {"worker", "starting", "task", "treeOp", "threadOp"}),
         RowBut(x.task, y.task, {"run", "thread", "tree"}), x.task.thread => y.task.thread,
         y.task.run = x.task.run \/ (y.task.run = "running" /\ x.task.status = "in_progress"),
         y.worker.pc \in Before \cup {"none"}
  PROVE  Covering(y, c, can, sn)
<1> DEFINE n == Len(c.turns)
<1>1. /\ y.follow = x.follow /\ y.stop = x.stop /\ y.override = x.override
      /\ y.ended = x.ended /\ y.loop = x.loop /\ y.limits = x.limits /\ y.ops = x.ops
      /\ y.queue = x.queue /\ y.lease = x.lease /\ y.runs = x.runs /\ y.turn = x.turn
  BY DEF Beside, Fields
<1>2. /\ y.task.status = x.task.status /\ y.task.conflict = x.task.conflict
      /\ y.task.paused = x.task.paused /\ y.task.uncertain = x.task.uncertain
  BY DEF RowBut, TaskFields
<1>3. /\ Over(c) /\ (Held(x) \/ (Loses(can) /\ x.task.status # "in_progress"))
      /\ Loses(can) \/ ~x.task.conflict
      /\ x.stop.pc = "none" /\ ~x.override /\ c.calls.worker = 0 /\ c.calls.follow = 0
      /\ n # 0 => n \in Turned(x)
      /\ n \in Nat /\ x.loop.latest \in 0..n
      /\ \A h \in Callers : x[h].pc # "turn"
  BY ApproachIs
<1>4. x.follow.pc = "none" /\ x.worker.pc \in Before /\ Covering(x, c, can, sn)
  BY DEF Approaching
<1>5. \A h \in Callers : y[h].pc # "turn" /\ c.calls[h] = 0
  BY <1>1, <1>3 DEF Callers, Before
<1>6. Turned(y) = Turned(x) /\ LastRun(y) = LastRun(x)
  BY <1>1 DEF Turned, LastRun
<1>7. (Held(x) => Held(y)) /\ (Busy(x) => Busy(y))
  BY <1>1, <1>2 DEF Held, Going, Busy
<1> HIDE DEF n
<1>8. Leased(y, c, can)
  BY <1>3 DEF Leased
<1>9. Eager(y, c, can)
  BY <1>1, <1>2, <1>3, <1>4, <1>5, <1>7 DEF Eager, Wants, Callers
<1>10. Halted(y, c, can)
  BY <1>1, <1>3 DEF Halted
<1>11. Watched(y, c)
  BY <1>1, <1>3 DEF Watched, Before
<1>12. Heard(y, c, can)
  BY <1>1, <1>3, <1>4, <1>6 DEF Heard, Covering, Core, n
<1>13. Entered(y, c, can) /\ Certain(y, can)
  BY <1>1, <1>2, <1>3, <1>4, <1>5 DEF Entered, Asked, Tracked, Certain, Covering, Core
<1>14. Waiting(y, can)
  <2>1. Asking(y) => Asking(x)
    BY <1>2 DEF Asking
  <2>2. x.task.status \notin {"todo", "canceled"}
    BY <1>4 DEF Covering, Core, Waiting, OnWay
  <2>3. Waiting(x, can)
    BY <1>4 DEF Covering, Core
  <2> QED BY <1>1, <1>2, <1>7, <2>1, <2>2, <2>3 DEF Waiting
<1>15. Listed(y, c, sn)
  BY <1>1, <1>3, <1>6 DEF Listed, n
<1>16. Matching(y, c, can)
  <2>1. Finds(y) <=> Finds(x)
    BY <1>1 DEF Finds
  <2> QED BY <1>1, <1>4, <1>5, <1>6, <2>1 DEF Matching, Covering, Reads, Wants
<1>17. Plainly(y, c, can) /\ Ordinal(c)
  BY <1>1, <1>4 DEF Plainly, Covering, Core, Before
<1> QED BY <1>8, <1>9, <1>10, <1>11, <1>12, <1>13, <1>14, <1>15, <1>16, <1>17 DEF Covering, Core, Reads

LEMMA EndApproach ==
  ASSUME NEW x, NEW c, NEW can, NEW sn, Approaching(x, c, can, sn), NEW y, y = Ended(x)
  PROVE  Covering(y, c, can, sn)
<1>1. Beside(x, y, {"worker", "starting"}) /\ y.worker.pc = "none"
  BY EndedIs DEF Approaching, NoWorker
<1>2. y.task = x.task /\ Beside(x, y, {"worker", "starting", "task", "treeOp", "threadOp"})
  BY <1>1 DEF Beside, Fields
<1> QED BY <1>1, <1>2, WayCovers DEF RowBut

\* The row and the records of creations are written, and the worker is on its way still.
LEMMA PlacedApproach ==
  ASSUME NEW x, NEW c, NEW can, NEW sn, Approaching(x, c, can, sn),
         NEW y, Beside(x, y, {"task", "treeOp", "threadOp"}), Typed(y, Len(c.turns)),
         RowBut(x.task, y.task, {"run", "thread", "tree"}), x.task.thread => y.task.thread,
         y.task.run = x.task.run \/ (y.task.run = "running" /\ x.task.status = "in_progress")
  PROVE  Approaching(y, c, can, sn)
<1>1. y.worker = x.worker /\ y.follow = x.follow
      /\ Beside(x, y, {"worker", "starting", "task", "treeOp", "threadOp"})
  BY DEF Beside, Fields
<1>2. Covering(y, c, can, sn)
  BY <1>1, WayCovers DEF Approaching
<1> QED BY <1>1, <1>2 DEF Approaching

LEMMA GoneCovers ==
  ASSUME NEW x, NEW c, NEW can, NEW sn, Approaching(x, c, can, sn), NEW pc \in Before, NEW y, y = Go(x, pc)
  PROVE  Covering(y, c, can, sn)
<1>1. Beside(x, y, {"worker"}) /\ y.worker.pc = pc
  BY InboxOf, GoneTame DEF Approaching
<1>2. y.task = x.task /\ Beside(x, y, {"worker", "starting", "task", "treeOp", "threadOp"})
  BY <1>1 DEF Beside, Fields
<1> QED BY <1>1, <1>2, WayCovers DEF RowBut

LEMMA TowardsCovers ==
  ASSUME NEW x, NEW c, NEW can, NEW sn, Approaching(x, c, can, sn), NEW y, y = TowardsThread(x)
  PROVE  Covering(y, c, can, sn)
<1> DEFINE n == Len(c.turns)
           a == [x EXCEPT !.threadOp = "asked"]
           f == [x EXCEPT !.threadOp = "flagged"]
           u == FALSE
<1>1. n \in Nat /\ Typed(x, n) /\ DOMAIN x = Fields
  BY InboxOf DEF Approaching, Typed, States, Fields
<1>2. /\ Typed(a, n) /\ Beside(x, a, {"threadOp"}) /\ Typed(f, n) /\ Beside(x, f, {"threadOp"})
  BY <1>1 DEF Typed, States, Creation, Beside, Fields
<1>3. \/ y = Ended(x) \/ y = Go(x, "resume") \/ y = Go(x, "thread") \/ y = Go(a, "thread")
      \/ y = Ended(FailedWith(f, u))
  BY DEF TowardsThread
<1> HIDE DEF a, f
<1>4. ASSUME NEW z, Typed(z, n), Beside(x, z, {"threadOp"})
      PROVE  Approaching(z, c, can, sn)
  <2>1. z.task = x.task /\ Beside(x, z, {"task", "treeOp", "threadOp"})
    BY <1>4 DEF Beside, Fields
  <2> QED BY <1>4, <2>1, PlacedApproach DEF RowBut
<1>5. "resume" \in Before /\ "thread" \in Before /\ u \in BOOLEAN /\ ~u
  BY DEF Before
<1> HIDE DEF u
<1>6. Approaching(a, c, can, sn) /\ Approaching(f, c, can, sn)
  BY <1>2, <1>4
<1> QED BY <1>3, <1>5, <1>6, EndApproach, GoneCovers, FailApproach

LEMMA ReadiedCovers ==
  ASSUME NEW x, NEW c, NEW can, NEW sn, Approaching(x, c, can, sn), NEW y, y = Readied(x)
  PROVE  Covering(y, c, can, sn)
<1> DEFINE n == Len(c.turns)
           k == [x.task EXCEPT !.run = "running"]
           z == [x EXCEPT !.task = k]
<1>1. n \in Nat /\ Typed(x, n) /\ DOMAIN x = Fields
  BY InboxOf DEF Approaching, Typed, States, Fields
<1>2. x.task \in TaskRec /\ x.treeOp \in Creation /\ x.threadOp \in Creation
  BY <1>1 DEF Typed, States
<1>3. y = Ended(x) \/ (y = Go(z, "options") /\ x.task.status = "in_progress")
  BY <1>1 DEF Readied
<1>4. /\ k \in TaskRec /\ k.uncertain = x.task.uncertain /\ k.paused = x.task.paused
      /\ RowBut(x.task, k, {"run", "thread", "tree"}) /\ k.thread = x.task.thread /\ k.run = "running"
  BY <1>2 DEF TaskRec, RowBut, TaskFields
<1>5. z = Placed(x, k, x.treeOp, x.threadOp)
  BY <1>1 DEF Fields, Typed, States, Placed
<1>6. Beside(x, z, {"task"}) /\ z.task = k
  BY <1>1 DEF Beside, Fields
<1> HIDE DEF k, z
<1>7. Typed(z, n)
  BY <1>1, <1>2, <1>4, <1>5, PlacedTyped
<1>8. CASE y = Ended(x)
  BY <1>8, EndApproach
<1>9. CASE y = Go(z, "options") /\ x.task.status = "in_progress"
  <2>1. Beside(x, z, {"task", "treeOp", "threadOp"})
    BY <1>6 DEF Beside
  <2>2. Approaching(z, c, can, sn)
    BY <1>4, <1>6, <1>7, <1>9, <2>1, PlacedApproach
  <2>3. "options" \in Before
    BY DEF Before
  <2> QED BY <1>9, <2>2, <2>3, GoneCovers
<1> QED BY <1>3, <1>8, <1>9

\* Codex shows the same turns.
LEMMA ShownCovers ==
  ASSUME NEW x, NEW c, NEW d, NEW can, NEW sn, Covering(x, c, can, sn),
         d.turns = c.turns, d.inbox = c.inbox, d.calls = c.calls
  PROVE  Covering(x, d, can, sn)
<1>1. /\ Over(d) <=> Over(c)
      /\ Live(d) <=> Live(c)
      /\ Announced(d) <=> Announced(c)
      /\ \A h \in Callers : (Wants(x, d, h) <=> Wants(x, c, h)) /\ (Called(x, d, h) <=> Called(x, c, h))
  BY DEF Over, Live, Announced, Wants, Called
<1>2. Leased(x, d, can) /\ Halted(x, d, can) /\ Watched(x, d)
  BY <1>1 DEF Leased, Halted, Watched, Covering, Core
<1>3. Eager(x, d, can)
  BY <1>1 DEF Eager, Covering, Core, Callers
<1>4. Heard(x, d, can)
  BY <1>1 DEF Heard, Covering, Core
<1>5. Entered(x, d, can)
  BY DEF Entered, Asked, Tracked, Covering, Core
<1>6. Ordinal(d) /\ Plainly(x, d, can)
  BY <1>1 DEF Ordinal, Plainly, Covering, Core
<1>7. Reads(x, d, can, sn)
  BY <1>1 DEF Reads, Listed, Matching, Covering
<1> QED BY <1>2, <1>3, <1>4, <1>5, <1>6, <1>7 DEF Covering, Core

\* Of Codex only what has been created changes.
LEMMA SameCovered ==
  ASSUME Covering(s', codex, left.can, seen), Unseen,
         codex'.turns = codex.turns, codex'.inbox = codex.inbox, codex'.calls = codex.calls
  PROVE  Covered
<1>1. Covering(s', codex', left.can, seen)
  BY ShownCovers
<1> QED BY <1>1, SeenCovers, SeenLess DEF Covered

LEMMA BeginCovered ==
  ASSUME Grounds, Begin
  PROVE  Covered
<1> DEFINE n == Len(codex.turns)
           m == [s EXCEPT !.task.tree = TRUE]
           a == [s EXCEPT !.treeOp = "asked"]
           f == [s EXCEPT !.treeOp = "flagged"]
           u == FALSE
           P(z) == Approaching(z, codex, left.can, seen)
<1>1. n \in Nat /\ Typed(s, n) /\ DOMAIN s = Fields /\ s.task \in TaskRec
  BY Grounded DEF Based, Typed, States, Fields
<1>2. codex' = codex /\ Unseen /\ s.worker.pc = "begin"
  BY DEF Begin, At
<1>3. /\ Typed(a, n) /\ Beside(s, a, {"treeOp"}) /\ Typed(f, n) /\ Beside(s, f, {"treeOp"})
  BY <1>1 DEF Typed, States, Creation, Beside, Fields
<1>4. Typed(m, n) /\ Beside(s, m, {"task"}) /\ RowBut(s.task, m.task, {"tree"})
  <2> DEFINE k == [s.task EXCEPT !.tree = TRUE]
  <2>1. k \in TaskRec /\ k.uncertain = s.task.uncertain /\ RowBut(s.task, k, {"tree"})
    BY <1>1 DEF TaskRec, RowBut, TaskFields
  <2>2. m = [s EXCEPT !.task = k]
    BY <1>1
  <2> HIDE DEF k
  <2> QED BY <1>1, <2>1, <2>2 DEF Typed, States, Beside, Fields
<1>5. \/ s' = Ended(s) \/ s' = TowardsThread(s) \/ s' = Go(s, "tree") \/ s' = TowardsThread(m)
      \/ s' = Go(a, "tree") \/ s' = Ended(FailedWith(f, u))
  BY DEF Begin
<1>6. u \in BOOLEAN /\ ~u /\ "tree" \in Before
  BY DEF Before
<1> HIDE DEF n, m, a, f, u
<1>7. P(s)
  BY <1>2, Grounded, Approached DEF Before
<1>8. P(m)
  <2>1. /\ Beside(s, m, {"task", "treeOp", "threadOp"}) /\ RowBut(s.task, m.task, {"run", "thread", "tree"})
        /\ m.task.thread = s.task.thread /\ m.task.run = s.task.run
    BY <1>4 DEF Beside, RowBut, TaskFields
  <2> QED BY <1>4, <1>7, <2>1, PlacedApproach DEF n
<1>9. ASSUME NEW z, Typed(z, n), Beside(s, z, {"treeOp"})
      PROVE  P(z)
  <2>1. z.task = s.task /\ Beside(s, z, {"task", "treeOp", "threadOp"})
    BY <1>9 DEF Beside, Fields
  <2> QED BY <1>7, <1>9, <2>1, PlacedApproach DEF RowBut, n
<1>10. P(a) /\ P(f)
  BY <1>3, <1>9
<1>11. Covering(s', codex, left.can, seen)
  BY <1>5, <1>6, <1>7, <1>8, <1>10, EndApproach, TowardsCovers, GoneCovers, FailApproach
<1> QED BY <1>2, <1>11, SameCovered

\* The row and the records are written as the worker goes on.
LEMMA PlacedWay ==
  ASSUME Grounds, s.worker.pc \in Before, NEW k \in TaskRec, RowBut(s.task, k, {"thread", "tree"}),
         s.task.thread => k.thread, NEW t \in Creation, NEW u \in Creation,
         NEW z, z = Placed(s, k, t, u)
  PROVE  Approaching(z, codex, left.can, seen)
<1>1. Len(codex.turns) \in Nat /\ Typed(s, Len(codex.turns)) /\ DOMAIN s = Fields
  BY Grounded DEF Based, Typed, States, Fields
<1>2. Approaching(s, codex, left.can, seen)
  BY Grounded, Approached
<1>3. /\ k.uncertain = s.task.uncertain /\ k.paused = s.task.paused /\ k.run = s.task.run
      /\ RowBut(s.task, k, {"run", "thread", "tree"})
  BY DEF RowBut, TaskFields
<1>4. Typed(z, Len(codex.turns))
  BY <1>1, <1>3, PlacedTyped
<1>5. Beside(s, z, {"task", "treeOp", "threadOp"}) /\ z.task = k
  BY <1>1 DEF Beside, Fields, Placed
<1> QED BY <1>2, <1>3, <1>4, <1>5, PlacedApproach

LEMMA TreeCreatedCovered ==
  ASSUME Grounds, TreeCreated
  PROVE  Covered
<1> DEFINE k == [s.task EXCEPT !.tree = TRUE]
           t == IF s.managed THEN "ready" ELSE s.treeOp
           z == Placed(s, k, t, s.threadOp)
<1>1. s \in States(Len(codex.turns)) /\ Shown(codex)
  BY Grounded DEF Based, Typed
<1>2. codex' = [codex EXCEPT !.trees = @ + 1] /\ Unseen /\ s.worker.pc = "tree"
  BY DEF TreeCreated, At
<1>3. s.task \in TaskRec /\ s.treeOp \in Creation /\ s.threadOp \in Creation
  BY <1>1 DEF States
<1>4. k \in TaskRec /\ RowBut(s.task, k, {"thread", "tree"}) /\ k.thread = s.task.thread
  BY <1>3 DEF TaskRec, RowBut, TaskFields
<1>5. t \in Creation
  BY <1>3 DEF Creation
<1>6. s' = TowardsThread(z)
  <2>1. s' = TowardsThread([s EXCEPT !.task.tree = TRUE, !.treeOp = IF s.managed THEN "ready" ELSE @])
    BY DEF TreeCreated
  <2>2. [s EXCEPT !.task.tree = TRUE, !.treeOp = IF s.managed THEN "ready" ELSE @] = z
    BY <1>1 DEF Fields, Typed, States, Placed
  <2> QED BY <2>1, <2>2
<1>7. z = Placed(s, k, t, s.threadOp)
  OBVIOUS
<1> HIDE DEF k, t, z
<1>8. Approaching(z, codex, left.can, seen)
  BY <1>2, <1>3, <1>4, <1>5, <1>7, PlacedWay DEF Before
<1>9. Covering(s', codex, left.can, seen)
  BY <1>6, <1>8, TowardsCovers
<1>10. codex'.turns = codex.turns /\ codex'.calls = codex.calls /\ codex'.inbox = codex.inbox
  BY <1>1, <1>2 DEF Shown, CodexRec
<1> QED BY <1>2, <1>9, <1>10, SameCovered

\* Only a broken connection makes the board give up, and Codex starts nothing late.
LEMMA TidyGivesUp ==
  ASSUME Tidy(left.can), NEW broken \in BOOLEAN, GivesUp(broken)
  PROVE  broken = TRUE /\ Loses(left.can)
BY DEF Tidy, Loses, GivesUp, May

LEMMA TidyAbandons ==
  ASSUME IInv, Tidy(left.can)
  PROVE  Abandoned(codex) = codex
<1> DEFINE none == {}
           l == codex.late \cup none
           d == [codex EXCEPT !.late = l]
<1>1. ~May("late")
  BY DEF Tidy, May
<1>2. Abandoned(codex) = d
  BY <1>1 DEF Abandoned
<1>3. l = codex.late
  OBVIOUS
<1> HIDE DEF l
<1>4. codex \in CodexRec(Len(codex.turns))
  BY Facts DEF Shown
<1>5. d = codex
  BY <1>3, <1>4 DEF CodexRec
<1> QED BY <1>2, <1>5

LEMMA TreeLostCovered ==
  ASSUME Grounds, TreeLost
  PROVE  Covered
<1> DEFINE t == IF s.managed THEN "flagged" ELSE s.treeOp
           z == Placed(s, s.task, t, s.threadOp)
           u == TRUE
<1>1. s \in States(Len(codex.turns)) /\ Shown(codex)
  BY Grounded DEF Based, Typed
<1>2. Unseen /\ s.worker.pc = "tree" /\ (u => Loses(left.can))
  BY TidyGivesUp DEF TreeLost, At, Grounds
<1>3. s.task \in TaskRec /\ s.treeOp \in Creation /\ s.threadOp \in Creation
  BY <1>1 DEF States
<1>4. t \in Creation /\ u \in BOOLEAN /\ RowBut(s.task, s.task, {"thread", "tree"})
  BY <1>3 DEF Creation, RowBut
<1>5. s' = Ended(FailedWith(z, u))
  <2>1. s' = Ended(FailedWith([s EXCEPT !.treeOp = IF s.managed THEN "flagged" ELSE @], u))
    BY TidyGivesUp DEF TreeLost, Grounds
  <2>2. [s EXCEPT !.treeOp = IF s.managed THEN "flagged" ELSE @] = z
    BY <1>1 DEF Fields, Typed, States, Placed
  <2> QED BY <2>1, <2>2
<1>6. z = Placed(s, s.task, t, s.threadOp)
  OBVIOUS
<1> HIDE DEF t, z, u
<1>7. Approaching(z, codex, left.can, seen)
  BY <1>2, <1>3, <1>4, <1>6, PlacedWay DEF Before
<1>8. Covering(s', codex, left.can, seen)
  BY <1>2, <1>4, <1>5, <1>7, FailApproach
<1>9. codex'.turns = codex.turns /\ codex'.calls = codex.calls /\ codex'.inbox = codex.inbox
  BY <1>1 DEF TreeLost, Shown, CodexRec
<1> QED BY <1>2, <1>8, <1>9, SameCovered

LEMMA ThreadCreatedCovered ==
  ASSUME Grounds, ThreadCreated
  PROVE  Covered
<1> DEFINE k == [s.task EXCEPT !.thread = TRUE]
           t == IF s.managed THEN "ready" ELSE s.threadOp
           z == Placed(s, k, s.treeOp, t)
<1>1. s \in States(Len(codex.turns)) /\ Shown(codex)
  BY Grounded DEF Based, Typed
<1>2. codex' = [codex EXCEPT !.threads = @ + 1] /\ Unseen /\ s.worker.pc = "thread"
  BY DEF ThreadCreated, At
<1>3. s.task \in TaskRec /\ s.treeOp \in Creation /\ s.threadOp \in Creation
  BY <1>1 DEF States
<1>4. k \in TaskRec /\ RowBut(s.task, k, {"thread", "tree"}) /\ k.thread
  BY <1>3 DEF TaskRec, RowBut, TaskFields
<1>5. t \in Creation
  BY <1>3 DEF Creation
<1>6. s' = Readied(z)
  <2>1. s' = Readied([s EXCEPT !.task.thread = TRUE, !.threadOp = IF s.managed THEN "ready" ELSE @])
    BY DEF ThreadCreated
  <2>2. [s EXCEPT !.task.thread = TRUE, !.threadOp = IF s.managed THEN "ready" ELSE @] = z
    BY <1>1 DEF Fields, Typed, States, Placed
  <2> QED BY <2>1, <2>2
<1>7. z = Placed(s, k, s.treeOp, t)
  OBVIOUS
<1> HIDE DEF k, t, z
<1>8. Approaching(z, codex, left.can, seen)
  BY <1>2, <1>3, <1>4, <1>5, <1>7, PlacedWay DEF Before
<1>9. Covering(s', codex, left.can, seen)
  BY <1>6, <1>8, ReadiedCovers
<1>10. codex'.turns = codex.turns /\ codex'.calls = codex.calls /\ codex'.inbox = codex.inbox
  BY <1>1, <1>2 DEF Shown, CodexRec
<1> QED BY <1>2, <1>9, <1>10, SameCovered

LEMMA ThreadLostCovered ==
  ASSUME Grounds, ThreadLost
  PROVE  Covered
<1> DEFINE t == IF s.managed THEN "flagged" ELSE s.threadOp
           z == Placed(s, s.task, s.treeOp, t)
           u == TRUE
<1>1. s \in States(Len(codex.turns)) /\ Shown(codex)
  BY Grounded DEF Based, Typed
<1>2. Unseen /\ s.worker.pc = "thread" /\ (u => Loses(left.can))
  BY TidyGivesUp DEF ThreadLost, At, Grounds
<1>3. s.task \in TaskRec /\ s.treeOp \in Creation /\ s.threadOp \in Creation
  BY <1>1 DEF States
<1>4. t \in Creation /\ u \in BOOLEAN /\ RowBut(s.task, s.task, {"thread", "tree"})
  BY <1>3 DEF Creation, RowBut
<1>5. s' = Ended(FailedWith(z, u))
  <2>1. s' = Ended(FailedWith([s EXCEPT !.threadOp = IF s.managed THEN "flagged" ELSE @], u))
    BY TidyGivesUp DEF ThreadLost, Grounds
  <2>2. [s EXCEPT !.threadOp = IF s.managed THEN "flagged" ELSE @] = z
    BY <1>1 DEF Fields, Typed, States, Placed
  <2> QED BY <2>1, <2>2
<1>6. z = Placed(s, s.task, s.treeOp, t)
  OBVIOUS
<1> HIDE DEF t, z, u
<1>7. Approaching(z, codex, left.can, seen)
  BY <1>2, <1>3, <1>4, <1>6, PlacedWay DEF Before
<1>8. Covering(s', codex, left.can, seen)
  BY <1>2, <1>4, <1>5, <1>7, FailApproach
<1>9. codex'.turns = codex.turns /\ codex'.calls = codex.calls /\ codex'.inbox = codex.inbox
  BY <1>1 DEF ThreadLost, Shown, CodexRec
<1> QED BY <1>2, <1>8, <1>9, SameCovered

LEMMA ResumedCovered ==
  ASSUME Grounds, Resumed
  PROVE  Covered
<1>1. codex' = codex /\ Unseen /\ s.worker.pc = "resume" /\ s' = Readied(s)
  BY DEF Resumed, At
<1>2. Approaching(s, codex, left.can, seen)
  BY <1>1, Grounded, Approached DEF Before
<1>3. Covering(s', codex, left.can, seen)
  BY <1>1, <1>2, ReadiedCovers
<1> QED BY <1>1, <1>3, SameCovered

LEMMA NotReadiedCovered ==
  ASSUME Grounds, NotReadied
  PROVE  Covered
<1>1. codex' = codex /\ Unseen /\ s.worker.pc \in {"resume", "options"}
  BY DEF NotReadied
<1>2. Approaching(s, codex, left.can, seen)
  BY <1>1, Grounded, Approached DEF Before
<1>3. \E u \in BOOLEAN : s' = Ended(FailedWith(s, u)) /\ (u => Loses(left.can))
  <2>1. CASE s' = Ended(FailedWith(s, FALSE))
    BY <2>1
  <2>2. ASSUME NEW broken \in BOOLEAN, GivesUp(broken), s' = Ended(FailedWith(s, broken))
        PROVE  \E u \in BOOLEAN : s' = Ended(FailedWith(s, u)) /\ (u => Loses(left.can))
    <3>1. broken => Loses(left.can)
      BY <2>2, TidyGivesUp DEF Grounds
    <3> QED BY <2>2, <3>1
  <2> QED BY <2>1, <2>2 DEF NotReadied
<1>4. Covering(s', codex, left.can, seen)
  BY <1>2, <1>3, FailApproach
<1> QED BY <1>1, <1>4, SameCovered

-----------------------------------------------------------------------------
(* Starts are asked for.                                                     *)

\* The latest run is that of the latest turn.
LEMMA LatestRun ==
  ASSUME NEW x, NEW c, NEW can, Heard(x, c, can), Typed(x, Len(c.turns)), Len(c.turns) \in Nat,
         Len(c.turns) # 0 => Len(c.turns) \in Turned(x)
  PROVE  LastRun(x).turn = Len(c.turns)
<1>1. LastRun(x).turn \in Nat /\ LastRun(x).turn <= Len(c.turns) /\ \A t \in Turned(x) : t <= LastRun(x).turn
  BY RunsOf DEF Heard
<1>2. CASE Len(c.turns) = 0
  BY <1>1, <1>2
<1>3. CASE Len(c.turns) \in Turned(x)
  <2>1. Len(c.turns) <= LastRun(x).turn
    BY <1>1, <1>3
  <2> QED BY <1>1, <2>1
<1> QED BY <1>2, <1>3

\* A start is recorded, and is on its way.
LEMMA SubmittedCovers ==
  ASSUME NEW x, NEW c, NEW can, NEW sn, Based(x, c, can), Covering(x, c, can, sn),
         NEW h \in Callers, x[h].pc = "options", Uncertain(x) = {}, Over(c), Held(x),
         Loses(can) \/ ~x.task.conflict, h = "follow" => x.worker.pc = "none",
         NEW y, Beside(x, y, {"ops", h}), Len(y.ops) = Len(x.ops) + 1, DOMAIN y.ops = 1..(Len(x.ops) + 1),
         \A i \in 1..Len(x.ops) : y.ops[i] = x.ops[i],
         y.ops[Len(x.ops) + 1].prompt = x[h].prompt, y.ops[Len(x.ops) + 1].state = "uncertain",
         y.ops[Len(x.ops) + 1].turn = 0, y.ops[Len(x.ops) + 1].prev = LastRun(x).turn,
         y[h].pc = "turn", y[h].prompt = x[h].prompt, y[h].op = Len(x.ops) + 1,
         h = "follow" => y[h].row = x.follow.row
  PROVE  Covering(y, c, can, sn)
<1> DEFINE n == Len(c.turns)
           o == Len(x.ops)
<1>1. /\ n \in Nat /\ o \in Nat /\ DOMAIN x.ops = 1..o /\ Typed(x, n) /\ x.loop.latest \in 0..n
      /\ x.task.uncertain \in 0..o
  BY InboxOf, OpsOf, Shape, RowShape DEF Based
<1> HIDE DEF n, o
<1>2. \A f \in Fields \ {"ops", h} : y[f] = x[f]
  BY DEF Beside
<1>3. /\ y.stop = x.stop /\ y.override = x.override /\ y.ended = x.ended /\ y.loop = x.loop
      /\ y.limits = x.limits /\ y.queue = x.queue /\ y.lease = x.lease /\ y.runs = x.runs
      /\ y.turn = x.turn /\ y.task = x.task
      /\ \A g \in Callers : g # h => y[g] = x[g]
  BY <1>2 DEF Fields, Callers
<1>4. \A g \in Callers : g # h => x[g].pc \notin Before \cup {"turn", "options"}
  <2>1. CASE h = "worker"
    BY <2>1, Single DEF OnWay, Before, Callers
  <2>2. CASE h = "follow"
    BY <2>2 DEF Callers, Before
  <2> QED BY <2>1, <2>2 DEF Callers
<1>5. \A g \in Callers : x[g].pc # "turn" /\ c.calls[g] = 0
  <2>1. \A g \in Callers : x[g].pc # "turn"
    BY <1>4
  <2> QED BY <2>1 DEF Covering, Core, Entered, Asked
<1>6. x.stop.pc = "none" /\ ~x.override
  <2>1. OnWay(x) \/ x.follow.pc # "none"
    BY DEF OnWay, Before, Callers
  <2> QED BY <2>1 DEF Covering, Core, Halted
<1>7. n # 0 => n \in Turned(x)
  BY <1>5, AllHeard DEF Based, Covering, Core, Called, n
<1>8. LastRun(x).turn = n
  BY <1>1, <1>7, LatestRun DEF Covering, Core, n
<1>9. Turned(y) = Turned(x) /\ LastRun(y) = LastRun(x)
  BY <1>3 DEF Turned, LastRun
<1>10. \A i \in DOMAIN x.ops : x.ops[i].state # "uncertain"
  BY DEF Uncertain
<1>11. x.task.uncertain = 0
  BY <1>1, <1>10 DEF Covering, Core, Certain
<1>12. \A g \in Callers : y[g].pc = "turn" => g = h
  BY <1>3, <1>5
<1>13. /\ y.worker.pc \notin Before \cup {"wait"} \/ (y.worker = x.worker /\ h = "follow" /\ x.worker.pc = "none")
       /\ y.follow.pc # "options"
  BY <1>3, <1>4, Single DEF Callers, Before, OnWay
<1>14. Leased(y, c, can)
  BY DEF Leased
<1>15. Eager(y, c, can)
  <2>1. Held(y)
    BY <1>3 DEF Held, Going
  <2>2. y.ops[Len(y.ops)].prev = Len(c.turns)
    BY <1>8 DEF n
  <2>3. y.worker.pc \notin Before
    BY <1>13 DEF Before
  <2>4. Wants(y, c, "follow") => y.worker.pc = "none"
    BY <1>3, <1>12 DEF Wants, Callers
  <2> QED BY <1>3, <1>13, <2>1, <2>2, <2>3, <2>4 DEF Eager
<1>16. Halted(y, c, can)
  BY <1>3, <1>6 DEF Halted
<1>17. Watched(y, c)
  BY <1>3, <1>13 DEF Watched
<1>18. Heard(y, c, can)
  BY <1>3, <1>7, <1>9 DEF Heard, Covering, Core, n
<1>19. Asked(y, c)
  BY <1>1, <1>3, <1>5, <1>11, <1>12 DEF Asked, o
<1>20. Tracked(y, c)
  <2>1. \A i \in DOMAIN y.ops : y.ops[i].turn # 0 => i \in DOMAIN x.ops /\ y.ops[i] = x.ops[i]
    BY <1>1 DEF o
  <2> QED BY <1>8, <2>1 DEF Tracked, Covering, Core, Entered, n
<1>21. Certain(y, can)
  <2>1. \A i \in DOMAIN y.ops : y.ops[i].state = "uncertain" => i = o + 1
    BY <1>1, <1>10 DEF o
  <2> QED BY <1>3, <1>11, <2>1 DEF Certain, o
<1>22. Waiting(y, can)
  <2>1. (Busy(y) <=> Busy(x)) /\ (Asking(y) <=> Asking(x))
    BY <1>3 DEF Busy, Asking
  <2>2. x.task.status \notin {"todo", "canceled"}
    BY DEF Held, Going
  <2>3. y.follow.pc # "none" => x.follow.pc # "none" /\ y.follow.row = x.follow.row
    BY <1>3 DEF Callers
  <2> QED BY <1>3, <2>1, <2>2, <2>3 DEF Waiting, Covering, Core
<1>23. Listed(y, c, sn)
  BY <1>3 DEF Listed, Covering, Reads
<1>24. Matching(y, c, can)
  <2>1. ASSUME Finds(y)
        PROVE  FALSE
    <3>1. x.loop.op \in 1..o
      BY <1>3, <2>1, Single DEF Finds, AllFiled, o
    <3>2. Finds(x)
      BY <1>3, <2>1, <3>1 DEF Finds, o
    <3>3. x.follow.pc # "options" /\ x.worker.pc \notin Before
      <4>1. x.ops[o].state # "uncertain"
        BY <1>1, <1>10, <3>1
      <4> QED BY <3>2, <4>1 DEF Covering, Reads, Matching, o
    <3> QED BY <3>3 DEF Callers, Before
  <2> QED BY <2>1 DEF Matching
<1>25. Plainly(y, c, can)
  <2>1. CASE h = "worker"
    <3>1. y.worker.pc = "turn" /\ y.follow = x.follow
      BY <1>3, <2>1 DEF Callers
    <3> QED BY <1>3, <3>1 DEF Plainly, Covering, Core
  <2>2. CASE h = "follow"
    <3>1. y.worker = x.worker /\ x.follow.pc # "none"
      BY <1>3, <2>2 DEF Callers
    <3> QED BY <1>3, <3>1 DEF Plainly, Covering, Core
  <2> QED BY <2>1, <2>2 DEF Callers
<1> QED BY <1>14, <1>15, <1>16, <1>17, <1>18, <1>19, <1>20, <1>21, <1>22, <1>23, <1>24, <1>25
        DEF Covering, Core, Entered, Reads

-----------------------------------------------------------------------------
(* Submitting, and what becomes of a start.                                  *)

\* An uncertain entry forbids the start.
LEMMA BlockedCovers ==
  ASSUME NEW x, NEW c, NEW can, NEW sn, Approaching(x, c, can, sn), Uncertain(x) # {},
         NEW b, b = Blocked(x), NEW u \in BOOLEAN, ~u, NEW y, y = Ended(FailedWith(b, u))
  PROVE  Covering(y, c, can, sn)
<1> DEFINE n == Len(c.turns)
           o == Len(x.ops)
<1>1. /\ n \in Nat /\ o \in Nat /\ DOMAIN x.ops = 1..o /\ Typed(x, n) /\ Shown(c) /\ Tidy(can)
      /\ x.worker.pc \in Before /\ x.follow.pc = "none"
  BY InboxOf, OpsOf DEF Approaching
<1>2. /\ Over(c) /\ x.stop.pc = "none" /\ ~x.override /\ c.calls.worker = 0 /\ c.calls.follow = 0
      /\ ~Loses(can) => \A i \in DOMAIN x.ops : x.ops[i].state # "uncertain"
  BY ApproachIs
<1>3. Loses(can)
  BY <1>2 DEF Uncertain
<1>4. \A i \in DOMAIN x.ops : x.ops[i].state = "uncertain" => i = o
  BY DEF Approaching, Covering, Core, Certain
<1>5. FirstUncertain(x) = o /\ o \in Uncertain(x)
  <2>1. Uncertain(x) = {o}
    BY <1>4 DEF Uncertain
  <2> HIDE DEF o
  <2>2. \A j \in Uncertain(x) : o <= j
    BY <1>1, <2>1
  <2> QED BY <2>1, <2>2 DEF FirstUncertain
<1>6. /\ Beside(x, b, {"task"}) /\ RowBut(x.task, b.task, {"conflict", "uncertain"})
      /\ b.task.conflict /\ b.task.uncertain = o
  BY <1>1, <1>5, BlockedIs
<1>7. Typed(b, n)
  BY <1>1, BlockedSane DEF Sane
<1>8. /\ b.worker = x.worker /\ b.follow = x.follow /\ b.stop = x.stop /\ b.override = x.override
      /\ b.ended = x.ended /\ b.loop = x.loop /\ b.ops = x.ops /\ b.runs = x.runs /\ b.turn = x.turn
      /\ b.queue = x.queue /\ b.lease = x.lease /\ b.limits = x.limits
  BY <1>6 DEF Beside, Fields
<1>9. /\ b.task.status = x.task.status /\ b.task.run = x.task.run /\ b.task.paused = x.task.paused
      /\ b.task.thread = x.task.thread
  BY <1>6 DEF RowBut, TaskFields
<1> HIDE DEF n, o
<1>10. /\ Leased(x, c, can) /\ Watched(x, c) /\ Heard(x, c, can) /\ Tracked(x, c) /\ Ordinal(c)
       /\ Waiting(x, can) /\ Plainly(x, c, can) /\ Matching(x, c, can)
  BY DEF Approaching, Covering, Core, Entered, Reads
<1>11. Leased(b, c, can) /\ Watched(b, c) /\ Tracked(b, c) /\ Plainly(b, c, can)
  BY <1>2, <1>8, <1>10 DEF Leased, Watched, Tracked, Plainly
<1>12. Heard(b, c, can)
  <2>1. Turned(b) = Turned(x) /\ LastRun(b) = LastRun(x)
    BY <1>8 DEF Turned, LastRun
  <2> QED BY <1>3, <1>8, <1>10, <2>1 DEF Heard
<1>13. Waiting(b, can)
  <2>1. Asking(b) => Asking(x)
    BY <1>8, <1>9 DEF Asking
  <2>2. OnWay(b) <=> OnWay(x)
    BY <1>8 DEF OnWay
  <2> QED BY <1>3, <1>6, <1>8, <1>9, <1>10, <2>1, <2>2 DEF Waiting
<1>14. Matching(b, c, can)
  <2>1. Turned(b) = Turned(x)
    BY <1>8 DEF Turned
  <2>2. Finds(b) <=> Finds(x)
    BY <1>8 DEF Finds
  <2> QED BY <1>8, <1>10, <2>1, <2>2 DEF Matching, Wants, Callers
<1> QED BY <1>1, <1>2, <1>3, <1>4, <1>5, <1>6, <1>7, <1>8, <1>10, <1>11, <1>12, <1>13, <1>14, FailedCovers
        DEF o, n, Uncertain, Matching, Fitting

LEMMA SubmitCovered ==
  ASSUME Grounds, Submit
  PROVE  Covered
<1> DEFINE u == FALSE
           n == Len(codex.turns)
           can == left.can
           x == s
           y == s'
           c == codex
           b == Blocked(s)
<1>1. codex' = codex /\ Unseen /\ x.worker.pc = "options" /\ ~u /\ u \in BOOLEAN
  BY DEF Submit, At
<1>2. /\ Approaching(x, c, can, seen) /\ Covering(x, c, can, seen) /\ Based(x, c, can) /\ Typed(y, n)
      /\ n \in Nat
  BY <1>1, Grounded, Approached DEF Before, Based
<1>3. \/ y = Ended(x)
      \/ Uncertain(x) # {} /\ y = Ended(FailedWith(b, u))
      \/ x.task.status = "in_progress" /\ Uncertain(x) = {} /\ y = SubmitBy("worker")
  BY DEF Submit
<1>4. ASSUME x.task.status = "in_progress", Uncertain(x) = {}, y = SubmitBy("worker")
      PROVE  Covering(y, c, can, seen)
  <2> DEFINE h == "worker"
  <2>1. h \in Callers /\ h # "follow" /\ h \in {"worker", "follow"} /\ x[h].pc = "options"
    BY <1>1 DEF Callers
  <2>2. y = SubmitBy(h)
    BY <1>4
  <2> HIDE DEF h
  <2>3. /\ Beside(x, y, {"ops", h}) /\ Len(y.ops) = Len(x.ops) + 1
        /\ \A i \in 1..Len(x.ops) : y.ops[i] = x.ops[i]
        /\ y.ops[Len(x.ops) + 1].prompt = x[h].prompt
        /\ y.ops[Len(x.ops) + 1].state = "uncertain" /\ y.ops[Len(x.ops) + 1].turn = 0
        /\ y.ops[Len(x.ops) + 1].prev = LastRun(x).turn
        /\ y[h].pc = "turn" /\ y[h].prompt = x[h].prompt
        /\ y[h].op = Len(x.ops) + 1
    BY <2>1, <2>2, SubmittedIs DEF Grounds
  <2>4. Over(c) /\ Held(x) /\ (Loses(can) \/ ~x.task.conflict)
    BY <1>2, <1>4, ApproachIs
  <2>5. DOMAIN y.ops = 1..(Len(x.ops) + 1)
    BY <1>2, <2>3, OpsOf
  <2> HIDE DEF x, y, c, can, n
  <2> QED BY <1>2, <1>4, <2>1, <2>3, <2>4, <2>5, SubmittedCovers
<1>5. Covering(y, c, can, seen)
  <2> HIDE DEF x, y, c, can, n, b, u
  <2>1. ASSUME Uncertain(x) # {}, y = Ended(FailedWith(b, u))
        PROVE  Covering(y, c, can, seen)
    <3>1. b = Blocked(x)
      BY DEF b, x
    <3> QED BY <1>1, <1>2, <2>1, <3>1, BlockedCovers
  <2> QED BY <1>2, <1>3, <1>4, <2>1, EndApproach
<1> QED BY <1>1, <1>5, SameCovered

\* The start of a worker is refused.
LEMMA TurnRefusedCovered ==
  ASSUME Grounds, TurnRefused
  PROVE  Covered
<1> DEFINE u == FALSE
           h == "worker"
           n == Len(codex.turns)
           can == left.can
           c == codex
           x == s
           r == Refused(h)
           y == s'
           o == Len(s.ops)
           e == "blocked"
           t == 0
<1>1. /\ codex' = codex /\ Unseen /\ x.worker.pc = "turn" /\ c.calls.worker = 0 /\ "refused" \in can
      /\ h \in {"worker", "follow"} /\ h \in Callers /\ ~u /\ u \in BOOLEAN
  BY DEF TurnRefused, At, May, Callers
<1>2. Based(x, c, can) /\ Covering(x, c, can, seen) /\ Typed(x, n) /\ n \in Nat /\ Shown(c) /\ Tidy(can)
  BY Grounded DEF Based
<1>3. y = Ended(FailedWith(r, u))
  <2>1. ~May("quota")
    BY <1>2, Single DEF May
  <2> QED BY <2>1 DEF TurnRefused
<1>4. Wants(x, c, "worker") /\ x[h].pc = "turn" /\ x[h] = x.worker
  BY <1>1 DEF Wants
<1>5. x[h].op = o /\ o # 0 /\ x.task.uncertain = 0
  BY <1>1, <1>2, <1>4 DEF Covering, Core, Entered, Asked
<1>6. r = SetOp(x, o, e, t)
  BY <1>5 DEF Refused
<1> HIDE DEF e, t
<1>7. o \in Nat /\ DOMAIN x.ops = 1..o /\ o \in DOMAIN x.ops
  BY <1>2, <1>5, OpsOf
<1>8. /\ Beside(x, r, {"ops"}) /\ DOMAIN r.ops = DOMAIN x.ops
      /\ r.ops[o].state # "uncertain" /\ r.ops[o].turn = 0
      /\ r.ops[o].prompt = x.ops[o].prompt /\ r.ops[o].prev = x.ops[o].prev
      /\ \A j \in DOMAIN x.ops : j # o => r.ops[j] = x.ops[j]
  <2> HIDE DEF r, x, o, n
  <2>1. /\ Beside(x, r, {"ops"}) /\ DOMAIN r.ops = DOMAIN x.ops
        /\ r.ops[o].state = e /\ r.ops[o].turn = t
        /\ r.ops[o].prompt = x.ops[o].prompt /\ r.ops[o].prev = x.ops[o].prev
        /\ \A j \in DOMAIN x.ops : j # o => r.ops[j] = x.ops[j]
    <3>1. o \in DOMAIN x.ops /\ Typed(x, n) /\ r = SetOp(x, o, e, t)
      BY <1>2, <1>6, <1>7
    <3> QED BY <3>1, SetOpIs
  <2> QED BY <2>1 DEF e, t
<1>9. Typed(r, n)
  BY <1>1, <1>2, Grounded, RefusedTame DEF Grounds
<1> HIDE DEF u, h, n, can, c, x, r, y
<1>10. Len(r.ops) = o
  BY <1>7, <1>8, <1>9, OpsOf
<1> HIDE DEF o
<1>11. /\ Over(c) /\ Held(x) /\ ~Loses(can) /\ ~x.task.conflict
  BY <1>1, <1>2, <1>4 DEF Covering, Core, Eager, Callers, Tidy, Loses
<1>12. x.follow.pc = "none" /\ c.calls.follow = 0 /\ x.stop.pc = "none" /\ ~x.override
  <2>1. OnWay(x)
    BY <1>1 DEF OnWay
  <2>2. x.follow.pc = "none" /\ x.stop.pc = "none" /\ ~x.override
    BY <1>2, <2>1, Single DEF Covering, Core, Halted
  <2> QED BY <1>2, <2>2 DEF Covering, Core, Entered, Asked, Callers
<1>13. /\ r.worker = x.worker /\ r.follow = x.follow /\ r.stop = x.stop /\ r.override = x.override
       /\ r.ended = x.ended /\ r.loop = x.loop /\ r.runs = x.runs /\ r.turn = x.turn
       /\ r.queue = x.queue /\ r.lease = x.lease /\ r.limits = x.limits /\ r.task = x.task
  BY <1>8 DEF Beside, Fields
<1>14. /\ Leased(x, c, can) /\ Watched(x, c) /\ Heard(x, c, can) /\ Tracked(x, c) /\ Ordinal(c)
       /\ Waiting(x, can) /\ Plainly(x, c, can) /\ Matching(x, c, can) /\ Listed(x, c, seen)
       /\ Certain(x, can)
  BY <1>2 DEF Covering, Core, Entered, Reads
<1>15. Leased(r, c, can) /\ Watched(r, c) /\ Plainly(r, c, can)
  BY <1>11, <1>13, <1>14 DEF Leased, Watched, Plainly
<1>16. Heard(r, c, can)
  <2>1. Turned(r) = Turned(x) /\ LastRun(r) = LastRun(x)
    BY <1>13 DEF Turned, LastRun
  <2>2. \A g \in Callers : Called(r, c, g) <=> Called(x, c, g)
    BY <1>13 DEF Called, Callers
  <2> QED BY <1>13, <1>14, <2>1, <2>2 DEF Heard
<1>17. Tracked(r, c)
  <2>1. x.ops[o].prev = Len(c.turns) \/ (x.ops[o].prev + 1 = Len(c.turns) /\ c.turns[Len(c.turns)].prompt = x.ops[o].prompt)
    BY <1>5, <1>14 DEF Tracked, o, x
  <2>2. \A i \in DOMAIN x.ops : r.ops[i].turn # 0 => r.ops[i] = x.ops[i]
    BY <1>8
  <2> QED BY <1>8, <1>10, <1>14, <2>1, <2>2 DEF Tracked
<1>18. Waiting(r, can)
  <2>1. (Asking(r) <=> Asking(x)) /\ (OnWay(r) <=> OnWay(x)) /\ (Busy(r) <=> Busy(x))
    BY <1>13 DEF Asking, OnWay, Busy
  <2> QED BY <1>13, <1>14, <2>1 DEF Waiting
<1>19. Fitting(r, c, can)
  <2>1. ~Finds(x)
    BY <1>4, <1>14 DEF Matching, Callers
  <2>2. x.loop.pc = "recover" => x.loop.op \in DOMAIN x.ops
    BY <1>2, <1>7, Single DEF AllFiled, o, x
  <2>3. ~Finds(r)
    BY <1>8, <1>13, <2>1, <2>2 DEF Finds
  <2> QED BY <2>3 DEF Fitting
<1>20. \A i \in DOMAIN r.ops : r.ops[i].state # "uncertain"
  <2>1. \A i \in DOMAIN x.ops : x.ops[i].state = "uncertain" => i = o
    BY <1>14 DEF Certain, o, x
  <2> QED BY <1>8, <2>1
<1>21. Covering(y, c, can, seen)
  <2>1. r.task.uncertain = 0 /\ r.worker.pc \in Before \cup {"turn"}
    BY <1>1, <1>5, <1>13 DEF x
  <2>2. r.lease /\ ~r.task.conflict /\ r.task.status = "in_progress"
    BY <1>11, <1>13 DEF Held, Going
  <2>3. r.follow.pc = "none" /\ r.stop.pc = "none" /\ ~r.override
    BY <1>12, <1>13
  <2>4. c.calls.worker = 0
    BY <1>1
  <2>5. Typed(r, Len(c.turns))
    BY <1>9 DEF n, c
  <2> QED BY <1>1, <1>2, <1>3, <1>11, <1>12, <1>14, <1>15, <1>16, <1>17, <1>18, <1>19, <1>20,
             <2>1, <2>2, <2>3, <2>4, <2>5, FailedCovers
<1> QED BY <1>1, <1>21, SameCovered DEF y, c, can

\* The answer to the start of a worker is lost.
LEMMA TurnLostCovered ==
  ASSUME Grounds, TurnLost
  PROVE  Covered
<1> DEFINE u == TRUE
           n == Len(codex.turns)
           can == left.can
           c == codex
           d == codex'
           x == s
           o == Len(s.ops)
           r == LostOf(x, o)
           y == s'
           none == {}
<1>1. /\ x.worker.pc = "turn" /\ d = [c EXCEPT !.calls.worker = 0] /\ Loses(can) /\ u /\ u \in BOOLEAN
      /\ Unseen /\ y = Ended(FailedWith(Lost("worker"), u))
  <2>1. PICK broken \in BOOLEAN :
          /\ GivesUp(broken) /\ s' = Ended(FailedWith(Unknown("worker", broken), broken))
          /\ codex' = [Abandoned(codex) EXCEPT !.calls.worker = 0]
    BY DEF TurnLost
  <2>2. broken = TRUE /\ Loses(left.can)
    BY <2>1, TidyGivesUp DEF Grounds
  <2>3. Unknown("worker", TRUE) = Lost("worker") /\ Abandoned(codex) = codex
    BY TidyAbandons DEF Unknown, Grounds
  <2> QED BY <2>1, <2>2, <2>3 DEF TurnLost, At
<1>2. /\ Based(x, c, can) /\ Covering(x, c, can, seen) /\ Typed(x, n) /\ n \in Nat /\ Shown(c) /\ Tidy(can)
      /\ Shown(d)
  BY Grounded DEF Based
<1>3. x.worker.op = o /\ o # 0 /\ x.task.uncertain = 0
  BY <1>1, <1>2 DEF Covering, Core, Entered, Asked, Callers
<1>4. y = Ended(FailedWith(r, u))
  BY <1>1, <1>3 DEF Lost, LostOf
<1>5. o \in Nat /\ DOMAIN x.ops = 1..o /\ o \in DOMAIN x.ops /\ o <= Len(x.ops)
  BY <1>2, <1>3, OpsOf
<1>6. r = LostOf(x, o)
  OBVIOUS
<1> HIDE DEF r
<1>7. /\ Beside(x, r, {"ops", "task"}) /\ RowBut(x.task, r.task, {"conflict", "uncertain"})
      /\ r.task.conflict /\ r.task.uncertain = o
      /\ DOMAIN r.ops = DOMAIN x.ops
      /\ r.ops[o].state = "uncertain" /\ r.ops[o].turn = x.ops[o].turn
      /\ r.ops[o].prompt = x.ops[o].prompt /\ r.ops[o].prev = x.ops[o].prev
      /\ \A j \in DOMAIN x.ops : j # o => r.ops[j] = x.ops[j]
  BY <1>2, <1>5, <1>6, LostIs
<1>8. Typed(r, n)
  BY <1>2, <1>5, <1>6, LostFiled
<1>9. d.turns = c.turns /\ d.inbox = c.inbox /\ d.calls.follow = c.calls.follow /\ d.calls.worker = 0
  BY <1>1, <1>2, CallTaken
<1> HIDE DEF u, n, can, c, d, x, y, none
<1>10. Len(r.ops) = o
  BY <1>5, <1>7, <1>8, OpsOf
<1> HIDE DEF o
<1>11. x.follow.pc = "none" /\ c.calls.follow = 0 /\ x.stop.pc = "none" /\ ~x.override
  <2>1. OnWay(x)
    BY <1>1 DEF OnWay
  <2>2. x.follow.pc = "none" /\ x.stop.pc = "none" /\ ~x.override
    BY <1>2, <2>1, Single DEF Covering, Core, Halted
  <2> QED BY <1>2, <2>2 DEF Covering, Core, Entered, Asked, Callers
<1>12. /\ r.worker = x.worker /\ r.follow = x.follow /\ r.stop = x.stop /\ r.override = x.override
       /\ r.ended = x.ended /\ r.loop = x.loop /\ r.runs = x.runs /\ r.turn = x.turn
       /\ r.queue = x.queue /\ r.lease = x.lease /\ r.limits = x.limits
  BY <1>7 DEF Beside, Fields
<1>13. /\ r.task.status = x.task.status /\ r.task.run = x.task.run /\ r.task.paused = x.task.paused
       /\ r.task.thread = x.task.thread
  BY <1>7 DEF RowBut, TaskFields
<1>14. /\ Leased(x, c, can) /\ Watched(x, c) /\ Heard(x, c, can) /\ Tracked(x, c) /\ Ordinal(c)
       /\ Waiting(x, can) /\ Plainly(x, c, can) /\ Matching(x, c, can) /\ Listed(x, c, seen)
       /\ Certain(x, can)
  BY <1>2 DEF Covering, Core, Entered, Reads
<1>15. (Over(d) <=> Over(c)) /\ (Announced(d) <=> Announced(c)) /\ (Live(d) <=> Live(c))
  BY <1>9 DEF Over, Live, Announced
<1>16. Leased(r, d, can) /\ Watched(r, d) /\ Plainly(r, d, can) /\ Ordinal(d)
  BY <1>1, <1>7, <1>9, <1>12, <1>13, <1>14, <1>15 DEF Leased, Watched, Plainly, Ordinal
<1>17. Heard(r, d, can)
  <2>1. Turned(r) = Turned(x) /\ LastRun(r) = LastRun(x)
    BY <1>12 DEF Turned, LastRun
  <2> QED BY <1>1, <1>9, <1>12, <1>14, <1>15, <2>1 DEF Heard
<1>18. Tracked(r, d)
  <2>1. x.ops[o].prev = Len(c.turns) \/ (x.ops[o].prev + 1 = Len(c.turns) /\ c.turns[Len(c.turns)].prompt = x.ops[o].prompt)
    BY <1>3, <1>14 DEF Tracked, o, x
  <2>2. \A i \in DOMAIN x.ops : r.ops[i].turn = x.ops[i].turn /\ r.ops[i].prompt = x.ops[i].prompt
    BY <1>7
  <2> QED BY <1>7, <1>9, <1>10, <1>14, <2>1, <2>2 DEF Tracked
<1>19. Waiting(r, can)
  <2>1. (Asking(r) => Asking(x)) /\ (OnWay(r) <=> OnWay(x))
    BY <1>12, <1>13 DEF Asking, OnWay
  <2> QED BY <1>1, <1>7, <1>12, <1>13, <1>14, <2>1 DEF Waiting
<1>20. Fitting(r, d, can)
  <2>1. x.loop.pc = "recover" => x.loop.op \in DOMAIN x.ops
    BY <1>2, <1>5, Single DEF AllFiled, o, x
  <2>2. Finds(r) => Finds(x)
    <3>1. \A i \in DOMAIN x.ops : r.ops[i].prev = x.ops[i].prev
      BY <1>7
    <3> QED BY <1>12, <2>1, <3>1 DEF Finds
  <2>3. Turned(r) = Turned(x)
    BY <1>12 DEF Turned
  <2>4. Len(x.ops) = o
    BY DEF o, x
  <2> QED BY <1>7, <1>9, <1>10, <1>12, <1>14, <1>15, <2>2, <2>3, <2>4 DEF Fitting, Matching
<1>21. \A i \in DOMAIN r.ops : r.ops[i].state = "uncertain" => i = Len(r.ops)
  <2>1. \A i \in DOMAIN x.ops : x.ops[i].state = "uncertain" => i = o
    BY <1>14 DEF Certain, o, x
  <2> QED BY <1>7, <1>10, <2>1
<1>22. Covering(y, d, can, none)
  <2>1. r.worker.pc \in Before \cup {"turn"} /\ r.follow.pc = "none" /\ r.stop.pc = "none" /\ ~r.override
    BY <1>1, <1>11, <1>12
  <2>2. Typed(r, Len(d.turns)) /\ d.calls.worker = 0 /\ d.calls.follow = 0
    BY <1>8, <1>9, <1>11 DEF n, c
  <2>3. r.loop.pc = "sync" /\ r.loop.latest = Len(d.turns) /\ r.loop.state # "active" => Over(d)
    BY <1>9, <1>12, <1>14, <1>15 DEF Listed
  <2>4. "loop" \notin none
    BY DEF none
  <2>5. r.task.uncertain = Len(r.ops) /\ r.ops[Len(r.ops)].state = "uncertain"
    BY <1>7, <1>10
  <2> QED BY <1>1, <1>2, <1>4, <1>16, <1>17, <1>18, <1>19, <1>20, <1>21, <2>1, <2>2, <2>3, <2>4, <2>5,
             FailedCovers
<1>23. seen' = none
  <2> DEFINE z == FailedWith(r, u)
  <2>1. Typed(z, n) /\ (z = r \/ RowBut(r.task, z.task, {"run", "conflict", "observe"}))
    BY <1>1, <1>2, <1>8, FailedWithIs, FailedWithSane DEF Sane
  <2>2. z.task.uncertain = o
    BY <1>7, <2>1 DEF RowBut, TaskFields
  <2> HIDE DEF z
  <2>3. y.task = z.task
    BY <1>4, <2>1, EndedIs DEF Beside, Fields, z
  <2>4. s'.task # s.task
    BY <1>3, <2>2, <2>3 DEF x, y
  <2> QED BY <1>1, <2>4 DEF Unseen, none
<1> QED BY <1>22, <1>23 DEF Covered, y, d, can

-----------------------------------------------------------------------------
(* Turns are waited for.                                                     *)

\* The worker no longer waits.
LEMMA WaitedCovers ==
  ASSUME NEW x, NEW c, NEW can, NEW sn, Covering(x, c, can, sn), x.worker.pc = "wait",
         NEW y, Beside(x, y, {"worker", "starting", "ended"}), y.worker.pc = "none",
         y.ended \subseteq x.ended
  PROVE  Covering(y, c, can, sn)
<1>1. /\ y.follow = x.follow /\ y.stop = x.stop /\ y.override = x.override
      /\ y.loop = x.loop /\ y.limits = x.limits /\ y.ops = x.ops /\ y.task = x.task
      /\ y.queue = x.queue /\ y.lease = x.lease /\ y.runs = x.runs /\ y.turn = x.turn
  BY DEF Beside, Fields
<1>2. \A h \in Callers : y[h] = x[h] \/ (h = "worker" /\ x[h].pc = "wait" /\ y[h].pc = "none")
  BY <1>1 DEF Callers
<1>3. \A h \in Callers : /\ Wants(y, c, h) => Wants(x, c, h)
                         /\ Called(x, c, h) => Called(y, c, h)
                         /\ y[h].pc = "turn" => x[h] = y[h]
                         /\ x[h].pc = "turn" => x[h] = y[h]
  BY <1>2 DEF Wants, Called
<1>4. Turned(y) = Turned(x) /\ LastRun(y) = LastRun(x)
  BY <1>1 DEF Turned, LastRun
<1>5. Leased(y, c, can)
  BY <1>1 DEF Leased, Covering, Core
<1>6. Eager(y, c, can)
  <2>1. Held(y) <=> Held(x)
    BY <1>1 DEF Held, Going
  <2> QED BY <1>1, <1>3, <2>1 DEF Eager, Covering, Core, Before, Callers
<1>7. Halted(y, c, can)
  BY <1>1 DEF Halted, Covering, Core, OnWay, Before
<1>8. Watched(y, c)
  BY <1>1 DEF Watched, Covering, Core
<1>9. Heard(y, c, can)
  BY <1>1, <1>3, <1>4 DEF Heard, Covering, Core
<1>10. Entered(y, c, can)
  BY <1>1, <1>3 DEF Entered, Asked, Tracked, Covering, Core
<1>11. Certain(y, can)
  BY <1>1, <1>3 DEF Certain, Covering, Core
<1>12. Waiting(y, can)
  <2>1. (Asking(y) <=> Asking(x)) /\ (Busy(y) <=> Busy(x)) /\ ~OnWay(y)
    BY <1>1 DEF Asking, Busy, OnWay, Before
  <2> QED BY <1>1, <2>1 DEF Waiting, Covering, Core
<1>13. Listed(y, c, sn)
  BY <1>1, <1>3, <1>4 DEF Listed, Covering, Reads
<1>14. Matching(y, c, can)
  <2>1. Finds(y) <=> Finds(x)
    BY <1>1 DEF Finds
  <2> QED BY <1>1, <1>3, <1>4, <2>1 DEF Matching, Covering, Reads, Before
<1>15. Plainly(y, c, can) /\ Ordinal(c)
  BY <1>1 DEF Plainly, Covering, Core
<1> QED BY <1>5, <1>6, <1>7, <1>8, <1>9, <1>10, <1>11, <1>12, <1>13, <1>14, <1>15 DEF Covering, Core, Reads

LEMMA TurnEndedCovered ==
  ASSUME Grounds, TurnEnded
  PROVE  Covered
<1> DEFINE n == Len(codex.turns)
           can == left.can
           c == codex
           x == s
           y == s'
           id == s.worker.turn
           g == StateOf(id)
           by == "worker"
<1>1. codex' = codex /\ Unseen /\ x.worker.pc = "wait" /\ id \in x.ended /\ by \in {"worker", "loop", "notice"}
  BY DEF TurnEnded, At
<1>2. /\ Based(x, c, can) /\ Covering(x, c, can, seen) /\ Typed(x, n) /\ n \in Nat /\ Shown(c)
  BY Grounded DEF Based
<1>3. PICK ok \in BOOLEAN :
        LET r == [Result(x, id, g, ok, by) EXCEPT !.ended = @ \ {id}] IN
        y = IF r.limits = x.limits THEN Ended(r) ELSE Go(r, "limits")
  BY DEF TurnEnded
<1> DEFINE q == Result(x, id, g, ok, by)
           r == [q EXCEPT !.ended = @ \ {id}]
<1>4. id = n /\ id # 0 /\ Over(c)
  <2>1. id = n
    BY <1>1, <1>2 DEF Covering, Core, Watched
  <2>2. 0 \notin x.ended
    BY <1>2, Single DEF AllFiled
  <2> QED BY <1>1, <1>2, <2>1, <2>2 DEF Covering, Core, Watched
<1>5. g = c.turns[n].state
  BY <1>4 DEF StateOf
<1>6. g # "quota"
  <2>1. n \in DOMAIN c.turns
    BY <1>2, <1>4, InboxOf
  <2> QED BY <1>2, <1>5, <2>1 DEF Covering, Core, Plainly
<1>7. y = IF r.limits = x.limits THEN Ended(r) ELSE Go(r, "limits")
  BY <1>3
<1>8. q = Result(x, id, g, ok, by)
  OBVIOUS
<1>9. r = [q EXCEPT !.ended = @ \ {id}]
  OBVIOUS
<1>10. id \in 0..n
  BY <1>2, <1>4
<1> HIDE DEF g, by, q, r, id, n, can, c, x, y
<1>11. /\ q = x \/ Reported(x, q, n)
       /\ q.limits = x.limits /\ Mild(x, q)
  BY <1>1, <1>2, <1>4, <1>6, <1>8, <1>10, ResultIs
<1>12. Nobody(x, c) /\ x.worker.pc \notin Before
  <2>1. x.worker.pc \notin Before /\ x.worker.pc # "none" /\ x.worker.pc # "turn"
    BY <1>1 DEF Before
  <2>2. \A h \in Callers : ~Wants(x, c, h)
    BY <1>2, <2>1 DEF Covering, Core, Eager, Wants, Callers
  <2> QED BY <1>2, <2>1, <2>2 DEF Covering, Core, Eager, Nobody
<1>13. Covering(q, c, can, seen)
  <2>1. CASE q = x
    BY <1>2, <2>1
  <2>2. CASE Reported(x, q, n)
    <3>1. Core(q, c, can) /\ Turned(x) \subseteq Turned(q)
      BY <1>2, <1>4, <1>12, <2>2, ReportedCovers DEF Covering, Core, Nobody, Waiting, n, c
    <3>2. x.loop.pc = "recover" => x.loop.op \in 1..Len(x.ops)
      BY <1>2, Single DEF AllFiled
    <3>3. Reads(q, c, can, seen)
      BY <1>2, <1>4, <1>12, <2>2, <3>1, <3>2, ReportedReads DEF Covering, n, c
    <3> QED BY <3>1, <3>3 DEF Covering
  <2> QED BY <1>11, <2>1, <2>2
<1>14. DOMAIN q = Fields /\ Typed(q, n)
  <2>1. DOMAIN q = Fields
    BY <1>11 DEF Mild, Beside
  <2>2. Typed(q, n)
    BY <1>1, <1>2, <1>8, <1>10, <1>4, ResultSane DEF Sane
  <2> QED BY <2>1, <2>2
<1>15. Beside(q, r, {"ended"}) /\ r.ended \subseteq q.ended /\ r.limits = x.limits
  BY <1>9, <1>11, <1>14 DEF Beside, Fields
<1>16. Typed(r, n)
  <2>1. r \in States(n)
    BY <1>9, <1>14 DEF Typed, States
  <2> QED BY <1>14, <1>15, <2>1 DEF Typed, Beside, Fields
<1>17. y = Ended(r)
  BY <1>7, <1>15
<1>18. Beside(r, y, {"worker", "starting"}) /\ y.worker.pc = "none"
  BY <1>16, <1>17, EndedIs DEF NoWorker
<1>19. q.worker = x.worker
  BY <1>11 DEF Mild, Beside, Fields, Observing
<1>20. Beside(q, y, {"worker", "starting", "ended"}) /\ y.ended \subseteq q.ended
  BY <1>15, <1>18 DEF Beside, Fields
<1>21. Covering(y, c, can, seen)
  BY <1>1, <1>13, <1>18, <1>19, <1>20, WaitedCovers
<1> QED BY <1>1, <1>21, SameCovered DEF y, c, can

-----------------------------------------------------------------------------
(* Starts are answered.                                                      *)

\* A start that was carried out is answered, and its turn is waited for.
LEMMA AnsweredCovers ==
  ASSUME NEW x, NEW c, NEW can, NEW sn, Based(x, c, can), Covering(x, c, can, sn),
         NEW h \in Callers, x[h].pc = "turn", c.calls[h] # 0,
         NEW d, d.turns = c.turns, d.inbox = c.inbox, \A g \in Callers : d.calls[g] = 0,
         NEW y, Beside(x, y, {"ops", "task", "runs", "turn", "starting", "worker", "follow"}),
         RowBut(x.task, y.task, {"run"}), y.task.run \in {x.task.run, "running"},
         NEW o, o = Len(x.ops),
         DOMAIN y.ops = DOMAIN x.ops, Len(y.ops) = o,
         y.ops[o].state = "agent_running", y.ops[o].turn = Len(c.turns),
         y.ops[o].prompt = x.ops[o].prompt, y.ops[o].prev = x.ops[o].prev,
         \A i \in DOMAIN x.ops : i # o => y.ops[i] = x.ops[i],
         y.worker.pc \in {"none", "wait"}, y.worker.pc = "wait" => y.worker.turn = Len(c.turns),
         y.follow.pc = "none", y.turn \in {0, Len(c.turns)},
         Turned(y) = Turned(x) \cup {Len(c.turns)}, LastRun(y).turn = Len(c.turns)
  PROVE  Covering(y, d, can, sn)
<1> DEFINE n == Len(c.turns)
<1>1. /\ n \in Nat /\ DOMAIN c.turns = 1..n /\ Typed(x, n) /\ o \in Nat /\ DOMAIN x.ops = 1..o
      /\ Turned(x) \subseteq Nat /\ LastRun(x).turn \in Nat
  BY InboxOf, OpsOf, RunsOf DEF Based
<1>2. /\ y.stop = x.stop /\ y.override = x.override /\ y.ended = x.ended /\ y.loop = x.loop
      /\ y.limits = x.limits /\ y.queue = x.queue /\ y.lease = x.lease
  BY DEF Beside, Fields
<1>3. /\ y.task.status = x.task.status /\ y.task.conflict = x.task.conflict
      /\ y.task.paused = x.task.paused /\ y.task.uncertain = x.task.uncertain
      /\ y.task.thread = x.task.thread
  BY DEF RowBut, TaskFields
<1>4. \A g \in Callers : y[g].pc # "turn" /\ ~Wants(y, d, g)
  BY DEF Callers, Wants
<1>5. /\ x.task.uncertain = 0 /\ c.calls[h] = n /\ n # 0 /\ c.turns[n].prompt = x.ops[o].prompt
      /\ o \in 1..o
  BY <1>1 DEF Covering, Core, Entered, Asked
<1>6. (Over(d) <=> Over(c)) /\ (Announced(d) <=> Announced(c)) /\ (Live(d) <=> Live(c))
  BY DEF Over, Announced, Live
<1> HIDE DEF n
<1>7. Leased(y, d, can)
  BY <1>2, <1>3, <1>6 DEF Leased, Covering, Core
<1>8. Eager(y, d, can)
  BY <1>4 DEF Eager, Before, Callers
<1>9. Halted(y, d, can)
  BY <1>2, <1>6 DEF Halted, Covering, Core, OnWay, Before
<1>10. Watched(y, d)
  BY <1>2, <1>6 DEF Watched, Covering, Core
<1>11. Heard(y, d, can)
  <2>1. \A t \in Turned(x) : t <= n
    <3>1. LastRun(x).turn <= n /\ \A t \in Turned(x) : t <= LastRun(x).turn
      BY DEF Covering, Core, Heard, n
    <3> QED BY <1>1, <3>1
  <2>2. \A i \in 1..(n - 1) : i \in Turned(x)
    BY DEF Covering, Core, Heard, n
  <2> QED BY <1>1, <2>1, <2>2 DEF Heard, n
<1>12. Entered(y, d, can)
  <2>1. Asked(y, d)
    BY <1>4 DEF Asked
  <2>2. y.ops[o].prev = n \/ (y.ops[o].prev + 1 = n /\ d.turns[n].prompt = y.ops[o].prompt)
    BY <1>5 DEF Covering, Core, Entered, Tracked, n
  <2>3. \A i \in DOMAIN x.ops : y.ops[i].turn # 0 =>
          y.ops[i].turn \in DOMAIN c.turns /\ c.turns[y.ops[i].turn].prompt = y.ops[i].prompt
    <3>1. ASSUME NEW i \in DOMAIN x.ops, y.ops[i].turn # 0
          PROVE  y.ops[i].turn \in DOMAIN c.turns /\ c.turns[y.ops[i].turn].prompt = y.ops[i].prompt
      <4>1. CASE i = o
        BY <1>1, <1>5, <4>1 DEF n
      <4>2. CASE i # o
        BY <3>1, <4>2 DEF Covering, Core, Entered, Tracked
      <4> QED BY <4>1, <4>2
    <3> QED BY <3>1
  <2> QED BY <2>1, <2>2, <2>3 DEF Entered, Tracked, n
<1>13. Certain(y, can)
  <2>1. \A i \in DOMAIN y.ops : y.ops[i].state # "uncertain"
    BY DEF Certain, Covering, Core
  <2> QED BY <1>3, <1>5, <2>1 DEF Certain
<1>14. Ordinal(d)
  BY <1>6 DEF Ordinal, Covering, Core
<1>15. Waiting(y, can)
  <2>1. (Asking(y) => Asking(x)) /\ (Busy(x) => Busy(y)) /\ ~OnWay(y)
    BY <1>2, <1>3 DEF Asking, Busy, OnWay, Before
  <2> QED BY <1>2, <1>3, <2>1 DEF Waiting, Covering, Core
<1>16. Listed(y, d, sn)
  BY <1>2, <1>6 DEF Listed, Covering, Reads
<1>17. Matching(y, d, can)
  <2>1. x.loop.pc = "recover" => x.loop.op \in DOMAIN x.ops
    BY <1>1, Single DEF AllFiled
  <2>2. Finds(y) => Finds(x)
    BY <1>2, <2>1 DEF Finds
  <2> QED BY <1>2, <1>4, <1>6, <2>2 DEF Matching, Covering, Reads, Before
<1>18. Plainly(y, d, can)
  BY <1>2 DEF Plainly, Covering, Core
<1> QED BY <1>7, <1>8, <1>9, <1>10, <1>11, <1>12, <1>13, <1>14, <1>15, <1>16, <1>17, <1>18
        DEF Covering, Core, Reads

LEMMA TurnStartedCovered ==
  ASSUME Grounds, TurnStarted
  PROVE  Covered
<1> DEFINE n == Len(codex.turns)
           can == left.can
           c == codex
           d == codex'
           x == s
           y == s'
           h == "worker"
           e == "agent_running"
           o == Len(s.ops)
           id == codex.calls.worker
           z == SetOp(s, s.worker.op, e, id)
<1>1. /\ d = [c EXCEPT !.calls.worker = 0] /\ Unseen /\ x[h].pc = "turn" /\ x[h] = x.worker /\ h \in Callers
      /\ c.calls[h] = id
  BY DEF TurnStarted, At, Callers
<1>2. /\ Based(x, c, can) /\ Covering(x, c, can, seen) /\ Typed(x, n) /\ n \in Nat /\ Latest = n /\ Shown(c)
  BY Grounded DEF Based
<1>3. /\ id \in 1..n /\ Typed(z, n) /\ Beside(z, y, {"turn", "runs", "starting", "worker"})
      /\ y.turn = id /\ y.worker.pc = "wait" /\ y.worker.turn = id
      /\ LastRun(y).turn = id
      /\ IF LastRun(x).turn = id THEN y.runs = x.runs ELSE Turned(y) = Turned(x) \cup {id}
  BY <1>2, StartedIs DEF Grounds
<1>4. id = n /\ id # 0 /\ x.worker.op = o /\ o # 0
  <2>1. id # 0
    BY <1>2, <1>3
  <2> QED BY <1>1, <1>2, <2>1 DEF Covering, Core, Entered, Asked
<1>5. o \in DOMAIN x.ops /\ o \in Nat /\ DOMAIN x.ops = 1..o
  BY <1>2, <1>4, OpsOf
<1>6. z = SetOp(x, o, e, id)
  BY <1>4
<1>7. d.turns = c.turns /\ d.inbox = c.inbox /\ d.calls.follow = c.calls.follow /\ d.calls.worker = 0
  BY <1>1, <1>2, CallTaken
<1> HIDE DEF n, can, c, d, x, y, h, e, id, z, o
<1>8. /\ Beside(x, z, {"ops"}) /\ DOMAIN z.ops = DOMAIN x.ops
      /\ z.ops[o].state = e /\ z.ops[o].turn = id
      /\ z.ops[o].prompt = x.ops[o].prompt /\ z.ops[o].prev = x.ops[o].prev
      /\ \A j \in DOMAIN x.ops : j # o => z.ops[j] = x.ops[j]
  <2>1. o \in DOMAIN x.ops /\ Typed(x, n) /\ z = SetOp(x, o, e, id)
    BY <1>2, <1>5, <1>6
  <2> QED BY <2>1, SetOpIs
<1>9. /\ Beside(x, y, {"ops", "turn", "runs", "starting", "worker"}) /\ y.ops = z.ops /\ y.task = x.task
      /\ y.follow = x.follow
  BY <1>3, <1>8 DEF Beside, Fields
<1>10. x.follow.pc = "none"
  <2>1. OnWay(x)
    BY <1>1 DEF OnWay
  <2> QED BY <1>2, <2>1, Single
<1>11. c.calls.follow = 0
  BY <1>2, <1>10 DEF Covering, Core, Entered, Asked, Callers
<1>12. Turned(y) = Turned(x) \cup {id}
  <2>1. CASE LastRun(x).turn = id
    <3>1. x.runs # <<>>
      BY <1>2, <1>4, <2>1, RunsOf
    <3>2. id \in Turned(x)
      BY <1>2, <2>1, <3>1, RunsOf
    <3> QED BY <1>3, <2>1, <3>2 DEF Turned
  <2> QED BY <1>3, <2>1
<1>13. Len(y.ops) = o
  <2>1. Len(z.ops) = o
    BY <1>3, <1>5, <1>8, OpsOf
  <2> QED BY <1>9, <2>1
<1>14. Covering(y, d, can, seen)
  <2>1. RowBut(x.task, y.task, {"run"}) /\ y.task.run \in {x.task.run, "running"}
    BY <1>9 DEF RowBut
  <2>2. Beside(x, y, {"ops", "task", "runs", "turn", "starting", "worker", "follow"})
    BY <1>9 DEF Beside
  <2>3. \A g \in Callers : d.calls[g] = 0
    BY <1>7, <1>11 DEF Callers
  <2>4. /\ y.worker.pc \in {"none", "wait"} /\ y.worker.turn = Len(c.turns) /\ y.follow.pc = "none"
        /\ y.turn \in {0, Len(c.turns)} /\ Turned(y) = Turned(x) \cup {Len(c.turns)}
        /\ LastRun(y).turn = Len(c.turns) /\ o = Len(x.ops) /\ c.calls[h] # 0
    BY <1>1, <1>3, <1>4, <1>9, <1>10, <1>12 DEF n, c, o, x
  <2>5. /\ DOMAIN y.ops = DOMAIN x.ops /\ y.ops[o].state = "agent_running" /\ y.ops[o].turn = Len(c.turns)
        /\ y.ops[o].prompt = x.ops[o].prompt /\ y.ops[o].prev = x.ops[o].prev
        /\ \A i \in DOMAIN x.ops : i # o => y.ops[i] = x.ops[i]
    BY <1>4, <1>8, <1>9 DEF e, n, c
  <2>6. /\ Based(x, c, can) /\ Covering(x, c, can, seen) /\ h \in Callers /\ x[h].pc = "turn"
        /\ d.turns = c.turns /\ d.inbox = c.inbox
    BY <1>1, <1>2, <1>7
  <2> QED BY <1>13, <2>1, <2>2, <2>3, <2>4, <2>5, <2>6, AnsweredCovers
<1> QED BY <1>1, <1>14, SeenCovers, SeenLess DEF Covered, y, d, can

LEMMA FollowUpStartedCovered ==
  ASSUME Grounds, FollowUpStarted
  PROVE  Covered
<1> DEFINE n == Len(codex.turns)
           can == left.can
           c == codex
           d == codex'
           x == s
           y == s'
           h == "follow"
           e == "agent_running"
           b == TRUE
           o == Len(s.ops)
           id == codex.calls.follow
           z == SetOp(s, s.follow.op, e, id)
           a == Adopted(z, id, b)
           w == Watch(a, id)
<1>1. /\ d = [c EXCEPT !.calls.follow = 0] /\ Unseen /\ x[h].pc = "turn" /\ x[h] = x.follow /\ h \in Callers
      /\ c.calls[h] = id /\ id # 0 /\ e \in OpState /\ b /\ b \in BOOLEAN
  BY DEF FollowUpStarted, Answered, Callers, OpState
<1>2. /\ Based(x, c, can) /\ Covering(x, c, can, seen) /\ Typed(x, n) /\ n \in Nat /\ Shown(c)
  BY Grounded DEF Based
<1>3. y = [w EXCEPT !.starting = FALSE, !.follow = NoFollow]
  BY DEF FollowUpStarted, Accepted
<1>4. id = n /\ x.follow.op = o /\ o # 0
  BY <1>1, <1>2 DEF Covering, Core, Entered, Asked
<1>5. o \in DOMAIN x.ops /\ o \in Nat /\ DOMAIN x.ops = 1..o
  BY <1>2, <1>4, OpsOf
<1>6. z = SetOp(x, o, e, id) /\ a = Adopted(z, id, b) /\ w = Watch(a, id)
  BY <1>4
<1>7. d.turns = c.turns /\ d.inbox = c.inbox /\ d.calls.worker = c.calls.worker /\ d.calls.follow = 0
  BY <1>1, <1>2, CallTaken
<1> HIDE DEF n, can, c, d, x, y, h, e, b, id, z, a, w, o
<1>8. /\ Beside(x, z, {"ops"}) /\ DOMAIN z.ops = DOMAIN x.ops
      /\ z.ops[o].state = e /\ z.ops[o].turn = id
      /\ z.ops[o].prompt = x.ops[o].prompt /\ z.ops[o].prev = x.ops[o].prev
      /\ \A j \in DOMAIN x.ops : j # o => z.ops[j] = x.ops[j]
  <2>1. o \in DOMAIN x.ops /\ Typed(x, n) /\ z = SetOp(x, o, e, id)
    BY <1>2, <1>5, <1>6
  <2> QED BY <2>1, SetOpIs
<1>9. Typed(z, n) /\ id \in 0..n
  <2>1. id \in Nat /\ id \in 0..n
    BY <1>2, <1>4
  <2> QED BY <1>1, <1>2, <1>6, <2>1, SetOpFiled
<1>10. /\ Passed(z, id) => a = z
       /\ ~Passed(z, id) => TakenUp(z, a, id, b)
       /\ Mild(z, a) /\ Typed(a, n)
  BY <1>1, <1>2, <1>6, <1>9, AdoptedIs, AdoptedSane DEF Sane
<1>11. /\ ~OnWay(x) /\ x.stop.pc = "none" /\ ~x.override /\ x.worker.pc \in {"none", "wait"}
       /\ x.worker.pc = "wait" => x.worker.turn = n
       /\ "missed" \notin can
  <2>1. x.follow.pc # "none"
    BY <1>1
  <2>2. ~OnWay(x) /\ "missed" \notin can
    BY <1>2, <2>1, Single DEF Based, Tidy
  <2>3. x.stop.pc = "none" /\ ~x.override
    BY <1>2, <2>1 DEF Covering, Core, Halted
  <2>4. x.worker.pc # "limits" /\ (x.worker.pc = "wait" => x.worker.turn = n)
    BY <1>2 DEF Covering, Core, Plainly, Watched, n, c
  <2>5. x.worker.pc \in Before \cup Without \cup {"turn"}
    BY <1>2, Shape
  <2> QED BY <2>2, <2>3, <2>4, <2>5 DEF OnWay, Without
<1>12. z.override = x.override /\ z.turn = x.turn /\ z.runs = x.runs /\ z.task = x.task /\ z.lease = x.lease
  BY <1>8 DEF Beside, Fields
<1>13. Turned(z) = Turned(x) /\ LastRun(z) = LastRun(x)
  BY <1>12 DEF Turned, LastRun
<1>14. /\ Beside(z, a, {"task", "runs", "turn"}) /\ RowBut(x.task, a.task, {"run"})
       /\ a.task.run \in {x.task.run, "running"} /\ a.turn \in {0, n}
       /\ Turned(a) = Turned(x) \cup {n} /\ LastRun(a).turn = n
  <2>1. CASE Passed(z, id)
    <3>1. a = z
      BY <1>10, <2>1
    <3>2. n \in Turned(x)
      BY <1>1, <1>2, <1>4, <1>11, <1>12, <1>13, <2>1 DEF Passed, Covering, Core, Heard, n, c
    <3>3. LastRun(x).turn = n
      BY <1>2, <3>2, LatestRun DEF Covering, Core, n, c
    <3>4. x.turn \in {0, n}
      BY <1>2, <3>2 DEF Covering, Core, Heard, n, c
    <3>5. Beside(z, z, {"task", "runs", "turn"})
      BY <1>8 DEF Beside
    <3> QED BY <1>12, <1>13, <3>1, <3>2, <3>3, <3>4, <3>5 DEF RowBut
  <2>2. CASE ~Passed(z, id)
    <3>1. TakenUp(z, a, n, b)
      BY <1>4, <1>10, <2>2
    <3>2. n \notin Turned(x)
      BY <1>4, <1>13, <2>2 DEF Passed
    <3>3. ~Over(c)
      <4>1. Announced(c)
        BY <1>1, <1>2, <1>4, <1>11, <3>2 DEF Covering, Core, Heard, n, c
      <4> QED BY <4>1 DEF Announced, Over
    <3>4. x.lease /\ x.task.status = "in_progress"
      BY <1>2, <3>3, NotOver DEF Covering
    <3>5. x.task.conflict \in BOOLEAN /\ x.lease \in BOOLEAN
      BY <1>2, Shape, RowShape
    <3>6. /\ a.lease = z.lease /\ a.task.conflict = x.task.conflict /\ a.task.status = x.task.status
          /\ a.task.run = "running" /\ RowBut(x.task, a.task, {"status", "run", "conflict"})
      BY <1>1, <1>12, <3>1, <3>4, <3>5 DEF TakenUp
    <3>7. Beside(z, a, {"task", "runs", "turn"})
      BY <3>1, <3>6 DEF TakenUp, Beside
    <3> QED BY <1>13, <3>1, <3>6, <3>7 DEF TakenUp, RowBut, TaskFields
  <2> QED BY <2>1, <2>2
<1>15. /\ Beside(a, w, {"worker"}) /\ w.worker.pc \in {"none", "wait"}
       /\ w.worker.pc = "wait" => w.worker.turn = n
  <2>1. a.worker = x.worker
    BY <1>8, <1>14 DEF Beside, Fields
  <2>2. /\ Beside(a, w, {"worker"})
        /\ a.worker.pc # "none" => w.worker = a.worker
        /\ a.worker.pc = "none" => w.worker.pc = "wait" /\ w.worker.turn = n
    BY <1>4, <1>6, <1>10, WatchIs
  <2> QED BY <1>11, <2>1, <2>2
<1>16. /\ Beside(w, y, {"starting", "follow"}) /\ y.follow.pc = "none"
  <2>1. DOMAIN w = Fields
    BY <1>15 DEF Beside
  <2> QED BY <1>3, <2>1 DEF Beside, Fields, NoFollow
<1>17. /\ Beside(x, y, {"ops", "task", "runs", "turn", "starting", "worker", "follow"})
       /\ y.ops = z.ops /\ y.task = a.task /\ y.runs = a.runs /\ y.turn = a.turn /\ y.worker = w.worker
  BY <1>8, <1>14, <1>15, <1>16 DEF Beside, Fields
<1>18. Turned(y) = Turned(a) /\ LastRun(y) = LastRun(a)
  BY <1>17 DEF Turned, LastRun
<1>19. Len(y.ops) = o
  <2>1. Len(z.ops) = o
    BY <1>5, <1>8, <1>9, OpsOf
  <2> QED BY <1>17, <2>1
<1>20. c.calls.worker = 0
  <2>1. x.worker.pc # "turn"
    BY <1>11
  <2> QED BY <1>2, <2>1 DEF Covering, Core, Entered, Asked, Callers
<1>21. Covering(y, d, can, seen)
  <2>1. RowBut(x.task, y.task, {"run"}) /\ y.task.run \in {x.task.run, "running"}
    BY <1>14, <1>17
  <2>3. \A g \in Callers : d.calls[g] = 0
    BY <1>7, <1>20 DEF Callers
  <2>4. /\ y.worker.pc \in {"none", "wait"} /\ (y.worker.pc = "wait" => y.worker.turn = Len(c.turns))
        /\ y.follow.pc = "none"
        /\ y.turn \in {0, Len(c.turns)} /\ Turned(y) = Turned(x) \cup {Len(c.turns)}
        /\ LastRun(y).turn = Len(c.turns) /\ o = Len(x.ops) /\ c.calls[h] # 0
    BY <1>1, <1>14, <1>15, <1>16, <1>17, <1>18 DEF n, o, x, c
  <2>5. /\ DOMAIN y.ops = DOMAIN x.ops /\ y.ops[o].state = "agent_running" /\ y.ops[o].turn = Len(c.turns)
        /\ y.ops[o].prompt = x.ops[o].prompt /\ y.ops[o].prev = x.ops[o].prev
        /\ \A i \in DOMAIN x.ops : i # o => y.ops[i] = x.ops[i]
    BY <1>4, <1>8, <1>17 DEF e, n, c
  <2>6. /\ Based(x, c, can) /\ Covering(x, c, can, seen) /\ h \in Callers /\ x[h].pc = "turn"
        /\ d.turns = c.turns /\ d.inbox = c.inbox
    BY <1>1, <1>2, <1>7
  <2> QED BY <1>17, <1>19, <2>1, <2>3, <2>4, <2>5, <2>6, AnsweredCovers
<1> QED BY <1>1, <1>21, SeenCovers, SeenLess DEF Covered, y, d, can

-----------------------------------------------------------------------------
(* A follow-up.                                                              *)

\* A follow-up that starts nothing gives the task back as it was.
LEMMA RestoredCovers ==
  ASSUME NEW x, NEW c, NEW can, NEW sn, Shown(c), Typed(x, Len(c.turns)), Threadless(x), Tidy(can),
         ~Loses(can), Over(c), x.follow.pc # "none", ~OnWay(x), x.stop.pc = "none", ~x.override,
         c.calls.worker = 0, c.calls.follow = 0, ~x.task.conflict, x.task.uncertain = 0,
         x.task.status # "canceled", x.follow.row.status \in {"in_progress", "in_review"},
         \A i \in DOMAIN x.ops : x.ops[i].state # "uncertain", ~Finds(x),
         Watched(x, c), Heard(x, c, can), Tracked(x, c), Ordinal(c), Plainly(x, c, can),
         NEW y, y = Restored(x)
  PROVE  Covering(y, c, can, sn)
<1> DEFINE n == Len(c.turns)
<1>1. n \in Nat /\ x.loop.latest \in 0..n /\ x.task.paused \in BOOLEAN
  BY InboxOf, Shape, RowShape
<1>2. /\ Beside(x, y, {"queue", "lease", "task", "starting", "follow"})
      /\ y.queue.state # "pending" /\ ~y.lease /\ y.follow = NoFollow
      /\ RowBut(x.task, y.task, {"status", "run", "observe"})
      /\ y.task.status = x.follow.row.status
  BY <1>1, RestoredIs
<1>3. /\ y.worker = x.worker /\ y.stop = x.stop /\ y.override = x.override /\ y.ended = x.ended
      /\ y.loop = x.loop /\ y.limits = x.limits /\ y.ops = x.ops /\ y.runs = x.runs /\ y.turn = x.turn
      /\ y.follow.pc = "none"
  BY <1>2 DEF Beside, Fields, NoFollow
<1>4. /\ ~y.task.conflict /\ y.task.uncertain = 0 /\ y.task.thread = x.task.thread
  BY <1>2 DEF RowBut, TaskFields
<1>5. \A h \in Callers : y[h].pc # "turn" /\ c.calls[h] = 0 /\ ~Wants(y, c, h)
  BY <1>3 DEF Callers, OnWay, Wants
<1>6. n # 0 => n \in Turned(x)
  <2>1. ASSUME NEW h \in Callers, n # 0
        PROVE  ~Called(x, c, h)
    BY <2>1 DEF Called, Callers
  <2> QED BY <2>1, AllHeard DEF n
<1>7. Turned(y) = Turned(x) /\ LastRun(y) = LastRun(x)
  BY <1>3 DEF Turned, LastRun
<1> HIDE DEF n
<1>8. Leased(y, c, can) /\ Watched(y, c)
  BY <1>3 DEF Leased, Watched
<1>9. Eager(y, c, can) /\ Halted(y, c, can)
  BY <1>3, <1>5 DEF Eager, Halted, OnWay, Callers
<1>10. Heard(y, c, can)
  BY <1>3, <1>6, <1>7 DEF Heard, n
<1>11. Entered(y, c, can) /\ Certain(y, can)
  BY <1>3, <1>4, <1>5 DEF Entered, Asked, Tracked, Certain
<1>12. Waiting(y, can)
  <2>1. ~Asking(y)
    BY <1>4 DEF Asking, Threadless
  <2> QED BY <1>2, <1>3, <1>4, <2>1 DEF Waiting
<1>13. Listed(y, c, sn)
  BY <1>1, <1>3, <1>6, <1>7 DEF Listed, n
<1>14. Matching(y, c, can)
  <2>1. ~Finds(y)
    BY <1>3 DEF Finds
  <2> QED BY <2>1 DEF Matching
<1>15. Plainly(y, c, can)
  BY <1>3 DEF Plainly
<1> QED BY <1>8, <1>9, <1>10, <1>11, <1>12, <1>13, <1>14, <1>15 DEF Covering, Core, Reads

\* A follow-up that has not been carried out.
LEMMA FollowUpIs ==
  ASSUME NEW x, NEW c, NEW can, NEW sn, Based(x, c, can), Covering(x, c, can, sn),
         x.follow.pc # "none", c.calls.follow = 0
  PROVE  /\ ~Loses(can) /\ Over(c) /\ Held(x) /\ ~x.task.conflict /\ ~OnWay(x)
         /\ x.stop.pc = "none" /\ ~x.override /\ c.calls.worker = 0
         /\ x.task.uncertain = 0 /\ x.follow.row.status \in {"in_progress", "in_review"}
         /\ \A i \in DOMAIN x.ops : x.ops[i].state = "uncertain" => i = Len(x.ops) /\ x.follow.pc = "turn"
         /\ ~Finds(x) /\ x.worker.pc = "none"
<1>1. ~OnWay(x)
  BY Single
<1>2. ~Loses(can)
  BY DEF Covering, Core, Plainly
<1>3. x.stop.pc = "none" /\ ~x.override
  BY DEF Covering, Core, Halted
<1>4. c.calls.worker = 0
  BY <1>1 DEF Covering, Core, Entered, Asked, Callers, OnWay
<1>5. x.follow.pc = "options" \/ Wants(x, c, "follow")
  BY Shape, InboxOf DEF Wants, Based
<1>6. Over(c) /\ Held(x) /\ ~x.task.conflict /\ x.worker.pc = "none"
  BY <1>2, <1>5 DEF Covering, Core, Eager, Callers
<1>7. x.task.uncertain = 0 /\ x.follow.row.status \in {"in_progress", "in_review"}
  BY <1>2 DEF Covering, Core, Certain, Waiting
<1>8. \A i \in DOMAIN x.ops : x.ops[i].state = "uncertain" => i = Len(x.ops) /\ x.follow.pc = "turn"
  BY <1>1, <1>2 DEF Covering, Core, Certain, Callers, OnWay
<1>9. ~Finds(x)
  BY <1>5 DEF Covering, Reads, Matching, Callers
<1> QED BY <1>1, <1>2, <1>3, <1>4, <1>6, <1>7, <1>8, <1>9

LEMMA FollowUpSubmitCovered ==
  ASSUME Grounds, FollowUpSubmit
  PROVE  Covered
<1> DEFINE n == Len(codex.turns)
           can == left.can
           x == s
           y == s'
           c == codex
           h == "follow"
<1>1. codex' = codex /\ Unseen /\ x.follow.pc = "options" /\ h \in {"worker", "follow"} /\ h \in Callers
      /\ x[h] = x.follow
  BY DEF FollowUpSubmit, Callers
<1>2. /\ Covering(x, c, can, seen) /\ Based(x, c, can) /\ Typed(y, n) /\ n \in Nat /\ Shown(c)
      /\ Threadless(x) /\ Tidy(can) /\ Typed(x, n)
  BY <1>1, Grounded DEF Based
<1>3. c.calls.follow = 0
  BY <1>1, <1>2 DEF Covering, Core, Entered, Asked, Callers
<1>4. /\ ~Loses(can) /\ Over(c) /\ Held(x) /\ ~x.task.conflict /\ ~OnWay(x)
      /\ x.stop.pc = "none" /\ ~x.override /\ c.calls.worker = 0
      /\ x.task.uncertain = 0 /\ x.follow.row.status \in {"in_progress", "in_review"}
      /\ \A i \in DOMAIN x.ops : x.ops[i].state # "uncertain"
      /\ ~Finds(x) /\ x.worker.pc = "none"
  BY <1>1, <1>2, <1>3, FollowUpIs
<1>5. Uncertain(x) = {}
  BY <1>4 DEF Uncertain
<1>6. y = Restored(x) \/ y = SubmitBy(h)
  BY <1>5 DEF FollowUpSubmit
<1>7. y = SubmitBy(h) =>
        /\ Beside(x, y, {"ops", h}) /\ Len(y.ops) = Len(x.ops) + 1
        /\ \A i \in 1..Len(x.ops) : y.ops[i] = x.ops[i]
        /\ y.ops[Len(x.ops) + 1].prompt = x[h].prompt
        /\ y.ops[Len(x.ops) + 1].state = "uncertain" /\ y.ops[Len(x.ops) + 1].turn = 0
        /\ y.ops[Len(x.ops) + 1].prev = LastRun(x).turn
        /\ y[h].pc = "turn" /\ y[h].prompt = x[h].prompt
        /\ y[h].op = Len(x.ops) + 1 /\ y[h].row = x.follow.row
  BY <1>1, SubmittedIs DEF Grounds
<1> HIDE DEF n, can, x, y, c, h
<1>8. CASE y = Restored(x)
  <2>1. Watched(x, c) /\ Heard(x, c, can) /\ Tracked(x, c) /\ Ordinal(c) /\ Plainly(x, c, can)
    BY <1>2 DEF Covering, Core, Entered
  <2>2. x.task.status # "canceled" /\ x.follow.pc # "none" /\ Typed(x, Len(c.turns))
    BY <1>1, <1>2, <1>4 DEF Held, Going, n, c
  <2>3. Covering(y, c, can, seen)
    BY <1>2, <1>3, <1>4, <1>8, <2>1, <2>2, RestoredCovers
  <2> QED BY <1>1, <2>3, SameCovered DEF y, c, can
<1>9. CASE y = SubmitBy(h)
  <2>1. DOMAIN y.ops = 1..(Len(x.ops) + 1)
    BY <1>2, <1>7, <1>9, OpsOf
  <2>2. x[h].pc = "options" /\ (h = "follow" => x.worker.pc = "none") /\ (Loses(can) \/ ~x.task.conflict)
    BY <1>1, <1>4
  <2>3. Covering(y, c, can, seen)
    BY <1>1, <1>2, <1>4, <1>5, <1>7, <1>9, <2>1, <2>2, SubmittedCovers
  <2> QED BY <1>1, <2>3, SameCovered DEF y, c, can
<1> QED BY <1>6, <1>8, <1>9

\* A start that is refused: the row before the follow-up is restored.
LEMMA FollowUpNotStartedCovered ==
  ASSUME Grounds, FollowUpNotStarted
  PROVE  Covered
<1> DEFINE n == Len(codex.turns)
           can == left.can
           x == s
           y == s'
           c == codex
           d == codex'
           h == "follow"
           z == IF x.follow.pc = "turn" THEN Refused("follow") ELSE x
<1>1. /\ Unseen /\ x.follow.pc # "none"
      /\ \/ c.calls.follow = 0 /\ y = Restored(z) /\ d = c
         \/ "lost" \in can
  <2>1. ASSUME NEW broken \in BOOLEAN, GivesUp(broken)
        PROVE  "lost" \in left.can
    BY <2>1, TidyGivesUp DEF Loses, Grounds
  <2> QED BY <2>1 DEF FollowUpNotStarted
<1>2. /\ Covering(x, c, can, seen) /\ Based(x, c, can) /\ Shown(c)
      /\ Threadless(x) /\ Tidy(can) /\ Typed(x, n)
  BY <1>1, Grounded DEF Based
<1>3. "lost" \notin can
  <2>1. Plainly(x, c, can)
    BY <1>2 DEF Covering, Core
  <2> QED BY <1>1, <2>1 DEF Plainly, Loses
<1>4. /\ d.turns = c.turns /\ d.inbox = c.inbox /\ d.calls.worker = c.calls.worker
      /\ d.calls.follow = 0 /\ c.calls.follow = 0
  BY <1>1, <1>3
<1>5. /\ ~Loses(can) /\ Over(c) /\ Held(x) /\ ~x.task.conflict /\ ~OnWay(x)
      /\ x.stop.pc = "none" /\ ~x.override /\ c.calls.worker = 0
      /\ x.task.uncertain = 0 /\ x.follow.row.status \in {"in_progress", "in_review"}
      /\ \A i \in DOMAIN x.ops : x.ops[i].state = "uncertain" => i = Len(x.ops) /\ x.follow.pc = "turn"
      /\ ~Finds(x) /\ x.worker.pc = "none"
  BY <1>1, <1>2, <1>4, FollowUpIs
<1>6. n \in Nat /\ Asked(x, c) /\ Tracked(x, c) /\ Watched(x, c) /\ Heard(x, c, can) /\ Ordinal(c) /\ Plainly(x, c, can)
  BY <1>2, TurnsOf DEF Covering, Core, Entered
<1> DEFINE e == "blocked"
           t == 0
           o == x.follow.op
           r == SetOp(x, o, e, t)
<1>7. (y = Restored(x) /\ x.follow.pc = "options") \/ (y = Restored(r) /\ x.follow.pc = "turn")
  <2>1. x.follow.pc \in {"options", "turn"}
    BY <1>1, <1>2, <1>6, Shape
  <2>2. CASE x.follow.pc = "turn"
    BY <1>1, <1>3, <2>2 DEF Refused
  <2>3. CASE x.follow.pc = "options"
    <3>1. z = x
      BY <2>3
    <3>2. y = Restored(z)
      BY <1>1, <1>3
    <3> HIDE DEF x, y, z, can
    <3> QED BY <2>3, <3>1, <3>2
  <2> QED BY <2>1, <2>2, <2>3
<1>8. e = "blocked" /\ t = 0 /\ e \in OpState /\ t \in Nat
  BY DEF OpState
<1>9. x.follow.pc = "turn" => o = Len(x.ops) /\ o \in DOMAIN x.ops
  <2>1. x.follow.pc = "turn" => x.follow.op = Len(x.ops) /\ Len(x.ops) # 0
    BY <1>6 DEF Asked, Callers
  <2> QED BY <1>2, <2>1, OpsOf
<1> HIDE DEF n, can, x, y, c, d, h, e, t, o, r
<1>10. x.task.status # "canceled"
  BY <1>5 DEF Held, Going
<1>11. ASSUME y = Restored(x) /\ x.follow.pc = "options"
       PROVE  Covering(y, c, can, seen)
  <2>1. \A i \in DOMAIN x.ops : x.ops[i].state # "uncertain"
    BY <1>5, <1>11
  <2>2. Typed(x, Len(c.turns))
    BY <1>2 DEF n, c
  <2> QED BY <1>1, <1>2, <1>4, <1>5, <1>6, <1>10, <1>11, <2>1, <2>2, RestoredCovers
<1>12. ASSUME y = Restored(r) /\ x.follow.pc = "turn"
       PROVE  Covering(y, c, can, seen)
  <2>1. o \in DOMAIN x.ops /\ Typed(x, n) /\ r = SetOp(x, o, e, t)
    BY <1>2, <1>9, <1>12 DEF r
  <2>2. /\ Beside(x, r, {"ops"}) /\ DOMAIN r.ops = DOMAIN x.ops
        /\ r.ops[o].state = e /\ r.ops[o].turn = t
        /\ r.ops[o].prompt = x.ops[o].prompt /\ r.ops[o].prev = x.ops[o].prev
        /\ \A j \in DOMAIN x.ops : j # o => r.ops[j] = x.ops[j]
    BY <2>1, SetOpIs
  <2>3. Typed(r, n) /\ Len(r.ops) = Len(x.ops)
    <3>1. n \in Nat /\ Typed(x, n) /\ r = SetOp(x, o, e, t)
      BY <1>6, <2>1
    <3>2. e \in OpState /\ t \in Nat /\ (e \in {"uncertain", "blocked"} \/ t # 0)
      BY <1>8
    <3> HIDE DEF z
    <3> QED BY <3>1, <3>2, SetOpFiled
  <2>4. /\ r.task = x.task /\ r.follow = x.follow /\ r.worker = x.worker /\ r.stop = x.stop
        /\ r.override = x.override /\ r.loop = x.loop /\ r.turn = x.turn /\ r.runs = x.runs
        /\ r.ended = x.ended /\ r.queue = x.queue /\ r.lease = x.lease /\ r.limits = x.limits
    BY <2>2 DEF Beside, Fields
  <2>5. \A i \in DOMAIN r.ops : r.ops[i].prompt = x.ops[i].prompt /\ r.ops[i].prev = x.ops[i].prev
    BY <2>2
  <2>6. \A i \in DOMAIN r.ops : r.ops[i].state # "uncertain"
    BY <1>5, <1>8, <1>9, <1>12, <2>2
  <2>7. ~OnWay(r) /\ Threadless(r)
    <3>1. x.task.thread
      BY <1>1, <1>2 DEF Threadless
    <3> QED BY <1>5, <2>4, <3>1 DEF OnWay, Threadless
  <2>8. Watched(r, c) /\ Heard(r, c, can) /\ Plainly(r, c, can)
    BY <1>6, <2>4 DEF Watched, Heard, Plainly, Turned, LastRun, Called, Callers
  <2>9. ~Finds(r)
    <3>1. Finds(r) => Finds(x)
      <4>1. AllFiled(x)
        BY <1>2, Single
      <4>2. x.loop.pc = "recover" => x.loop.op \in DOMAIN x.ops
        BY <1>2, <4>1, OpsOf DEF AllFiled
      <4> QED BY <2>2, <2>4, <2>5, <4>2 DEF Finds
    <3> QED BY <1>5, <3>1
  <2>10. Tracked(r, c)
    <3>1. Len(x.ops) # 0 => Len(x.ops) \in DOMAIN r.ops
      BY <1>9, <1>12, <2>2
    <3>2. \A i \in DOMAIN r.ops : r.ops[i].turn = x.ops[i].turn \/ r.ops[i].turn = 0
      BY <1>8, <2>2
    <3> QED BY <1>6, <2>2, <2>3, <2>5, <3>1, <3>2 DEF Tracked
  <2>11. /\ r.follow.pc # "none" /\ r.stop.pc = "none" /\ ~r.override
         /\ ~r.task.conflict /\ r.task.uncertain = 0 /\ r.task.status # "canceled"
         /\ r.follow.row.status \in {"in_progress", "in_review"} /\ Typed(r, Len(c.turns))
         /\ y = Restored(r)
    BY <1>1, <1>5, <1>10, <1>12, <2>3, <2>4 DEF n, c
  <2> QED BY <1>2, <1>4, <1>5, <1>6, <2>6, <2>7, <2>8, <2>9, <2>10, <2>11, RestoredCovers
<1>13. Covering(y, c, can, seen)
  BY <1>7, <1>11, <1>12
<1>14. d.calls = c.calls
  BY <1>1, <1>3
<1> QED BY <1>1, <1>4, <1>13, <1>14, SameCovered DEF y, c, d, can

-----------------------------------------------------------------------------
(* What users ask for, and what the loop does.                               *)

\* The row and the prompt that waits are marked.
LEMMA QueueCovers ==
  ASSUME NEW x, NEW c, NEW can, NEW sn, Covering(x, c, can, sn),
         NEW y, Beside(x, y, {"task", "queue"}), RowBut(x.task, y.task, {"paused", "conflict"}),
         y.task.paused => y.queue.state # "pending" /\ ~Loses(can),
         y.queue.state = "pending" => Busy(x) \/ y.task.conflict,
         y.task.conflict = x.task.conflict \/ (~Loses(can) /\ ~y.task.conflict),
         x.loop.pc = "recover" => Unqueued(x, y)
  PROVE  Covering(y, c, can, sn)
<1>1. /\ y.worker = x.worker /\ y.follow = x.follow /\ y.stop = x.stop /\ y.override = x.override
      /\ y.loop = x.loop /\ y.limits = x.limits /\ y.ops = x.ops /\ y.ended = x.ended
      /\ y.lease = x.lease /\ y.runs = x.runs /\ y.turn = x.turn
  BY DEF Beside, Fields
<1>2. /\ y.task.status = x.task.status /\ y.task.run = x.task.run
      /\ y.task.uncertain = x.task.uncertain /\ y.task.thread = x.task.thread
  BY DEF RowBut, TaskFields
<1>3. \A h \in Callers : y[h] = x[h]
  BY <1>1 DEF Callers
<1>4. \A h \in Callers : (Called(y, c, h) <=> Called(x, c, h)) /\ (Wants(y, c, h) <=> Wants(x, c, h))
  BY <1>3 DEF Called, Wants
<1>5. Turned(y) = Turned(x) /\ LastRun(y) = LastRun(x)
  BY <1>1 DEF Turned, LastRun
<1>6. (Busy(y) <=> Busy(x)) /\ (Asking(y) <=> Asking(x)) /\ (OnWay(y) <=> OnWay(x)) /\ (Held(y) <=> Held(x))
  BY <1>1, <1>2 DEF Busy, Asking, OnWay, Held, Going
<1>7. Leased(y, c, can)
  BY <1>1, <1>2 DEF Covering, Core, Leased
<1>8. Eager(y, c, can)
  BY <1>1, <1>2, <1>4, <1>6 DEF Covering, Core, Eager, Callers
<1>9. Halted(y, c, can) /\ Watched(y, c)
  BY <1>1, <1>6 DEF Covering, Core, Halted, Watched
<1>10. Heard(y, c, can)
  BY <1>1, <1>4, <1>5 DEF Covering, Core, Heard
<1>11. Entered(y, c, can) /\ Certain(y, can)
  BY <1>1, <1>2, <1>3 DEF Covering, Core, Entered, Asked, Tracked, Certain
<1>12. Ordinal(c) /\ Plainly(y, c, can)
  BY <1>1 DEF Covering, Core, Plainly
<1>13. Waiting(y, can)
  <2>1. Waiting(x, can)
    BY DEF Covering, Core
  <2> QED BY <1>1, <1>2, <1>6, <2>1 DEF Waiting
<1>14. Listed(y, c, sn)
  BY <1>1, <1>3, <1>5 DEF Covering, Reads, Listed
<1>15. Matching(y, c, can)
  <2>1. (Finds(y) <=> Finds(x)) /\ (Finds(x) => x.loop.pc = "recover")
    BY <1>1 DEF Finds
  <2> QED BY <1>1, <1>4, <1>5, <2>1 DEF Covering, Reads, Matching, Unqueued
<1> QED BY <1>7, <1>8, <1>9, <1>10, <1>11, <1>12, <1>13, <1>14, <1>15 DEF Covering, Core, Reads

\* A prompt is claimed, and the worker or a follow-up begins.
LEMMA StartingCovers ==
  ASSUME NEW x, NEW c, NEW can, NEW sn, Covering(x, c, can, sn), Over(c), x.follow.pc = "none", x.stop.pc = "none",
         NEW y, Beside(x, y, {"task", "queue", "lease", "worker", "starting", "follow", "loop"}),
         RowBut(x.task, y.task, {"paused", "conflict", "status", "run"}),
         Held(y), ~y.task.paused, Loses(can) \/ ~y.task.conflict,
         y.worker = x.worker \/ (x.worker.pc = "none" /\ y.worker.pc = "begin"),
         \/ y.follow = x.follow
         \/ /\ y.follow.pc = "options" /\ y.follow.row.status \in {"in_progress", "in_review"}
            /\ ~Loses(can) /\ x.worker.pc = "none" /\ y.worker = x.worker,
         x.loop.pc # "recover", y.loop = x.loop \/ y.loop.pc = "idle",
         NEW n, n = Len(c.turns), n \in Nat, c.calls.worker # 0 => x.worker.pc = "turn",
         c.calls.follow = 0
  PROVE  Covering(y, c, can, sn)
<1>1. /\ y.stop = x.stop /\ y.override = x.override /\ y.limits = x.limits /\ y.ops = x.ops
      /\ y.ended = x.ended /\ y.runs = x.runs /\ y.turn = x.turn
  BY DEF Beside, Fields
<1>2. y.task.uncertain = x.task.uncertain /\ y.task.thread = x.task.thread
  BY DEF RowBut, TaskFields
<1>3. \A h \in Callers : (y[h].pc = "turn" <=> x[h].pc = "turn") /\ (y[h].pc = "turn" => y[h] = x[h])
  <2>1. (y.worker.pc = "turn" <=> x.worker.pc = "turn") /\ (y.worker.pc = "turn" => y.worker = x.worker)
    OBVIOUS
  <2>2. y.follow.pc # "turn" /\ x.follow.pc # "turn"
    OBVIOUS
  <2> QED BY <2>1, <2>2 DEF Callers
<1>4. \A h \in Callers : (Called(y, c, h) <=> Called(x, c, h)) /\ (Wants(y, c, h) <=> Wants(x, c, h))
  BY <1>3 DEF Called, Wants
<1>5. Turned(y) = Turned(x) /\ LastRun(y) = LastRun(x)
  BY <1>1 DEF Turned, LastRun
<1>6. Busy(y) /\ y.lease /\ y.task.status = "in_progress" /\ Going(y)
  BY DEF Busy, Held, Going
<1>7. Leased(y, c, can)
  BY DEF Leased
<1>8. Eager(y, c, can)
  <2>1. \A h \in Callers : Wants(y, c, h) => y.ops[Len(y.ops)].prev = Len(c.turns)
    BY <1>1, <1>4 DEF Covering, Core, Eager
  <2>2. ~Wants(y, c, "follow")
    BY DEF Wants
  <2>3. y.follow.pc = "options" => y.worker.pc = "none" /\ ~y.task.conflict
    OBVIOUS
  <2> QED BY <2>1, <2>2, <2>3 DEF Eager
<1>9. Halted(y, c, can) /\ Watched(y, c)
  BY <1>1 DEF Covering, Core, Halted, Watched
<1>10. Heard(y, c, can)
  BY <1>1, <1>4, <1>5 DEF Covering, Core, Heard
<1>11. Entered(y, c, can) /\ Certain(y, can)
  BY <1>1, <1>2, <1>3 DEF Covering, Core, Entered, Asked, Tracked, Certain
<1>12. Ordinal(c) /\ Plainly(y, c, can)
  BY <1>1 DEF Covering, Core, Plainly
<1>13. Waiting(y, can)
  BY <1>6 DEF Waiting, Asking
<1>14. Listed(y, c, sn)
  BY <1>1, <1>3, <1>5 DEF Covering, Reads, Listed
<1>15. Matching(y, c, can)
  BY DEF Finds, Matching
<1> QED BY <1>7, <1>8, <1>9, <1>10, <1>11, <1>12, <1>13, <1>14, <1>15 DEF Covering, Core, Reads

\* The loop reads, or is done.
LEMMA LoopCovers ==
  ASSUME NEW x, NEW c, NEW can, NEW sn, Core(x, c, can), NEW y, Beside(x, y, {"loop"}),
         NEW tn, Listed(y, c, tn), Matching(y, c, can), y.loop.pc # "limits",
         y.loop.pc \in {"sync", "recover"} =>
           y.loop.state # "quota" /\ (Loses(can) => y.loop.state \in {"active", "completed", "none"})
  PROVE  Covering(y, c, can, tn)
<1>1. /\ y.worker = x.worker /\ y.follow = x.follow /\ y.stop = x.stop /\ y.override = x.override
      /\ y.task = x.task /\ y.queue = x.queue /\ y.limits = x.limits /\ y.ops = x.ops
      /\ y.ended = x.ended /\ y.lease = x.lease /\ y.runs = x.runs /\ y.turn = x.turn
  BY DEF Beside, Fields
<1>2. \A h \in Callers : y[h] = x[h]
  BY <1>1 DEF Callers
<1>3. \A h \in Callers : (Called(y, c, h) <=> Called(x, c, h)) /\ (Wants(y, c, h) <=> Wants(x, c, h))
  BY <1>2 DEF Called, Wants
<1>4. Turned(y) = Turned(x) /\ LastRun(y) = LastRun(x)
  BY <1>1 DEF Turned, LastRun
<1>5. (Busy(y) <=> Busy(x)) /\ (Asking(y) <=> Asking(x)) /\ (OnWay(y) <=> OnWay(x)) /\ (Held(y) <=> Held(x))
  BY <1>1 DEF Busy, Asking, OnWay, Held, Going
<1>6. Leased(y, c, can)
  BY <1>1 DEF Core, Leased
<1>7. Eager(y, c, can)
  BY <1>1, <1>3, <1>5 DEF Core, Eager, Callers
<1>8. Halted(y, c, can) /\ Watched(y, c)
  BY <1>1, <1>5 DEF Core, Halted, Watched
<1>9. Heard(y, c, can)
  BY <1>1, <1>3, <1>4 DEF Core, Heard
<1>10. Entered(y, c, can) /\ Certain(y, can)
  BY <1>1, <1>2 DEF Core, Entered, Asked, Tracked, Certain
<1>11. Ordinal(c) /\ Plainly(y, c, can)
  BY <1>1 DEF Core, Plainly
<1>12. Waiting(y, can)
  <2>1. Waiting(x, can)
    BY DEF Core
  <2> QED BY <1>1, <1>5, <2>1 DEF Waiting
<1> QED BY <1>6, <1>7, <1>8, <1>9, <1>10, <1>11, <1>12 DEF Covering, Core, Reads

LEMMA LoopReset ==
  ASSUME NEW x, NEW c, NEW can, NEW sn, Core(x, c, can), NEW y, Beside(x, y, {"loop"}),
         y.loop.pc \in {"idle", "reconcile"}, NEW tn
  PROVE  Covering(y, c, can, tn)
<1>1. Listed(y, c, tn) /\ Matching(y, c, can)
  BY DEF Listed, Matching, Finds
<1> QED BY <1>1, LoopCovers

\* The latest turn is taken up, found or watched.
Takes(x, y, c, can, n) ==
  /\ Beside(x, y, {"task", "turn", "runs", "lease", "ops", "worker", "loop"})
  /\ y.worker = x.worker \/ (x.worker.pc = "none" /\ y.worker.pc = "wait" /\ y.worker.turn = n)
  /\ y.loop = x.loop \/ y.loop.pc \in {"idle", "reconcile"}
  /\ \/ Turned(y) = Turned(x) /\ LastRun(y).turn = LastRun(x).turn
     \/ Turned(y) = Turned(x) \cup {n} /\ LastRun(y).turn = n /\ y.turn = n
  /\ y.turn \in {x.turn, n}
  /\ y.turn = n => "missed" \in can \/ n \in Turned(y)
  /\ DOMAIN y.ops = DOMAIN x.ops /\ Len(y.ops) = Len(x.ops)
  /\ \A i \in DOMAIN x.ops :
       /\ y.ops[i].prompt = x.ops[i].prompt /\ y.ops[i].prev = x.ops[i].prev
       /\ \/ y.ops[i].turn = x.ops[i].turn
          \/ y.ops[i].turn = n /\ c.turns[n].prompt = x.ops[i].prompt
       /\ y.ops[i].state = "uncertain" => x.ops[i].state = "uncertain"
  /\ y.task.uncertain = 0 \/ (y.task.uncertain = x.task.uncertain /\ y.ops = x.ops)

LEMMA TakenParts ==
  ASSUME NEW x, NEW c, NEW can, Based(x, c, can), Core(x, c, can),
         NEW n, n = Len(c.turns), n # 0, NEW y, Takes(x, y, c, can, n)
  PROVE  /\ Halted(y, c, can) /\ Watched(y, c) /\ Heard(y, c, can) /\ Entered(y, c, can)
         /\ Certain(y, can) /\ Ordinal(c) /\ Plainly(y, c, can)
         /\ Turned(x) \subseteq Turned(y)
         /\ \A h \in Callers : (Called(y, c, h) <=> Called(x, c, h)) /\ (Wants(y, c, h) <=> Wants(x, c, h))
         /\ \A h \in Callers : (y[h].pc = "turn" <=> x[h].pc = "turn") /\ (y[h].pc = "turn" => y[h] = x[h])
<1>1. /\ n \in Nat /\ Turned(x) \subseteq Nat /\ n \in DOMAIN c.turns
      /\ DOMAIN x.ops = 1..Len(x.ops) /\ Len(x.ops) \in Nat
  BY InboxOf, RunsOf, OpsOf DEF Based
<1>2. /\ y.follow = x.follow /\ y.stop = x.stop /\ y.override = x.override
      /\ y.queue = x.queue /\ y.limits = x.limits /\ y.ended = x.ended
  BY DEF Takes, Beside, Fields
<1>3. y.worker = x.worker \/ (x.worker.pc = "none" /\ y.worker.pc = "wait" /\ y.worker.turn = n)
  BY DEF Takes
<1>4. \A h \in Callers : (y[h].pc = "turn" <=> x[h].pc = "turn") /\ (y[h].pc = "turn" => y[h] = x[h])
  <2>1. (y.worker.pc = "turn" <=> x.worker.pc = "turn") /\ (y.worker.pc = "turn" => y.worker = x.worker)
    BY <1>3
  <2> QED BY <1>2, <2>1 DEF Callers
<1>5. \A h \in Callers : (Called(y, c, h) <=> Called(x, c, h)) /\ (Wants(y, c, h) <=> Wants(x, c, h))
  BY <1>4 DEF Called, Wants
<1>6. OnWay(y) <=> OnWay(x)
  BY <1>3 DEF Before, OnWay
<1>7. \/ Turned(y) = Turned(x) /\ LastRun(y).turn = LastRun(x).turn
      \/ Turned(y) = Turned(x) \cup {n} /\ LastRun(y).turn = n /\ y.turn = n
  BY DEF Takes
<1>8. Turned(x) \subseteq Turned(y) /\ Turned(y) \subseteq Turned(x) \cup {n}
  BY <1>7
<1>9. LastRun(x).turn <= n /\ (\A t \in Turned(x) : t <= LastRun(x).turn) /\ LastRun(x).turn \in Nat
  BY RunsOf DEF Core, Heard, Based
<1>10. Halted(y, c, can)
  BY <1>2, <1>6 DEF Core, Halted
<1>11. Watched(y, c)
  BY <1>2, <1>3 DEF Core, Watched
<1>12. Heard(y, c, can)
  <2>1. LastRun(y).turn <= n /\ \A t \in Turned(y) : t <= LastRun(y).turn
    <3>1. CASE Turned(y) = Turned(x) /\ LastRun(y).turn = LastRun(x).turn
      BY <1>9, <3>1
    <3>2. CASE Turned(y) = Turned(x) \cup {n} /\ LastRun(y).turn = n
      <4>1. \A t \in Turned(x) : t <= n
        BY <1>1, <1>9
      <4> QED BY <1>1, <3>2, <4>1
    <3> QED BY <1>7, <3>1, <3>2
  <2>2. y.turn \in {0, n} \/ n \notin Turned(y)
    <3>1. y.turn \in {x.turn, n}
      BY DEF Takes
    <3>2. x.turn \in {0, n} \/ n \notin Turned(x)
      BY DEF Core, Heard
    <3> QED BY <1>7, <3>1, <3>2
  <2>3. \A i \in 1..(n - 1) : i \in Turned(y)
    BY <1>8 DEF Core, Heard
  <2>4. n \notin Turned(y) =>
          /\ "missed" \in can \/ Announced(c)
          /\ Loses(can) \/ \E h \in Callers : Called(y, c, h)
    BY <1>1, <1>5, <1>8 DEF Core, Heard
  <2>5. y.turn = n => "missed" \in can \/ n \in Turned(y)
    BY DEF Takes
  <2> QED BY <2>1, <2>2, <2>3, <2>4, <2>5 DEF Heard
<1>13. /\ DOMAIN y.ops = DOMAIN x.ops /\ Len(y.ops) = Len(x.ops)
       /\ \A i \in DOMAIN x.ops :
            /\ y.ops[i].prompt = x.ops[i].prompt /\ y.ops[i].prev = x.ops[i].prev
            /\ \/ y.ops[i].turn = x.ops[i].turn
               \/ y.ops[i].turn = n /\ c.turns[n].prompt = x.ops[i].prompt
            /\ y.ops[i].state = "uncertain" => x.ops[i].state = "uncertain"
       /\ y.task.uncertain = 0 \/ (y.task.uncertain = x.task.uncertain /\ y.ops = x.ops)
  BY DEF Takes
<1>14. Entered(y, c, can)
  <2>1. Asked(x, c) /\ Tracked(x, c)
    BY DEF Core, Entered
  <2>2. Len(x.ops) # 0 => Len(x.ops) \in DOMAIN x.ops
    BY <1>1
  <2>3. Asked(y, c)
    <3>1. \A h \in Callers : y[h].pc = "turn" =>
            /\ y[h].op = Len(y.ops) /\ Len(y.ops) # 0
            /\ y.ops[Len(y.ops)].prompt = y[h].prompt /\ y.task.uncertain = 0
      BY <1>4, <1>13, <2>1, <2>2 DEF Asked
    <3>2. \A h \in Callers : c.calls[h] # 0 =>
            /\ y[h].pc = "turn" /\ c.calls[h] = Len(c.turns)
            /\ c.turns[Len(c.turns)].prompt = y[h].prompt
      BY <1>4, <2>1 DEF Asked
    <3> QED BY <3>1, <3>2 DEF Asked
  <2>4. Tracked(y, c)
    <3>1. Len(y.ops) # 0 =>
            \/ y.ops[Len(y.ops)].prev = Len(c.turns)
            \/ /\ y.ops[Len(y.ops)].prev + 1 = Len(c.turns)
               /\ c.turns[Len(c.turns)].prompt = y.ops[Len(y.ops)].prompt
      BY <1>13, <2>1, <2>2 DEF Tracked
    <3>2. \A i \in DOMAIN y.ops : y.ops[i].turn # 0 =>
            y.ops[i].turn \in DOMAIN c.turns /\ c.turns[y.ops[i].turn].prompt = y.ops[i].prompt
      BY <1>1, <1>13, <2>1 DEF Tracked
    <3> QED BY <3>1, <3>2 DEF Tracked
  <2> QED BY <2>3, <2>4 DEF Entered
<1>15. Certain(y, can)
  <2>1. Certain(x, can)
    BY DEF Core
  <2>2. \A i \in DOMAIN y.ops : y.ops[i].state = "uncertain" => i = Len(y.ops)
    BY <1>13, <2>1 DEF Certain
  <2>3. y.task.uncertain # 0 =>
          y.task.uncertain = Len(y.ops) /\ y.ops[Len(y.ops)].state = "uncertain"
    BY <1>13, <2>1 DEF Certain
  <2>4. ~Loses(can) =>
          /\ y.task.uncertain = 0
          /\ \A i \in DOMAIN y.ops : y.ops[i].state = "uncertain" => \E h \in Callers : y[h].pc = "turn"
    BY <1>4, <1>13, <2>1 DEF Certain
  <2> QED BY <2>2, <2>3, <2>4 DEF Certain
<1>16. y.worker.pc # "limits" /\ y.loop.pc # "limits"
  <2>1. x.worker.pc # "limits" /\ x.loop.pc # "limits"
    BY DEF Core, Plainly
  <2>2. y.loop = x.loop \/ y.loop.pc \in {"idle", "reconcile"}
    BY DEF Takes
  <2> QED BY <1>3, <2>1, <2>2
<1>17. y.loop.pc \in {"sync", "recover"} => y.loop = x.loop
  BY DEF Takes
<1>18. Ordinal(c) /\ Plainly(y, c, can)
  BY <1>2, <1>16, <1>17 DEF Core, Plainly
<1> QED BY <1>4, <1>5, <1>8, <1>10, <1>11, <1>12, <1>14, <1>15, <1>18

\* The turn goes on under the lease, or nothing more is to be heard of it.
LEMMA TakenOn ==
  ASSUME NEW x, NEW c, NEW can, NEW sn, Based(x, c, can), Covering(x, c, can, sn), Nobody(x, c),
         NEW n, n = Len(c.turns), n # 0, NEW y, Takes(x, y, c, can, n),
         y.task.paused = x.task.paused, y.task.thread = x.task.thread, y.task.status = "in_progress",
         x.lease => y.lease, ~Over(c) => y.lease, y.task.conflict => x.task.conflict,
         \/ y.task.run = "running"
         \/ /\ y.task.run = x.task.run /\ y.task.conflict = x.task.conflict
            /\ x.task.status = "in_progress",
         y.task.conflict /\ ~Loses(can) => y.lease,
         x.queue.state = "pending" /\ y.task.run = "running" => y.lease \/ y.task.conflict
  PROVE  Covering(y, c, can, sn)
<1>1. /\ Halted(y, c, can) /\ Watched(y, c) /\ Heard(y, c, can) /\ Entered(y, c, can)
      /\ Certain(y, can) /\ Ordinal(c) /\ Plainly(y, c, can)
      /\ Turned(x) \subseteq Turned(y)
      /\ \A h \in Callers : (Called(y, c, h) <=> Called(x, c, h)) /\ (Wants(y, c, h) <=> Wants(x, c, h))
      /\ \A h \in Callers : (y[h].pc = "turn" <=> x[h].pc = "turn") /\ (y[h].pc = "turn" => y[h] = x[h])
  BY TakenParts DEF Covering
<1>2. y.follow = x.follow /\ y.queue = x.queue
  BY DEF Takes, Beside, Fields
<1>3. y.worker.pc \notin Before /\ y.follow.pc # "options" /\ (OnWay(y) <=> OnWay(x))
      /\ \A h \in Callers : ~Wants(y, c, h)
  <2>1. y.worker = x.worker \/ (x.worker.pc = "none" /\ y.worker.pc = "wait")
    BY DEF Takes
  <2> QED BY <1>1, <1>2, <2>1 DEF Nobody, Before, OnWay
<1>4. Leased(x, c, can) /\ Waiting(x, can)
  BY DEF Covering, Core
<1>5. Leased(y, c, can)
  BY <1>4 DEF Leased
<1>6. Eager(y, c, can)
  BY <1>3 DEF Eager, Callers
<1>7. Waiting(y, can)
  <2>1. y.queue.state = "pending" => Busy(y) \/ y.task.conflict
    <3>1. CASE y.task.run = "running"
      BY <1>2, <3>1 DEF Busy
    <3>2. CASE y.task.run = x.task.run /\ y.task.conflict = x.task.conflict
      BY <1>2, <1>4, <3>2 DEF Busy, Waiting
    <3> QED BY <3>1, <3>2
  <2>2. Asking(y) => y.lease /\ (Loses(can) \/ ~y.task.conflict)
    <3>1. Asking(y) => Asking(x)
      BY DEF Asking
    <3> QED BY <1>4, <3>1 DEF Waiting
  <2> QED BY <1>2, <1>4, <2>1, <2>2 DEF Waiting
<1>8. Reads(y, c, can, sn)
  <2>1. CASE y.loop.pc \in {"idle", "reconcile"}
    BY <2>1 DEF Reads, Listed, Matching, Finds
  <2>2. CASE y.loop = x.loop
    <3>1. /\ DOMAIN x.ops = 1..Len(x.ops) /\ Len(x.ops) \in Nat /\ AllFiled(x)
          /\ \A i \in DOMAIN x.ops : y.ops[i].prompt = x.ops[i].prompt /\ y.ops[i].prev = x.ops[i].prev
          /\ Len(y.ops) = Len(x.ops)
      BY OpsOf, Single DEF Based, Takes
    <3>2. Finds(y) <=> Finds(x)
      BY <2>2, <3>1 DEF Finds, AllFiled
    <3>3. Listed(x, c, sn) /\ Matching(x, c, can)
      BY DEF Covering, Reads
    <3>4. Listed(y, c, sn)
      BY <1>1, <2>2, <3>3 DEF Listed
    <3>5. Matching(y, c, can)
      <4>1. Finds(y) => Len(x.ops) \in DOMAIN x.ops
        BY <3>1, <3>2, <3>3 DEF Matching, Finds, AllFiled
      <4> QED BY <1>1, <1>2, <1>3, <2>2, <3>1, <3>2, <3>3, <4>1 DEF Matching
    <3> QED BY <3>4, <3>5 DEF Reads
  <2>3. y.loop = x.loop \/ y.loop.pc \in {"idle", "reconcile"}
    BY DEF Takes
  <2> QED BY <2>1, <2>2, <2>3
<1> QED BY <1>1, <1>5, <1>6, <1>7, <1>8 DEF Covering, Core

\* The latest turn, which is active, is taken up, found or watched.
LEMMA TakenCovers ==
  ASSUME NEW x, NEW c, NEW can, NEW sn, Based(x, c, can), Covering(x, c, can, sn), Live(c),
         NEW n, n = Len(c.turns),
         NEW y, Beside(x, y, {"task", "turn", "runs", "lease", "ops", "worker", "loop"}),
         y.task.paused = x.task.paused, y.task.thread = x.task.thread,
         y.lease, y.task.status = "in_progress", y.task.conflict => x.task.conflict,
         y.task.run = "running" \/ (y.task.run = x.task.run /\ y.task.conflict = x.task.conflict),
         y.worker = x.worker \/ (x.worker.pc = "none" /\ y.worker.pc = "wait" /\ y.worker.turn = n),
         y.loop = x.loop \/ y.loop.pc \in {"idle", "reconcile"},
         \/ Turned(y) = Turned(x) /\ LastRun(y).turn = LastRun(x).turn
         \/ Turned(y) = Turned(x) \cup {n} /\ LastRun(y).turn = n /\ y.turn = n,
         y.turn \in {x.turn, n}, y.turn = n => "missed" \in can \/ n \in Turned(y),
         DOMAIN y.ops = DOMAIN x.ops, Len(y.ops) = Len(x.ops),
         \A i \in DOMAIN x.ops :
           /\ y.ops[i].prompt = x.ops[i].prompt /\ y.ops[i].prev = x.ops[i].prev
           /\ y.ops[i].turn = x.ops[i].turn
              \/ (y.ops[i].turn = n /\ c.turns[n].prompt = x.ops[i].prompt)
           /\ y.ops[i].state = "uncertain" => x.ops[i].state = "uncertain",
         y.task.uncertain = 0 \/ (y.task.uncertain = x.task.uncertain /\ y.ops = x.ops)
  PROVE  Covering(y, c, can, sn)
<1>1. ~Over(c) /\ n # 0
  BY DEF Over, Live
<1>2. Nobody(x, c) /\ x.task.status = "in_progress"
  BY <1>1, NotOver DEF Covering
<1>3. Takes(x, y, c, can, n)
  BY DEF Takes
<1> QED BY <1>1, <1>2, <1>3, TakenOn

\* What becomes of a request for a turn: the active turn is watched ...
Rejoins(x, y, n) ==
  /\ Beside(x, y, {"task", "turn", "runs", "lease", "worker"})
  /\ RowBut(x.task, y.task, {"status", "run", "conflict"})
  /\ y.task.status = "in_progress" /\ y.task.run = "running"
  /\ x.lease => y.lease /\ y.task.conflict = x.task.conflict
  /\ y.worker = x.worker \/ (x.worker.pc = "none" /\ y.worker.pc = "wait" /\ y.worker.turn = n)
  /\ \/ Turned(y) = Turned(x) /\ LastRun(y).turn = LastRun(x).turn /\ y.turn = x.turn
     \/ Turned(y) = Turned(x) \cup {n} /\ LastRun(y).turn = n /\ y.turn = n
\* ... or the prompt waits, for the lease or the end of a conflict ...
Enqueues(x, y) ==
  /\ Beside(x, y, {"task", "queue"}) /\ RowBut(x.task, y.task, {"paused"})
  /\ ~y.task.paused
  /\ Busy(x) \/ x.task.conflict
\* ... or it is claimed, and the worker begins.
Claims(x, y) ==
  /\ ~x.task.conflict /\ ~Busy(x)
  /\ Beside(x, y, {"task", "queue", "lease", "worker", "starting"})
  /\ RowBut(x.task, y.task, {"paused", "status", "run"})
  /\ Held(y) /\ ~y.task.paused
  /\ y.worker = x.worker \/ (x.worker.pc = "none" /\ y.worker.pc = "begin")

LEMMA ClaimableIs ==
  ASSUME NEW n, NEW x, Typed(x, n), NEW p, NEW e, e = Enqueued(x, p)
  PROVE  /\ Beside(x, e, {"task", "queue"}) /\ RowBut(x.task, e.task, {"paused"})
         /\ ~e.task.paused /\ e.worker = x.worker
         /\ Claimable(e) <=> ~x.task.conflict /\ ~Busy(x)
         /\ DOMAIN e.task = TaskFields
<1>1. /\ Beside(x, e, {"task", "queue"}) /\ RowBut(x.task, e.task, {"paused"})
      /\ ~e.task.paused
  BY EnqueuedIs
<1>2. /\ e.lease = x.lease /\ e.worker = x.worker /\ e.task.conflict = x.task.conflict
      /\ e.task.run = x.task.run
  BY <1>1 DEF Beside, Fields, RowBut, TaskFields
<1>3. Claimable(e) <=> ~x.task.conflict /\ ~Busy(x)
  BY <1>1, <1>2 DEF Claimable, Busy
<1>4. DOMAIN e.task = TaskFields
  <2>1. DOMAIN x.task = TaskFields /\ DOMAIN x = Fields
    BY DEF Typed, States, TaskRec, TaskFields, Fields
  <2> QED BY <2>1 DEF Enqueued, Fields
<1> QED BY <1>1, <1>2, <1>3, <1>4

LEMMA ClaimWritten ==
  ASSUME NEW e, DOMAIN e = Fields, DOMAIN e.task = TaskFields, NEW k, k = Claimed(e)
  PROVE  /\ Beside(e, k, {"task", "queue", "lease"}) /\ RowBut(e.task, k.task, {"status", "run"})
         /\ Held(k) /\ DOMAIN k = Fields
<1>1. Beside(e, k, {"task", "queue", "lease"}) /\ k.lease
  BY DEF Claimed, Beside, Fields
<1>2. /\ RowBut(e.task, k.task, {"status", "run"})
      /\ k.task.status = "in_progress" /\ k.task.run = "starting"
  BY DEF Claimed, Fields, RowBut, TaskFields
<1> QED BY <1>1, <1>2 DEF Held, Going, Beside

\* The row of a task whose turn runs.
Rejoined(a) == [a EXCEPT !.task.status = "in_progress", !.task.run = "running"]

LEMMA RejoinedIs ==
  ASSUME NEW a, DOMAIN a = Fields, DOMAIN a.task = TaskFields, NEW b, b = Rejoined(a)
  PROVE  /\ Beside(a, b, {"task"}) /\ RowBut(a.task, b.task, {"status", "run"})
         /\ b.task.status = "in_progress" /\ b.task.run = "running"
<1>1. Beside(a, b, {"task"})
  BY DEF Rejoined, Beside, Fields
<1>2. /\ RowBut(a.task, b.task, {"status", "run"})
      /\ b.task.status = "in_progress" /\ b.task.run = "running"
  BY DEF Rejoined, Fields, RowBut, TaskFields
<1> QED BY <1>1, <1>2

LEMMA RejoinIs ==
  ASSUME NEW n \in Nat, NEW x, Typed(x, n), NEW a, Typed(a, n),
         \/ a = x
         \/ /\ Beside(x, a, {"task", "lease", "turn", "runs"})
            /\ RowBut(x.task, a.task, {"status", "run", "conflict"})
            /\ x.lease => a.task.conflict = x.task.conflict
            /\ a.lease /\ a.turn = n
            /\ Turned(a) = Turned(x) \cup {n} /\ LastRun(a).turn = n,
         NEW b, b = Rejoined(a), NEW y, y = Watch(b, n)
  PROVE  Rejoins(x, y, n)
<1>4. DOMAIN a = Fields /\ DOMAIN a.task = TaskFields
  BY DEF Typed, States, Fields, TaskRec, TaskFields
<1>5. /\ Beside(a, b, {"task"}) /\ RowBut(a.task, b.task, {"status", "run"})
      /\ b.task.status = "in_progress" /\ b.task.run = "running"
  BY <1>4, RejoinedIs
<1>7. /\ Beside(b, y, {"worker"})
      /\ y.worker = b.worker \/ (b.worker.pc = "none" /\ y.worker.pc = "wait" /\ y.worker.turn = n)
  BY <1>5 DEF Watch, Beside, Fields, NoWorker
<1>8. /\ a.worker = x.worker
      /\ \/ a = x
         \/ /\ Beside(x, a, {"task", "lease", "turn", "runs"})
            /\ RowBut(x.task, a.task, {"status", "run", "conflict"})
            /\ x.lease => a.task.conflict = x.task.conflict
            /\ a.lease /\ a.turn = n
            /\ Turned(a) = Turned(x) \cup {n} /\ LastRun(a).turn = n
  BY DEF Beside, Fields
<1>9. /\ y.task = b.task /\ y.lease = a.lease /\ y.turn = a.turn /\ y.runs = a.runs /\ b.worker = a.worker
  BY <1>5, <1>7 DEF Beside, Fields
<1>10. Turned(y) = Turned(a) /\ LastRun(y) = LastRun(a)
  BY <1>9 DEF Turned, LastRun
<1>11. Beside(x, y, {"task", "turn", "runs", "lease", "worker"})
  BY <1>5, <1>7, <1>8 DEF Beside, Fields
<1>12. RowBut(x.task, y.task, {"status", "run", "conflict"}) /\ y.task.conflict = a.task.conflict
  BY <1>5, <1>8, <1>9 DEF RowBut, TaskFields
<1>13. \/ Turned(y) = Turned(x) /\ LastRun(y).turn = LastRun(x).turn /\ y.turn = x.turn
       \/ Turned(y) = Turned(x) \cup {n} /\ LastRun(y).turn = n /\ y.turn = n
  BY <1>8, <1>9, <1>10
<1> QED BY <1>5, <1>7, <1>8, <1>9, <1>11, <1>12, <1>13 DEF Rejoins

LEMMA QueuedIs ==
  ASSUME NEW n \in Nat, n = Latest, NEW x, Typed(x, n), NEW p, NEW y, y = Queued(x, p)
  PROVE  (ReadsThread(x) /\ Active /\ Rejoins(x, y, n)) \/ Enqueues(x, y) \/ Claims(x, y)
<1> DEFINE t == TRUE
           a == Adopted(x, n, t)
           b == Rejoined(a)
           e == Enqueued(x, p)
           k == Claimed(e)
<1>1. \/ ReadsThread(x) /\ Active /\ y = Watch(b, n)
      \/ y = e /\ ~Claimable(e)
      \/ y = Spawn(k, p) /\ Claimable(e)
  BY DEF Queued, TryClaim, Rejoined
<1>2. /\ a = Adopted(x, n, t) /\ t \in BOOLEAN /\ t /\ e = Enqueued(x, p) /\ k = Claimed(e)
      /\ b = Rejoined(a)
  OBVIOUS
<1> HIDE DEF a, b, e, k, t
<1>3. /\ Beside(x, e, {"task", "queue"}) /\ RowBut(x.task, e.task, {"paused"})
      /\ ~e.task.paused /\ e.worker = x.worker
      /\ Claimable(e) <=> ~x.task.conflict /\ ~Busy(x)
      /\ DOMAIN e.task = TaskFields
  BY <1>2, ClaimableIs
<1>4. CASE ReadsThread(x) /\ Active /\ y = Watch(b, n)
  <2>1. n \in 0..n
    OBVIOUS
  <2>2. Typed(a, n) /\ (a = x \/ TakenUp(x, a, n, t))
    BY <1>2, <2>1, AdoptedSane, AdoptedIs DEF Sane
  <2>3. \/ a = x
        \/ /\ Beside(x, a, {"task", "lease", "turn", "runs"})
           /\ RowBut(x.task, a.task, {"status", "run", "conflict"})
           /\ x.lease => a.task.conflict = x.task.conflict
           /\ a.lease /\ a.turn = n
           /\ Turned(a) = Turned(x) \cup {n} /\ LastRun(a).turn = n
    BY <1>2, <2>2, RowShape DEF TakenUp
  <2> QED BY <1>2, <1>4, <2>2, <2>3, RejoinIs
<1>5. CASE y = e /\ ~Claimable(e)
  <2>1. x.task.conflict \in BOOLEAN
    BY RowShape
  <2> QED BY <1>3, <1>5, <2>1 DEF Enqueues
<1>6. CASE y = Spawn(k, p) /\ Claimable(e)
  <2>1. DOMAIN e = Fields
    BY <1>3 DEF Beside
  <2>2. /\ Beside(e, k, {"task", "queue", "lease"}) /\ RowBut(e.task, k.task, {"status", "run"})
        /\ Held(k) /\ DOMAIN k = Fields
    BY <1>2, <1>3, <2>1, ClaimWritten
  <2>3. y = k \/ (Beside(k, y, {"worker", "starting"}) /\ y.worker.pc = "begin" /\ k.worker.pc = "none")
    BY <1>6, <2>2 DEF Spawn, Beside, Fields, NoWorker
  <2>4. y.task = k.task /\ y.lease = k.lease /\ k.worker = x.worker
    BY <1>3, <2>2, <2>3 DEF Beside, Fields
  <2>5. Beside(x, y, {"task", "queue", "lease", "worker", "starting"})
    BY <1>3, <2>2, <2>3 DEF Beside, Fields
  <2>6. RowBut(x.task, y.task, {"paused", "status", "run"}) /\ ~y.task.paused
    BY <1>3, <2>2, <2>4 DEF RowBut, TaskFields
  <2>7. Held(y)
    BY <2>2, <2>4 DEF Held, Going
  <2>8. y.worker = x.worker \/ (x.worker.pc = "none" /\ y.worker.pc = "begin")
    BY <2>3, <2>4
  <2> QED BY <1>3, <1>6, <2>5, <2>6, <2>7, <2>8 DEF Claims
<1> QED BY <1>1, <1>4, <1>5, <1>6

LEMMA QueuedCovers ==
  ASSUME NEW x, NEW c, NEW can, NEW sn, NEW n \in Nat, n = Len(c.turns), Typed(x, n),
         Covering(x, c, can, sn), Based(x, c, can) \/ ~Loses(can),
         x.follow.pc = "none", x.stop.pc = "none", x.loop.pc # "recover", NEW y,
         \/ ReadsThread(x) /\ Live(c) /\ Rejoins(x, y, n)
         \/ Enqueues(x, y)
         \/ Claims(x, y)
  PROVE  Covering(y, c, can, sn)
<1>1. CASE ReadsThread(x) /\ Live(c) /\ Rejoins(x, y, n)
  <2>1. ~Over(c) /\ Leased(x, c, can) /\ Heard(x, c, can)
    BY <1>1 DEF Over, Covering, Core
  <2>2. x.lease /\ x.task.status = "in_progress" /\ Loses(can) /\ x.task.conflict
    BY <1>1, <2>1 DEF Leased, ReadsThread
  <2>3. Based(x, c, can)
    BY <2>2
  <2>4. /\ Beside(x, y, {"task", "turn", "runs", "lease", "worker"})
        /\ RowBut(x.task, y.task, {"status", "run", "conflict"})
        /\ y.lease /\ y.task.conflict = x.task.conflict
        /\ y.task.status = "in_progress" /\ y.task.run = "running"
        /\ y.worker = x.worker \/ (x.worker.pc = "none" /\ y.worker.pc = "wait" /\ y.worker.turn = n)
        /\ \/ Turned(y) = Turned(x) /\ LastRun(y).turn = LastRun(x).turn /\ y.turn = x.turn
           \/ Turned(y) = Turned(x) \cup {n} /\ LastRun(y).turn = n /\ y.turn = n
    BY <1>1, <2>2 DEF Rejoins
  <2>5. /\ y.task.paused = x.task.paused /\ y.task.thread = x.task.thread
        /\ y.task.uncertain = x.task.uncertain
    BY <2>4 DEF RowBut, TaskFields
  <2>6. y.ops = x.ops /\ y.loop = x.loop
    BY <2>4 DEF Beside, Fields
  <2>7. Beside(x, y, {"task", "turn", "runs", "lease", "ops", "worker", "loop"})
    BY <2>4 DEF Beside
  <2>8. n # 0
    BY <1>1 DEF Live
  <2>9. y.turn \in {x.turn, n} /\ (y.turn = n => "missed" \in can \/ n \in Turned(y))
    BY <2>1, <2>4, <2>8 DEF Heard
  <2>10. \A i \in DOMAIN x.ops :
           /\ y.ops[i].prompt = x.ops[i].prompt /\ y.ops[i].prev = x.ops[i].prev
           /\ y.ops[i].turn = x.ops[i].turn
           /\ y.ops[i].state = "uncertain" => x.ops[i].state = "uncertain"
    BY <2>6
  <2> QED BY <1>1, <2>3, <2>4, <2>5, <2>6, <2>7, <2>9, <2>10, TakenCovers
<1>2. CASE Enqueues(x, y)
  <2>1. RowBut(x.task, y.task, {"paused", "conflict"}) /\ y.task.conflict = x.task.conflict
    BY <1>2 DEF Enqueues, RowBut, TaskFields
  <2>2. Beside(x, y, {"task", "queue"}) /\ ~y.task.paused /\ (Busy(x) \/ y.task.conflict)
    BY <1>2, <2>1 DEF Enqueues
  <2> QED BY <2>1, <2>2, QueueCovers
<1>3. CASE Claims(x, y)
  <2>1. Over(c)
    <3>1. Leased(x, c, can)
      BY DEF Covering, Core
    <3> QED BY <1>3, <3>1 DEF Leased, Claims, Busy
  <2>2. Asked(x, c)
    BY DEF Covering, Core, Entered
  <2>3. c.calls.follow = 0 /\ (c.calls.worker # 0 => x.worker.pc = "turn")
    BY <2>2 DEF Asked, Callers
  <2>4. y.follow = x.follow /\ y.loop = x.loop
    BY <1>3 DEF Claims, Beside, Fields
  <2>5. Beside(x, y, {"task", "queue", "lease", "worker", "starting", "follow", "loop"})
    BY <1>3 DEF Claims, Beside
  <2>6. RowBut(x.task, y.task, {"paused", "conflict", "status", "run"}) /\ y.task.conflict = x.task.conflict
    BY <1>3 DEF Claims, RowBut, TaskFields
  <2>7. /\ Held(y) /\ ~y.task.paused /\ ~y.task.conflict
        /\ y.worker = x.worker \/ (x.worker.pc = "none" /\ y.worker.pc = "begin")
    BY <1>3, <2>6 DEF Claims
  <2> QED BY <2>1, <2>3, <2>4, <2>5, <2>6, <2>7, StartingCovers
<1> QED BY <1>1, <1>2, <1>3

LEMMA ActiveIs ==
  ASSUME Latest = Len(codex.turns)
  PROVE  Active <=> Live(codex)
BY DEF Active, StateOf, Live

\* Users ask when nothing of theirs is under way.
LEMMA Asks ==
  ASSUME Grounds, Ask
  PROVE  s.stop.pc = "none" /\ s.follow.pc = "none" /\ s.loop.pc # "recover"
<1>1. "impatient" \notin left.can
  BY Grounded, Single
<1> QED BY <1>1 DEF Ask, May, Patient

LEMMA RunCovered ==
  ASSUME Grounds, Run \/ Continue
  PROVE  Covered
<1> DEFINE x == s
           y == s'
           c == codex
           can == left.can
           n == Latest
           p == NextPrompt
<1>1. Ask /\ codex' = codex /\ Unseen /\ y = Queued(x, p)
  BY DEF Run, Continue
<1>2. /\ Based(x, c, can) /\ Covering(x, c, can, seen) /\ n = Len(c.turns) /\ n = Latest /\ n \in Nat
      /\ Typed(x, n)
  BY Grounded DEF Based
<1>3. x.follow.pc = "none" /\ x.stop.pc = "none" /\ x.loop.pc # "recover"
  BY <1>1, Asks
<1>4. Active <=> Live(c)
  BY <1>2, ActiveIs
<1> HIDE DEF x, y, c, can, n, p
<1>5. (ReadsThread(x) /\ Live(c) /\ Rejoins(x, y, n)) \/ Enqueues(x, y) \/ Claims(x, y)
  BY <1>1, <1>2, <1>4, QueuedIs
<1>6. Covering(y, c, can, seen)
  BY <1>2, <1>3, <1>5, QueuedCovers
<1> QED BY <1>1, <1>6, SameCovered DEF y, c, can

\* A task that was paused lost nothing: no prompt waits, and it has no conflict left.
LEMMA ResumeCovered ==
  ASSUME Grounds, Resume
  PROVE  Covered
<1> DEFINE x == s
           y == s'
           c == codex
           can == left.can
           n == Latest
           p == NextPrompt
           k == [s.task EXCEPT !.paused = FALSE, !.conflict = FALSE]
           r == [s EXCEPT !.task = k]
<1>1. /\ Based(x, c, can) /\ Covering(x, c, can, seen) /\ n = Len(c.turns) /\ n = Latest /\ n \in Nat
      /\ Typed(x, n) /\ x.task \in TaskRec /\ DOMAIN x = Fields
  BY Grounded DEF Based, Typed, States, Fields
<1>2. Ask /\ codex' = codex /\ Unseen /\ x.task.paused /\ (y = Queued(r, p) \/ y = r)
  BY <1>1 DEF Resume, Fields, TaskRec
<1>3. k \in TaskRec /\ k.uncertain = x.task.uncertain /\ ~k.paused /\ ~k.conflict
      /\ RowBut(x.task, k, {"paused", "conflict"})
  BY <1>1 DEF TaskRec, RowBut, TaskFields
<1>4. r = [x EXCEPT !.task = k] /\ r.task = k
  BY <1>1 DEF Fields
<1>5. x.follow.pc = "none" /\ x.stop.pc = "none" /\ x.loop.pc # "recover"
  BY <1>2, Asks
<1>6. Active <=> Live(c)
  BY <1>1, ActiveIs
<1> HIDE DEF x, y, c, can, n, p, k, r
<1>7. Typed(r, n) /\ Beside(x, r, {"task"})
  <2>1. k.uncertain <= Len(x.ops)
    BY <1>1, <1>3 DEF Typed
  <2>2. r = [x EXCEPT !.task = k]
    BY <1>4
  <2>3. k.thread = x.task.thread /\ k.run = x.task.run /\ k.status = x.task.status
    BY <1>3 DEF RowBut, TaskFields
  <2> QED BY <1>1, <1>3, <2>1, <2>2, <2>3, RowSane DEF Sane
<1>8. x.queue.state # "pending" /\ ~Loses(can)
  <2>1. Waiting(x, can)
    BY <1>1 DEF Covering, Core
  <2> QED BY <1>2, <2>1 DEF Waiting
<1>9. /\ r.follow = x.follow /\ r.stop = x.stop /\ r.loop = x.loop /\ r.queue = x.queue
      /\ Beside(x, r, {"task", "queue"})
  BY <1>7 DEF Beside, Fields
<1>10. Covering(r, c, can, seen)
  <2>1. /\ RowBut(x.task, r.task, {"paused", "conflict"}) /\ ~r.task.paused /\ ~r.task.conflict
        /\ r.queue.state # "pending" /\ Unqueued(x, r)
    BY <1>3, <1>4, <1>8, <1>9 DEF Unqueued
  <2> QED BY <1>1, <1>8, <1>9, <2>1, QueueCovers
<1>11. Covering(y, c, can, seen)
  <2>1. CASE y = r
    BY <1>10, <2>1
  <2>2. CASE y = Queued(r, p)
    <3>1. (ReadsThread(r) /\ Live(c) /\ Rejoins(r, y, n)) \/ Enqueues(r, y) \/ Claims(r, y)
      BY <1>1, <1>6, <1>7, <2>2, QueuedIs
    <3>2. r.follow.pc = "none" /\ r.stop.pc = "none" /\ r.loop.pc # "recover"
      BY <1>5, <1>9
    <3> QED BY <1>1, <1>7, <1>8, <1>10, <3>1, <3>2, QueuedCovers
  <2> QED BY <1>2, <2>1, <2>2
<1> QED BY <1>2, <1>11, SameCovered DEF y, c, can

LEMMA FollowUpCovered ==
  ASSUME Grounds, FollowUp
  PROVE  Covered
<1> DEFINE x == s
           y == s'
           c == codex
           can == left.can
           n == Latest
           p == NextPrompt
           e == Enqueued(x, p)
           k == Claimed(e)
           row == x.task
<1>1. /\ Ask /\ codex' = codex /\ Unseen /\ "follow_up" \in can
      /\ x.worker.pc = "none" /\ x.task.status \in {"in_progress", "in_review"}
      /\ y = IF ~Claimable(e) THEN e ELSE Following(k, p, row)
  BY DEF FollowUp, Following, NextPrompt, May
<1>2. /\ Based(x, c, can) /\ Covering(x, c, can, seen) /\ n = Len(c.turns) /\ n = Latest /\ n \in Nat
      /\ Typed(x, n)
  BY Grounded DEF Based
<1>3. x.follow.pc = "none" /\ x.stop.pc = "none" /\ x.loop.pc # "recover"
  BY <1>1, Asks
<1>4. ~Loses(can)
  BY <1>1, <1>2 DEF Based, Tidy, Loses
<1>5. e = Enqueued(x, p) /\ k = Claimed(e) /\ row = x.task
  OBVIOUS
<1> HIDE DEF x, y, c, can, n, p, e, k, row
<1>6. /\ Beside(x, e, {"task", "queue"}) /\ RowBut(x.task, e.task, {"paused"})
      /\ ~e.task.paused /\ e.worker = x.worker
      /\ Claimable(e) <=> ~x.task.conflict /\ ~Busy(x)
      /\ DOMAIN e.task = TaskFields
  BY <1>2, <1>5, ClaimableIs
<1>7. x.task.conflict \in BOOLEAN
  BY <1>2, RowShape
<1>8. ASSUME ~Claimable(e)
      PROVE  Covering(y, c, can, seen)
  <2>1. Enqueues(x, y)
    BY <1>1, <1>6, <1>7, <1>8 DEF Enqueues
  <2> QED BY <1>2, <1>3, <2>1, QueuedCovers
<1>9. ASSUME Claimable(e)
      PROVE  Covering(y, c, can, seen)
  <2>1. DOMAIN e = Fields
    BY <1>6 DEF Beside
  <2>2. /\ Beside(e, k, {"task", "queue", "lease"}) /\ RowBut(e.task, k.task, {"status", "run"})
        /\ Held(k) /\ DOMAIN k = Fields
    BY <1>5, <1>6, <2>1, ClaimWritten
  <2>3. Beside(k, y, {"starting", "follow"}) /\ y.follow.pc = "options" /\ y.follow.row = row
    BY <1>1, <1>9, <2>2 DEF Following, Beside, Fields
  <2>4. y.task = k.task /\ y.lease = k.lease /\ y.worker = x.worker /\ y.loop = x.loop
    BY <1>6, <2>2, <2>3 DEF Beside, Fields
  <2>5. Beside(x, y, {"task", "queue", "lease", "worker", "starting", "follow", "loop"})
    BY <1>6, <2>2, <2>3 DEF Beside, Fields
  <2>6. /\ RowBut(x.task, y.task, {"paused", "conflict", "status", "run"}) /\ ~y.task.paused
        /\ y.task.conflict = x.task.conflict
    BY <1>6, <2>2, <2>4 DEF RowBut, TaskFields
  <2>7. Held(y) /\ ~y.task.conflict
    BY <1>6, <1>9, <2>2, <2>4, <2>6 DEF Held, Going
  <2>8. Over(c)
    <3>1. Leased(x, c, can)
      BY <1>2 DEF Covering, Core
    <3> QED BY <1>6, <1>9, <3>1 DEF Leased, Busy
  <2>9. c.calls.follow = 0 /\ (c.calls.worker # 0 => x.worker.pc = "turn")
    <3>1. Asked(x, c)
      BY <1>2 DEF Covering, Core, Entered
    <3> QED BY <1>3, <3>1 DEF Asked, Callers
  <2>10. y.follow.row.status \in {"in_progress", "in_review"}
    BY <1>1, <1>5, <2>3
  <2>11. /\ y.worker = x.worker \/ (x.worker.pc = "none" /\ y.worker.pc = "begin")
         /\ \/ y.follow = x.follow
            \/ /\ y.follow.pc = "options" /\ y.follow.row.status \in {"in_progress", "in_review"}
               /\ ~Loses(can) /\ x.worker.pc = "none" /\ y.worker = x.worker
         /\ y.loop = x.loop \/ y.loop.pc = "idle"
    BY <1>1, <1>4, <2>3, <2>4, <2>10
  <2> QED BY <1>2, <1>3, <2>5, <2>6, <2>7, <2>8, <2>9, <2>11, StartingCovers
<1>10. Covering(y, c, can, seen)
  BY <1>8, <1>9
<1> QED BY <1>1, <1>10, SameCovered DEF y, c, can

\* What waits for the loop is not claimable.
LEMMA DispatchNever ==
  ASSUME Grounds, Dispatch
  PROVE  FALSE
<1>1. Waiting(s, left.can)
  BY DEF Grounds, Covering, Core
<1> QED BY <1>1 DEF Dispatch, Claimable, Waiting, Busy

\* The user names what Codex has created.
LEMMA AttachCovered ==
  ASSUME Grounds, AttachThread \/ AttachTree
  PROVE  Covered
<1> DEFINE x == s
           y == s'
           c == codex
           can == left.can
           n == Latest
<1>1. codex' = codex /\ Unseen
  BY DEF AttachThread, AttachTree
<1>2. /\ Based(x, c, can) /\ Covering(x, c, can, seen) /\ Typed(x, n) /\ DOMAIN x = Fields /\ x.task \in TaskRec
  BY Grounded DEF Based, Typed, States, Fields
<1>3. /\ Beside(x, y, {"task", "threadOp", "treeOp"}) /\ RowBut(x.task, y.task, {"thread"})
      /\ y.task.thread = x.task.thread \/ y.task.thread
  <2>1. CASE AttachThread
    BY <1>2, <2>1 DEF AttachThread, Beside, Fields, RowBut, TaskFields, TaskRec
  <2>2. CASE AttachTree
    <3>1. Beside(x, y, {"treeOp"})
      BY <1>2, <2>2 DEF AttachTree, Beside, Fields
    <3>2. y.task = x.task
      BY <3>1 DEF Beside, Fields
    <3> QED BY <3>1, <3>2 DEF Beside, RowBut
  <2> QED BY <2>1, <2>2
<1> HIDE DEF x, y, c, can, n
<1>4. /\ y.worker = x.worker /\ y.follow = x.follow /\ y.stop = x.stop /\ y.override = x.override
      /\ y.loop = x.loop /\ y.limits = x.limits /\ y.ops = x.ops /\ y.ended = x.ended
      /\ y.lease = x.lease /\ y.runs = x.runs /\ y.turn = x.turn /\ y.queue = x.queue
  BY <1>3 DEF Beside, Fields
<1>5. /\ y.task.status = x.task.status /\ y.task.run = x.task.run /\ y.task.paused = x.task.paused
      /\ y.task.uncertain = x.task.uncertain /\ y.task.conflict = x.task.conflict
  BY <1>3 DEF RowBut, TaskFields
<1>6. \A h \in Callers : y[h] = x[h]
  BY <1>4 DEF Callers
<1>7. \A h \in Callers : (Called(y, c, h) <=> Called(x, c, h)) /\ (Wants(y, c, h) <=> Wants(x, c, h))
  BY <1>6 DEF Called, Wants
<1>8. Turned(y) = Turned(x) /\ LastRun(y) = LastRun(x)
  BY <1>4 DEF Turned, LastRun
<1>9. (Busy(y) <=> Busy(x)) /\ (Asking(y) => Asking(x)) /\ (OnWay(y) <=> OnWay(x)) /\ (Held(y) <=> Held(x))
  BY <1>3, <1>4, <1>5 DEF Busy, Asking, OnWay, Held, Going
<1>10. Leased(y, c, can)
  BY <1>2, <1>4, <1>5 DEF Covering, Core, Leased
<1>11. Eager(y, c, can)
  BY <1>2, <1>4, <1>5, <1>7, <1>9 DEF Covering, Core, Eager, Callers
<1>12. Halted(y, c, can) /\ Watched(y, c)
  BY <1>2, <1>4, <1>9 DEF Covering, Core, Halted, Watched
<1>13. Heard(y, c, can)
  BY <1>2, <1>4, <1>7, <1>8 DEF Covering, Core, Heard
<1>14. Entered(y, c, can) /\ Certain(y, can)
  BY <1>2, <1>4, <1>5, <1>6 DEF Covering, Core, Entered, Asked, Tracked, Certain
<1>15. Ordinal(c) /\ Plainly(y, c, can)
  BY <1>2, <1>4 DEF Covering, Core, Plainly
<1>16. Waiting(y, can)
  <2>1. Waiting(x, can)
    BY <1>2 DEF Covering, Core
  <2> QED BY <1>4, <1>5, <1>9, <2>1 DEF Waiting
<1>17. Reads(y, c, can, seen)
  <2>1. Finds(y) <=> Finds(x)
    BY <1>4 DEF Finds
  <2> QED BY <1>2, <1>4, <1>6, <1>7, <1>8, <2>1 DEF Covering, Reads, Listed, Matching
<1>18. Covering(y, c, can, seen)
  BY <1>10, <1>11, <1>12, <1>13, <1>14, <1>15, <1>16, <1>17 DEF Covering, Core
<1> QED BY <1>1, <1>18, SameCovered DEF y, c, can

-----------------------------------------------------------------------------
(* What the loop reads and applies.                                          *)

\* The loop lists the task and reads its latest turn.
LEMMA SyncReadCovered ==
  ASSUME Grounds, SyncRead
  PROVE  Covered
<1> DEFINE x == s
           y == s'
           c == codex
           can == left.can
           n == Latest
           state == StateOf(Latest)
           tn == seen'
           l == [pc |-> "sync", latest |-> n, state |-> state, op |-> 0]
<1>1. /\ Based(x, c, can) /\ Covering(x, c, can, seen) /\ n = Len(c.turns) /\ n \in Nat
      /\ DOMAIN x = Fields
  BY Grounded DEF Based, Typed, States, Fields
<1>2. y = [x EXCEPT !.loop = l] /\ codex' = codex /\ c.inbox = <<>>
  BY DEF SyncRead, CanRead
<1>3. state = IF n = 0 THEN "none" ELSE c.turns[n].state
  BY DEF StateOf
<1>4. l.pc = "sync" /\ l.latest = n /\ l.state = state
  OBVIOUS
<1>5. left.can = left'.can
  BY DEF Grounds, CanSame
<1> HIDE DEF x, y, c, can, n, state, l, tn
<1>6. Beside(x, y, {"loop"}) /\ y.loop = l
  BY <1>1, <1>2 DEF Beside, Fields
<1>7. state # "active" => Over(c)
  BY <1>1, <1>2, <1>3 DEF Over, Live
<1>8. Listed(y, c, tn) /\ Matching(y, c, can)
  BY <1>1, <1>4, <1>6, <1>7 DEF Listed, Matching, Finds
<1>9. state # "quota" /\ (Loses(can) => state \in {"active", "completed", "none"})
  <2>1. Plainly(x, c, can) /\ (n # 0 => n \in DOMAIN c.turns)
    BY <1>1, InboxOf DEF Covering, Core, Based
  <2> QED BY <1>3, <2>1 DEF Plainly
<1>10. Covering(y, c, can, tn)
  <2>1. Core(x, c, can) /\ y.loop.pc # "limits"
    BY <1>1, <1>4, <1>6 DEF Covering
  <2> QED BY <1>4, <1>6, <1>8, <1>9, <2>1, LoopCovers
<1> QED BY <1>2, <1>10 DEF Covered, y, c, can, tn

\* What the loop has read of a turn is applied when no start is under way.
LEMMA KnownCovers ==
  ASSUME NEW x, NEW c, NEW can, NEW sn, Based(x, c, can), Covering(x, c, can, sn),
         x.loop.pc = "sync", ~OnWay(x), x.follow.pc = "none",
         NEW n, n = Len(c.turns), n # 0, n \in Nat, NEW state,
         state # "active" => Over(c),
         NEW k, k = Known(x, n, state)
  PROVE  Covering(k, c, can, sn) /\ Nobody(k, c) /\ k.follow.pc = "none" /\ Typed(k, n)
<1>1. Typed(x, n) /\ n \in 0..n /\ Leased(x, c, can) /\ Waiting(x, can) /\ Heard(x, c, can)
  BY DEF Based, Covering, Core
<1>2. Nobody(x, c) /\ \A h \in Callers : x[h].pc # "turn"
  BY DEF Nobody, OnWay, Wants, Callers
<1>3. \A h \in Callers : ~Called(x, c, h)
  BY <1>2 DEF Called
<1>4. /\ Typed(k, n)
      /\ LastRun(x).turn # n /\ Passed(x, n) => k = x
      /\ LastRun(x).turn # n /\ ~Passed(x, n) => TakenUp(x, k, n, state = "active")
      /\ LastRun(x).turn = n =>
           \/ k = x
           \/ /\ Beside(x, k, {"turn", "task"}) /\ k.turn = n /\ x.task.status = "in_progress"
              /\ RowBut(x.task, k.task, {"run"})
              /\ k.task.run = IF x.task.run \in {"failed", "waiting_quota"} /\ state = "active"
                                THEN "running" ELSE x.task.run
  BY <1>1, KnownIs
<1>5. k.worker = x.worker /\ k.follow = x.follow /\ k.loop = x.loop /\ k.ops = x.ops
  <2>1. LastRun(x).turn # n => k.worker = x.worker /\ k.follow = x.follow /\ k.loop = x.loop /\ k.ops = x.ops
    BY <1>4 DEF TakenUp, Beside, Fields
  <2>2. LastRun(x).turn = n => k.worker = x.worker /\ k.follow = x.follow /\ k.loop = x.loop /\ k.ops = x.ops
    BY <1>4 DEF Beside, Fields
  <2> QED BY <2>1, <2>2
<1>6. Nobody(k, c)
  <2>1. \A h \in Callers : k[h] = x[h]
    BY <1>5 DEF Callers
  <2> QED BY <1>2, <1>5, <2>1 DEF Nobody, Wants
<1>7. x.task.conflict /\ ~Loses(can) /\ x.task.status = "in_progress" => x.lease
  BY <1>1 DEF Waiting
<1>8. x.queue.state = "pending" => x.lease \/ x.task.conflict
  BY <1>1 DEF Waiting, Busy
<1>9. Covering(k, c, can, sn)
  <2>1. CASE k = x
    BY <2>1
  <2>2. ASSUME LastRun(x).turn = n, k # x
        PROVE  Covering(k, c, can, sn)
    <3>1. /\ Beside(x, k, {"turn", "task"}) /\ k.turn = n /\ x.task.status = "in_progress"
          /\ RowBut(x.task, k.task, {"run"})
          /\ k.task.run \in {x.task.run, "running"}
      BY <1>4, <2>2
    <3>2. /\ k.runs = x.runs /\ k.lease = x.lease
          /\ k.task.status = x.task.status /\ k.task.conflict = x.task.conflict
          /\ k.task.uncertain = x.task.uncertain /\ k.task.paused = x.task.paused
          /\ k.task.thread = x.task.thread
      BY <3>1 DEF Beside, Fields, RowBut, TaskFields
    <3>3. Turned(k) = Turned(x) /\ LastRun(k).turn = LastRun(x).turn
      BY <3>2 DEF Turned, LastRun
    <3>4. n \in Turned(x)
      <4>1. x.runs = <<>> => LastRun(x).turn = 0
        BY <1>1, RunsOf
      <4>2. x.runs # <<>> => LastRun(x).turn \in Turned(x)
        BY <1>1, RunsOf
      <4> QED BY <2>2, <4>1, <4>2
    <3>5. Beside(x, k, {"task", "turn", "runs", "lease", "ops", "worker", "loop"})
      BY <3>1 DEF Beside
    <3>6. Takes(x, k, c, can, n)
      BY <1>5, <3>1, <3>2, <3>3, <3>4, <3>5 DEF Takes
    <3>7. ~Over(c) => k.lease
      BY <1>1, <3>2 DEF Leased
    <3> QED BY <1>2, <1>7, <1>8, <3>1, <3>2, <3>6, <3>7, TakenOn
  <2>3. ASSUME LastRun(x).turn # n, k # x
        PROVE  Covering(k, c, can, sn)
    <3>1. n \notin Turned(x)
      BY <1>1, <2>3, LatestRun
    <3>2. Loses(can) /\ Announced(c)
      BY <1>1, <1>3, <3>1 DEF Heard, Based, Tidy, Loses
    <3>3. ~Over(c)
      BY <3>2 DEF Over, Announced
    <3>4. x.lease
      BY <1>1, <3>3 DEF Leased
    <3>5. TakenUp(x, k, n, state = "active")
      BY <1>4, <2>3
    <3>6. /\ k.lease /\ k.task.status = "in_progress" /\ k.task.run = "running" /\ k.turn = n
          /\ k.task.conflict = x.task.conflict
          /\ Turned(k) = Turned(x) \cup {n} /\ LastRun(k).turn = n
      <4>1. x.task.conflict \in BOOLEAN
        BY <1>1, RowShape
      <4> QED BY <3>4, <3>5, <4>1 DEF TakenUp
    <3>7. /\ k.task.uncertain = x.task.uncertain /\ k.task.paused = x.task.paused
          /\ k.task.thread = x.task.thread
      BY <3>5 DEF TakenUp, RowBut, TaskFields
    <3>8. Beside(x, k, {"task", "turn", "runs", "lease", "ops", "worker", "loop"})
      BY <3>5 DEF TakenUp, Beside
    <3>9. Takes(x, k, c, can, n)
      BY <1>5, <3>6, <3>7, <3>8 DEF Takes
    <3> QED BY <1>2, <3>6, <3>7, <3>9, TakenOn
  <2> QED BY <2>1, <2>2, <2>3
<1> QED BY <1>4, <1>5, <1>6, <1>9

LEMMA SyncedCovers ==
  ASSUME NEW x, NEW c, NEW can, NEW sn, Based(x, c, can), Covering(x, c, can, sn),
         x.loop.pc = "sync", "loop" \in sn, ~x.starting,
         NEW n, n = Len(c.turns), NEW id, id = x.loop.latest, id # 0, NEW state, state = x.loop.state,
         NEW y, y = Synced(x, id, state)
  PROVE  Core(y, c, can) /\ y.limits = x.limits
<1> DEFINE k == Known(x, id, state)
<1>1. /\ Typed(x, n) /\ n \in Nat /\ id \in 0..n /\ Shown(c) /\ Heard(x, c, can) /\ Plainly(x, c, can)
      /\ Listed(x, c, sn)
  BY InboxOf, Shape DEF Based, Covering, Core, Reads
<1>2. ~OnWay(x) /\ x.follow.pc = "none" /\ \A h \in Callers : x[h].pc # "turn"
  BY Single DEF OnWay, Callers
<1>3. state # "quota"
  BY <1>1 DEF Plainly
<1>4. k = Known(x, id, state)
  OBVIOUS
<1> HIDE DEF k
<1>5. /\ y.limits = x.limits
      /\ state = "active" \/ k.turn # id \/ Ignores(k, id) => y = k
      /\ ~(state = "active" \/ k.turn # id \/ Ignores(k, id) \/ state = "quota") => Reported(k, y, id)
  BY <1>1, <1>3, <1>4, SyncedIs
<1>6. ASSUME id # n
      PROVE  Core(y, c, can)
  <2>1. n \in Turned(x)
    BY <1>1, <1>2, <1>6 DEF Listed
  <2>2. LastRun(x).turn = n /\ x.turn \in {0, n}
    BY <1>1, <2>1, LatestRun DEF Heard
  <2>3. id \in Turned(x)
    BY <1>1, <1>6 DEF Heard
  <2>4. k = x
    BY <1>1, <1>4, <1>6, <2>2, <2>3, KnownIs DEF Passed
  <2>5. y = x
    BY <1>5, <1>6, <2>2, <2>4
  <2> QED BY <2>5 DEF Covering
<1>7. ASSUME id = n
      PROVE  Core(y, c, can)
  <2>1. state # "active" => Over(c)
    BY <1>1, <1>7 DEF Listed
  <2>2. Covering(k, c, can, sn) /\ Nobody(k, c) /\ k.follow.pc = "none" /\ Typed(k, n)
    BY <1>1, <1>2, <1>4, <1>7, <2>1, KnownCovers
  <2>3. CASE y = k
    BY <2>2, <2>3 DEF Covering
  <2>4. ASSUME state # "active", Reported(k, y, n)
        PROVE  Core(y, c, can)
    BY <1>1, <1>7, <2>1, <2>2, <2>4, ReportedCovers DEF Covering, Core, Nobody
  <2> QED BY <1>3, <1>5, <1>7, <2>3, <2>4
<1> QED BY <1>5, <1>6, <1>7

LEMMA SyncApplyCovered ==
  ASSUME Grounds, SyncApply
  PROVE  Covered
<1> DEFINE x == s
           y == s'
           c == codex
           can == left.can
           n == Latest
           tn == seen'
           sn == seen
           id == s.loop.latest
           state == s.loop.state
           r == IF "loop" \in sn /\ ~x.starting /\ id # 0 THEN Synced(x, id, state) ELSE x
           pc == IF r.limits = x.limits THEN "reconcile" ELSE "limits"
<1>1. /\ Based(x, c, can) /\ Covering(x, c, can, sn) /\ n = Len(c.turns) /\ n \in Nat /\ Typed(x, n)
      /\ x.loop.latest \in 0..n
  BY Grounded, Shape DEF Based
<1>2. y = [r EXCEPT !.loop.pc = pc] /\ codex' = c /\ x.loop.pc = "sync"
  BY DEF SyncApply
<1>3. /\ id = x.loop.latest /\ state = x.loop.state
      /\ r = IF "loop" \in sn /\ ~x.starting /\ id # 0 THEN Synced(x, id, state) ELSE x
      /\ pc = IF r.limits = x.limits THEN "reconcile" ELSE "limits"
  OBVIOUS
<1>4. left'.can = left.can
  BY DEF Grounds, CanSame
<1> HIDE DEF x, y, c, can, n, tn, sn, id, state, r, pc
<1>5. Core(r, c, can) /\ r.limits = x.limits
  <2>1. CASE r = x
    BY <1>1, <2>1 DEF Covering
  <2>2. ASSUME r # x
        PROVE  Core(r, c, can) /\ r.limits = x.limits
    BY <1>1, <1>2, <1>3, <2>2, SyncedCovers
  <2> QED BY <2>1, <2>2
<1>6. Typed(r, n)
  <2>1. CASE r = x
    BY <1>1, <2>1
  <2>2. CASE r = Synced(x, id, state) /\ id # 0
    BY <1>1, <1>3, <2>2, SyncedSane DEF Sane
  <2> QED BY <1>3, <2>1, <2>2
<1>7. DOMAIN r = Fields /\ r.loop \in LoopRec(n)
  BY <1>6 DEF Typed, States, Fields
<1>8. Beside(r, y, {"loop"}) /\ y.loop.pc = "reconcile"
  BY <1>2, <1>3, <1>5, <1>7 DEF Beside, Fields, LoopRec
<1>9. Covering(y, c, can, tn)
  <2>1. y.loop.pc \in {"idle", "reconcile"}
    BY <1>8
  <2> QED BY <1>5, <1>8, <2>1, LoopReset
<1> QED BY <1>2, <1>9 DEF Covered, y, c, can, tn

\* What recover looks for is the latest entry.
LEMMA UncertainLast ==
  ASSUME NEW n, NEW x, Typed(x, n), NEW can, Certain(x, can), UncertainStart(x) # 0
  PROVE  UncertainStart(x) = Len(x.ops) /\ x.ops[Len(x.ops)].state = "uncertain"
<1> DEFINE m == Len(x.ops)
           U == Uncertain(x)
<1>1. DOMAIN x.ops = 1..m /\ m \in Nat
  BY OpsOf
<1>2. CASE x.task.uncertain # 0
  BY <1>2 DEF UncertainStart, Certain
<1>3. CASE x.task.uncertain = 0
  <2>1. FirstUncertain(x) # 0 /\ UncertainStart(x) = FirstUncertain(x)
    BY <1>3 DEF UncertainStart
  <2>2. FirstUncertain(x) = IF U = {} THEN 0 ELSE CHOOSE i \in U : \A j \in U : i <= j
    BY DEF FirstUncertain
  <2>3. \A i \in U : i = m /\ x.ops[m].state = "uncertain"
    BY DEF Certain, Uncertain
  <2> HIDE DEF U
  <2>4. U = {m} /\ x.ops[m].state = "uncertain"
    BY <2>1, <2>2, <2>3
  <2> DEFINE Least(i) == \A j \in U : i <= j
  <2>5. \A i \in U : Least(i)
    BY <1>1, <2>4
  <2>6. FirstUncertain(x) = CHOOSE i \in U : Least(i)
    BY <2>2, <2>4
  <2> HIDE DEF Least
  <2>7. FirstUncertain(x) \in U
    BY <2>4, <2>5, <2>6
  <2> QED BY <2>1, <2>4, <2>7
<1> QED BY <1>2, <1>3

\* What recover has read of the thread.
LEMMA SoughtMatches ==
  ASSUME NEW x, NEW c, NEW can, NEW sn, Based(x, c, can), Covering(x, c, can, sn), c.inbox = <<>>,
         UncertainStart(x) # 0, NEW n, n = Len(c.turns),
         NEW y, Beside(x, y, {"loop"}), y.loop.pc = "recover", y.loop.op = UncertainStart(x),
         y.loop.latest = n, n # 0 => y.loop.state = c.turns[n].state
  PROVE  Matching(y, c, can)
<1> DEFINE m == Len(x.ops)
<1>1. /\ y.worker = x.worker /\ y.follow = x.follow /\ y.ops = x.ops /\ y.task = x.task
      /\ y.lease = x.lease /\ y.runs = x.runs /\ y.queue = x.queue
  BY DEF Beside, Fields
<1>2. Typed(x, n) /\ n \in Nat /\ (n # 0 => n \in DOMAIN c.turns)
  BY InboxOf DEF Based
<1>3. UncertainStart(x) = m /\ x.ops[m].state = "uncertain" /\ m # 0 /\ m \in DOMAIN x.ops
  <2>1. UncertainStart(x) = m /\ x.ops[m].state = "uncertain" /\ m # 0
    BY <1>2, UncertainLast DEF Covering, Core
  <2> QED BY <1>2, <2>1, OpsOf
<1>4. /\ Leased(x, c, can) /\ Eager(x, c, can) /\ Heard(x, c, can) /\ Tracked(x, c) /\ Certain(x, can)
      /\ Waiting(x, can) /\ Plainly(x, c, can)
  BY DEF Covering, Core, Entered
<1>5. ~Loses(can) => \E h \in Callers : x[h].pc = "turn"
  BY <1>3, <1>4 DEF Certain
<1>6. ~Loses(can) => x.worker.pc \notin Before /\ x.follow.pc # "options"
  <2>1. ASSUME ~Loses(can), x.worker.pc \in Before
        PROVE  FALSE
    <3>1. OnWay(x) /\ x.worker.pc # "turn"
      BY <2>1 DEF OnWay, Before
    <3>2. x.follow.pc = "turn"
      BY <1>5, <2>1, <3>1 DEF Callers
    <3> QED BY <3>1, <3>2, Single
  <2>2. ASSUME ~Loses(can), x.follow.pc = "options"
        PROVE  FALSE
    <3>1. ~OnWay(x)
      BY <2>2, Single
    <3>2. x.worker.pc = "turn"
      BY <1>5, <2>2 DEF Callers
    <3> QED BY <3>1, <3>2 DEF OnWay
  <2> QED BY <2>1, <2>2
<1>7. ASSUME Finds(y)
      PROVE  /\ y.loop.op = Len(y.ops) /\ y.loop.latest = Len(c.turns)
             /\ c.turns[Len(c.turns)].prompt = y.ops[Len(y.ops)].prompt
             /\ y.loop.state # "active" => Over(c)
             /\ "missed" \notin can => Len(c.turns) \in Turned(y)
             /\ y.follow.pc # "options" /\ \A h \in Callers : ~Wants(y, c, h)
             /\ y.worker.pc \in Before =>
                  Loses(can) /\ y.ops[Len(y.ops)].state = "uncertain" /\ y.loop.state = "completed"
             /\ y.queue.state = "pending" /\ ~y.lease => Loses(can) /\ y.loop.state # "active"
  <2>1. n # 0 /\ n # x.ops[m].prev
    BY <1>1, <1>3, <1>7 DEF Finds
  <2>2. y.loop.state = c.turns[n].state /\ n \in DOMAIN c.turns
    BY <1>2, <2>1
  <2>3. y.loop.state # "active" <=> Over(c)
    BY <2>1, <2>2 DEF Over, Live
  <2>4. c.turns[n].prompt = x.ops[m].prompt
    BY <1>3, <1>4, <2>1 DEF Tracked
  <2>5. "missed" \notin can => n \in Turned(y)
    <3>1. ~Announced(c)
      BY DEF Announced
    <3>2. Turned(y) = Turned(x)
      BY <1>1 DEF Turned
    <3> QED BY <1>4, <2>1, <3>1, <3>2 DEF Heard
  <2>6. \A h \in Callers : ~Wants(y, c, h)
    <3>1. ASSUME NEW h \in Callers, Wants(y, c, h)
          PROVE  FALSE
      <4>1. Wants(x, c, h)
        BY <1>1, <3>1 DEF Wants, Callers
      <4> QED BY <1>4, <2>1, <4>1 DEF Eager
    <3> QED BY <3>1
  <2>7. x.follow.pc # "options"
    BY <1>4, <1>6 DEF Plainly
  <2>8. x.worker.pc \in Before => Loses(can) /\ y.loop.state = "completed"
    <3>1. ASSUME x.worker.pc \in Before
          PROVE  Loses(can) /\ y.loop.state = "completed"
      <4>1. Loses(can) /\ Over(c)
        BY <1>4, <1>6, <3>1 DEF Eager
      <4> QED BY <1>4, <2>2, <2>3, <4>1 DEF Plainly
    <3> QED BY <3>1
  <2>9. x.queue.state = "pending" /\ ~x.lease => Loses(can) /\ y.loop.state # "active"
    <3>1. ASSUME x.queue.state = "pending", ~x.lease
          PROVE  Loses(can) /\ y.loop.state # "active"
      <4>1. Over(c) /\ x.task.conflict
        BY <1>4, <3>1 DEF Leased, Waiting, Busy
      <4>2. ASSUME ~Loses(can)
            PROVE  FALSE
        <5>1. x.task.status \in {"todo", "canceled"}
          BY <1>4, <3>1, <4>1, <4>2 DEF Waiting
        <5>2. ~OnWay(x) /\ x.follow.pc = "none"
          BY <1>4, <5>1 DEF Waiting
        <5> QED BY <1>5, <4>2, <5>2 DEF OnWay, Callers
      <4> QED BY <2>3, <4>1, <4>2
    <3> QED BY <3>1
  <2> QED BY <1>1, <1>3, <2>3, <2>4, <2>5, <2>6, <2>7, <2>8, <2>9
<1> QED BY <1>7 DEF Matching

\* A start without a thread begins again; nothing was asked of Codex yet.
LEMMA AgainCovers ==
  ASSUME NEW x, NEW c, NEW can, NEW sn, Based(x, c, can), Covering(x, c, can, sn), Underway(x, c),
         c.inbox = <<>>, ~x.task.paused, Asking(x), x.worker.pc = "none", x.loop.pc # "recover",
         NEW y, Beside(x, y, {"worker", "starting", "loop"}), y.worker.pc = "begin", y.loop.pc = "idle"
  PROVE  Covering(y, c, can, sn)
<1> DEFINE n == Len(c.turns)
<1>1. /\ y.follow = x.follow /\ y.task = x.task /\ y.lease = x.lease
      /\ Beside(x, y, {"task", "queue", "lease", "worker", "starting", "follow", "loop"})
  BY DEF Beside, Fields
<1>2. x.ops = <<>> /\ x.follow.pc = "none" /\ x.stop.pc = "none"
  BY DEF Based, Threadless, Asking
<1>3. n \in Nat /\ DOMAIN c.turns = 1..n
  BY InboxOf DEF Based
<1>4. Over(c)
  <2>1. DOMAIN c.turns = {}
    <3>1. InJournal(x) = {}
      BY <1>2 DEF InJournal
    <3>2. \A i \in DOMAIN c.turns : c.turns[i].prompt \in InJournal(x)
      BY DEF Underway, InTurns, Based, AllOwn
    <3> QED BY <3>1, <3>2
  <2>2. n # 0 => 1 \in 1..n
    BY <1>3
  <2>3. n = 0
    BY <1>3, <2>1, <2>2
  <2> QED BY <2>3 DEF Over, Live
<1>5. Waiting(x, can) /\ Asked(x, c)
  BY DEF Covering, Core, Entered
<1>6. Held(y) /\ (Loses(can) \/ ~y.task.conflict)
  BY <1>1, <1>5 DEF Waiting, Asking, Held, Going
<1>7. c.calls.follow = 0 /\ (c.calls.worker # 0 => x.worker.pc = "turn")
  BY <1>2, <1>5 DEF Asked, Callers
<1>8. RowBut(x.task, y.task, {"paused", "conflict", "status", "run"})
  BY <1>1 DEF RowBut
<1>9. y.worker = x.worker \/ (x.worker.pc = "none" /\ y.worker.pc = "begin")
  OBVIOUS
<1> QED BY <1>1, <1>2, <1>3, <1>4, <1>6, <1>7, <1>8, <1>9, StartingCovers

LEMMA ReconcileCovered ==
  ASSUME Grounds, Reconcile
  PROVE  Covered
<1> DEFINE x == s
           y == s'
           c == codex
           can == left.can
           n == Latest
           again == Asking(x) /\ x.worker.pc = "none"
           p == x.queue.prompt
           w == IF again THEN Spawn(x, p) ELSE x
           op == UncertainStart(w)
           state == StateOf(n)
           l == [pc |-> "recover", latest |-> n, state |-> state, op |-> op]
           z == NoLoop
<1>1. /\ Based(x, c, can) /\ Covering(x, c, can, seen) /\ n = Len(c.turns) /\ n \in Nat /\ Typed(x, n)
      /\ DOMAIN x = Fields /\ Underway(x, c)
  BY Grounded DEF Based, Typed, States, Fields, Grounds, IInv, Good
<1>2. /\ codex' = codex /\ Unseen /\ c.inbox = <<>>
      /\ x.loop.pc \in {"idle", "reconcile"}
      /\ y = IF x.task.paused THEN [x EXCEPT !.loop = z]
             ELSE IF op = 0 \/ ~w.task.thread THEN [w EXCEPT !.loop = z]
             ELSE [w EXCEPT !.loop = l]
  BY DEF Reconcile, Asking, CanRead
<1>3. /\ z.pc = "idle" /\ l.pc = "recover" /\ l.latest = n /\ l.state = state /\ l.op = op
      /\ op = UncertainStart(w) /\ w = IF again THEN Spawn(x, p) ELSE x
      /\ n # 0 => state = c.turns[n].state
  BY DEF NoLoop, StateOf
<1> HIDE DEF x, y, c, can, n, p, w, op, l, z, state
<1>4. again => Beside(x, w, {"worker", "starting"}) /\ w.worker.pc = "begin"
  BY <1>1, <1>3, SpawnIs
<1>5. w.task = x.task /\ DOMAIN w = Fields
  BY <1>1, <1>3, <1>4 DEF Beside, Fields
<1>6. \/ Beside(x, y, {"loop"}) /\ y.loop = z /\ (x.task.paused \/ ~again)
      \/ again /\ ~x.task.paused /\ Beside(w, y, {"loop"}) /\ y.loop = z
      \/ ~again /\ op # 0 /\ Beside(x, y, {"loop"}) /\ y.loop = l
  <2>1. CASE x.task.paused
    <3>1. y = [x EXCEPT !.loop = z]
      BY <1>2, <2>1
    <3> QED BY <1>1, <2>1, <3>1 DEF Beside, Fields
  <2>2. CASE ~x.task.paused /\ (op = 0 \/ ~w.task.thread)
    <3>1. y = [w EXCEPT !.loop = z]
      BY <1>2, <2>2
    <3>2. Beside(w, y, {"loop"}) /\ y.loop = z
      BY <1>5, <3>1 DEF Beside, Fields
    <3> QED BY <1>3, <2>2, <3>2
  <2>3. CASE ~x.task.paused /\ ~(op = 0 \/ ~w.task.thread)
    <3>1. y = [w EXCEPT !.loop = l]
      BY <1>2, <2>3
    <3>2. Beside(w, y, {"loop"}) /\ y.loop = l
      BY <1>5, <3>1 DEF Beside, Fields
    <3>3. ~again
      BY <1>5, <2>3 DEF Asking
    <3> QED BY <1>3, <2>3, <3>2, <3>3
  <2> QED BY <2>1, <2>2, <2>3
<1>7. ASSUME Beside(x, y, {"loop"}), y.loop = z
      PROVE  Covering(y, c, can, seen)
  BY <1>1, <1>3, <1>7, LoopReset DEF Covering
<1>8. ASSUME again, ~x.task.paused, Beside(w, y, {"loop"}), y.loop = z
      PROVE  Covering(y, c, can, seen)
  <2>1. Beside(x, y, {"worker", "starting", "loop"}) /\ y.worker = w.worker
    BY <1>4, <1>8 DEF Beside, Fields
  <2> QED BY <1>1, <1>2, <1>3, <1>4, <1>8, <2>1, AgainCovers
<1>9. ASSUME ~again, op # 0, Beside(x, y, {"loop"}), y.loop = l
      PROVE  Covering(y, c, can, seen)
  <2>1. op = UncertainStart(x)
    BY <1>3, <1>9
  <2>2. Matching(y, c, can)
    BY <1>1, <1>2, <1>3, <1>9, <2>1, SoughtMatches
  <2>3. Listed(y, c, seen)
    BY <1>3, <1>9 DEF Listed
  <2>4. state # "quota" /\ (Loses(can) => state \in {"active", "completed", "none"})
    <3>1. CASE n = 0
      BY <3>1 DEF StateOf, state
    <3>2. CASE n # 0
      BY <1>1, <1>3, <3>2, InboxOf DEF Covering, Core, Plainly, Based
    <3> QED BY <3>1, <3>2
  <2> QED BY <1>1, <1>3, <1>9, <2>2, <2>3, <2>4, LoopCovers DEF Covering
<1>10. Covering(y, c, can, seen)
  BY <1>6, <1>7, <1>8, <1>9
<1> QED BY <1>2, <1>10, SameCovered DEF y, c, can

\* A turn that is completed on a board with human review goes there.
LEMMA ResultReviewed ==
  ASSUME NEW n \in Nat, NEW x, Typed(x, n), NEW id \in 0..n, id # 0, ~Ignores(x, id),
         NEW state, state = "completed", NEW by, NEW y, y = Result(x, id, state, TRUE, by)
  PROVE  y.task.status = "in_review"
<1> DEFINE f == ObservedFlags(x)
           r == Recorded(f, id)
           m == Moved(r, "in_review", "none")
           z == Updated(m, "completed")
<1>1. y = Forget(z, id)
  BY DEF Result, Settled
<1>2. /\ f = ObservedFlags(x) /\ r = Recorded(f, id) /\ m = Moved(r, "in_review", "none")
      /\ z = Updated(m, "completed")
  OBVIOUS
<1> HIDE DEF f, r, m, z
<1>3. Typed(f, n)
  BY <1>2, ObservedFlagsSane DEF Sane
<1>4. Typed(r, n)
  BY <1>2, <1>3, RecordedSane DEF Sane
<1>5. Typed(m, n) /\ m.task.status = "in_review"
  BY <1>2, <1>4, MovedSane, MovedIs DEF Sane
<1>6. Beside(m, z, {"runs"}) /\ Typed(z, n)
  <2>1. Beside(m, z, {"runs"})
    BY <1>2, <1>5, UpdatedIs
  <2>2. "completed" \in RunState
    BY DEF RunState
  <2>3. Typed(z, n)
    BY <1>2, <1>5, <2>2, UpdatedSane DEF Sane
  <2> QED BY <2>1, <2>3
<1>7. z.task = m.task
  BY <1>6 DEF Beside, Fields
<1>8. Beside(z, y, {"turn"})
  BY <1>1, <1>6, ForgetIs
<1>9. y.task = z.task
  BY <1>8 DEF Beside, Fields
<1> QED BY <1>5, <1>7, <1>9

\* The turn that was looked for is the latest one.
LEMMA FoundCovers ==
  ASSUME NEW x, NEW c, NEW can, NEW sn, Based(x, c, can), Covering(x, c, can, sn), Finds(x),
         NEW n, n = Len(c.turns), n \in Nat, NEW l, l = x.loop,
         NEW f, f = FoundOf(x, l)
  PROVE  /\ n # 0 /\ l.latest = n /\ Typed(f, n) /\ f.limits = x.limits /\ f.loop = x.loop
         /\ f.follow = x.follow /\ f.worker = x.worker /\ f.stop = x.stop /\ f.override = x.override
         /\ f.task.paused = x.task.paused /\ f.task.status = "in_progress" /\ f.turn = n
         /\ Takes(x, f, c, can, n)
         /\ \A y : /\ Beside(f, y, {"worker", "loop"}) /\ Nobody(x, c)
                   /\ y.worker = x.worker \/ (x.worker.pc = "none" /\ y.worker.pc = "wait" /\ y.worker.turn = n)
                   /\ y.loop = x.loop \/ y.loop.pc \in {"idle", "reconcile"}
                   /\ l.state = "active" \/ ~Loses(can)
                   => Covering(y, c, can, sn)
<1> DEFINE m == Len(x.ops)
<1>1. /\ l.op = m /\ l.latest = n /\ c.turns[n].prompt = x.ops[m].prompt
      /\ "missed" \notin can => n \in Turned(x)
      /\ x.queue.state = "pending" /\ ~x.lease => Loses(can) /\ l.state # "active"
  BY DEF Covering, Reads, Matching
<1>2. Typed(x, n) /\ x.loop.pc = "recover" /\ l.latest # 0
  BY DEF Based, Finds
<1>3. l.op \in DOMAIN x.ops
  BY <1>2, OpsOf, Single DEF AllFiled
<1>4. n # 0 /\ n \in 0..n /\ l.latest \in 0..n
  BY <1>1, <1>2
<1> HIDE DEF m
<1>5. /\ Typed(f, n) /\ Beside(x, f, {"ops", "task", "turn"})
      /\ RowBut(x.task, f.task, {"status", "run", "uncertain", "conflict"})
      /\ f.task.status = "in_progress" /\ f.task.run = "running"
      /\ f.task.uncertain = 0 /\ ~f.task.conflict /\ f.turn = l.latest
      /\ DOMAIN f.ops = DOMAIN x.ops
      /\ f.ops[l.op].state = "agent_running" /\ f.ops[l.op].turn = l.latest
      /\ f.ops[l.op].prompt = x.ops[l.op].prompt /\ f.ops[l.op].prev = x.ops[l.op].prev
      /\ \A j \in DOMAIN x.ops : j # l.op => f.ops[j] = x.ops[j]
  BY <1>2, <1>3, <1>4, FoundIs
<1>6. /\ f.limits = x.limits /\ f.loop = x.loop /\ f.follow = x.follow /\ f.worker = x.worker
      /\ f.stop = x.stop /\ f.override = x.override /\ f.runs = x.runs /\ f.lease = x.lease
      /\ f.queue = x.queue /\ f.ended = x.ended
  BY <1>5 DEF Beside, Fields
<1>7. f.task.paused = x.task.paused /\ f.task.thread = x.task.thread
  BY <1>5 DEF RowBut, TaskFields
<1>8. Turned(f) = Turned(x) /\ LastRun(f) = LastRun(x)
  BY <1>6 DEF Turned, LastRun
<1>9. Len(f.ops) = Len(x.ops)
  <2>1. Mild(x, f)
    BY <1>2, <1>3, <1>4, FoundIs
  <2> QED BY <2>1 DEF Mild, Closing, SamePrompts
<1>10. \A i \in DOMAIN x.ops :
         /\ f.ops[i].prompt = x.ops[i].prompt /\ f.ops[i].prev = x.ops[i].prev
         /\ \/ f.ops[i].turn = x.ops[i].turn
            \/ f.ops[i].turn = n /\ c.turns[n].prompt = x.ops[i].prompt
         /\ f.ops[i].state = "uncertain" => x.ops[i].state = "uncertain"
  BY <1>1, <1>5
<1>11. ASSUME NEW y, Beside(f, y, {"worker", "loop"}),
              y.worker = x.worker \/ (x.worker.pc = "none" /\ y.worker.pc = "wait" /\ y.worker.turn = n),
              y.loop = x.loop \/ y.loop.pc \in {"idle", "reconcile"}
       PROVE  Takes(x, y, c, can, n) /\ y.task = f.task /\ y.lease = x.lease
  <2>1. /\ y.ops = f.ops /\ y.task = f.task /\ y.runs = x.runs /\ y.turn = n /\ y.lease = x.lease
    BY <1>1, <1>5, <1>6, <1>11 DEF Beside, Fields
  <2>2. Beside(x, y, {"task", "turn", "runs", "lease", "ops", "worker", "loop"})
    BY <1>5, <1>11 DEF Beside
  <2>3. Turned(y) = Turned(x) /\ LastRun(y) = LastRun(x)
    BY <2>1 DEF Turned, LastRun
  <2>4. "missed" \in can \/ n \in Turned(y)
    BY <1>1, <2>3
  <2> QED BY <1>5, <1>9, <1>10, <1>11, <2>1, <2>2, <2>3, <2>4 DEF Takes
<1>12. Beside(f, f, {"worker", "loop"})
  BY <1>5 DEF Beside
<1>13. Takes(x, f, c, can, n)
  BY <1>6, <1>11, <1>12
<1>14. ASSUME NEW y, Beside(f, y, {"worker", "loop"}), Nobody(x, c),
              y.worker = x.worker \/ (x.worker.pc = "none" /\ y.worker.pc = "wait" /\ y.worker.turn = n),
              y.loop = x.loop \/ y.loop.pc \in {"idle", "reconcile"},
              l.state = "active" \/ ~Loses(can)
       PROVE  Covering(y, c, can, sn)
  <2>1. Takes(x, y, c, can, n) /\ y.task = f.task /\ y.lease = x.lease
    BY <1>11, <1>14
  <2>2. ~Over(c) => y.lease
    BY <2>1 DEF Covering, Core, Leased
  <2>3. x.queue.state = "pending" => y.lease
    BY <1>1, <1>14, <2>1
  <2> QED BY <1>4, <1>5, <1>7, <1>14, <2>1, <2>2, <2>3, TakenOn
<1> QED BY <1>1, <1>4, <1>5, <1>6, <1>7, <1>13, <1>14

\* Its result is written, with or without the loop's next steps.
LEMMA FoundReported ==
  ASSUME NEW x, NEW c, NEW can, NEW sn, Based(x, c, can), Covering(x, c, can, sn), Finds(x),
         NEW n, n = Len(c.turns), n \in Nat, NEW l, l = x.loop, l.state # "active",
         NEW f, f = FoundOf(x, l), NEW r, Reported(f, r, n),
         l.state = "completed" => r.task.status = "in_review"
  PROVE  Core(r, c, can)
<1>1. /\ n # 0 /\ Typed(f, n) /\ f.follow = x.follow /\ f.worker = x.worker /\ Takes(x, f, c, can, n)
  BY FoundCovers
<1>2. /\ Halted(f, c, can) /\ Watched(f, c) /\ Heard(f, c, can) /\ Entered(f, c, can)
      /\ Certain(f, can) /\ Ordinal(c) /\ Plainly(f, c, can)
      /\ \A h \in Callers : (Wants(f, c, h) <=> Wants(x, c, h))
  BY <1>1, TakenParts DEF Covering
<1>3. /\ Over(c) /\ x.follow.pc # "options" /\ \A h \in Callers : ~Wants(x, c, h)
      /\ x.worker.pc \in Before => Loses(can) /\ l.state = "completed"
  BY DEF Covering, Reads, Matching
<1>4. x.follow.pc # "none" => x.follow.row.status \in {"in_progress", "in_review"}
  BY DEF Covering, Core, Waiting
<1>5. /\ Shown(c) /\ f.follow.pc # "options" /\ \A h \in Callers : ~Wants(f, c, h)
      /\ f.worker.pc \in Before => Loses(can) /\ r.task.status = "in_review"
      /\ f.follow.pc # "none" => f.follow.row.status \in {"in_progress", "in_review"}
  BY <1>1, <1>2, <1>3, <1>4 DEF Based
<1> QED BY <1>1, <1>2, <1>3, <1>5, ReportedCovers

LEMMA RecoverCovered ==
  ASSUME Grounds, Recover
  PROVE  Covered
<1> DEFINE x == s
           y == s'
           c == codex
           can == left.can
           n == Latest
           l == s.loop
           r == Recovered(x, l)
           f == FoundOf(x, l)
           b == TRUE
           by == "loop"
           z == NoLoop
           g == [NoLoop EXCEPT !.pc = "limits"]
           done == r.limits = x.limits
<1>1. /\ Based(x, c, can) /\ Covering(x, c, can, seen) /\ n = Len(c.turns) /\ n \in Nat /\ Typed(x, n)
      /\ l.latest \in 0..n
  BY Grounded, Shape DEF Based
<1>2. /\ codex' = codex /\ Unseen /\ x.loop.pc = "recover"
      /\ y = IF done THEN [r EXCEPT !.loop = z] ELSE [r EXCEPT !.loop = g]
  BY DEF Recover
<1>3. /\ z.pc = "idle" /\ l = x.loop /\ r = Recovered(x, l) /\ f = FoundOf(x, l)
      /\ by \in {"worker", "loop", "notice"}
  BY DEF NoLoop
<1> HIDE DEF x, y, c, can, n, l, r, f, by, z, g
<1>4. l.op \in DOMAIN x.ops
  BY <1>1, <1>2, <1>3, OpsOf, Single DEF AllFiled
<1>5. /\ l.latest = 0 \/ l.latest = x.ops[l.op].prev => r = x
      /\ l.latest # 0 /\ l.latest # x.ops[l.op].prev =>
           /\ l.state = "active" => r = Watch(f, l.latest)
           /\ l.state # "active" => r = Result(f, l.latest, l.state, TRUE, by)
  BY <1>3 DEF Recovered, FoundOf, by
<1>6. l.state # "quota"
  BY <1>1, <1>2, <1>3 DEF Covering, Core, Plainly
<1>7. ASSUME r.limits = x.limits, Typed(r, n)
      PROVE  Beside(r, y, {"loop"}) /\ y.loop.pc = "idle"
  <2>1. DOMAIN r = Fields
    BY <1>7 DEF Typed, States, Fields
  <2>2. y = [r EXCEPT !.loop = z]
    BY <1>2, <1>7
  <2> QED BY <1>3, <2>1, <2>2 DEF Beside, Fields
<1>8. ASSUME l.latest = 0 \/ l.latest = x.ops[l.op].prev
      PROVE  Covering(y, c, can, seen)
  <2>1. r = x
    BY <1>5, <1>8
  <2> QED BY <1>1, <1>7, <2>1, LoopReset DEF Covering
<1>9. ASSUME l.latest # 0, l.latest # x.ops[l.op].prev
      PROVE  Covering(y, c, can, seen)
  <2>1. Finds(x)
    BY <1>2, <1>3, <1>9 DEF Finds
  <2>2. /\ n # 0 /\ l.latest = n /\ Typed(f, n) /\ f.limits = x.limits /\ f.loop = x.loop
        /\ f.worker = x.worker /\ f.override = x.override
        /\ f.task.paused = x.task.paused /\ f.task.status = "in_progress" /\ f.turn = n
    BY <1>1, <1>3, <2>1, FoundCovers
  <2>3. /\ l.state # "active" => Over(c)
        /\ x.follow.pc # "options" /\ \A h \in Callers : ~Wants(x, c, h)
        /\ x.worker.pc \in Before => Loses(can) /\ l.state = "completed"
    BY <1>1, <1>3, <2>1 DEF Covering, Reads, Matching
  <2>4. Typed(r, n)
    BY <1>1, <1>3, <1>4, <1>9, RecoveredSane DEF Sane
  <2>5. ASSUME l.state = "active"
        PROVE  Covering(y, c, can, seen)
    <3>1. r = Watch(f, n)
      BY <1>5, <1>9, <2>2, <2>5
    <3>2. /\ Beside(f, r, {"worker"})
          /\ f.worker.pc # "none" => r.worker = f.worker
          /\ f.worker.pc = "none" => r.worker.pc = "wait" /\ r.worker.turn = n
      BY <2>2, <3>1, WatchIs
    <3>3. r.limits = x.limits
      BY <2>2, <3>2 DEF Beside, Fields
    <3>4. Beside(r, y, {"loop"}) /\ y.loop.pc = "idle"
      BY <1>7, <2>4, <3>3
    <3>5. Beside(f, y, {"worker", "loop"}) /\ y.worker = r.worker
      BY <3>2, <3>4 DEF Beside, Fields
    <3>6. y.worker = x.worker \/ (x.worker.pc = "none" /\ y.worker.pc = "wait" /\ y.worker.turn = n)
      BY <2>2, <3>2, <3>5
    <3>7. Nobody(x, c)
      BY <2>3, <2>5 DEF Nobody
    <3> QED BY <1>1, <1>3, <2>1, <2>5, <3>4, <3>5, <3>6, <3>7, FoundCovers
  <2>6. ASSUME l.state # "active"
        PROVE  Covering(y, c, can, seen)
    <3>1. r = Result(f, n, l.state, b, by)
      BY <1>5, <1>9, <2>2, <2>6
    <3> HIDE DEF b
    <3>2. n \in 0..n
      BY <1>1
    <3>3. /\ Ignores(f, n) => r = f
          /\ ~Ignores(f, n) => Reported(f, r, n)
          /\ r.limits = f.limits
      BY <1>1, <1>3, <1>6, <2>2, <3>1, <3>2, ResultIs
    <3>4. Beside(r, y, {"loop"}) /\ y.loop.pc = "idle"
      BY <1>7, <2>2, <2>4, <3>3
    <3>5. ASSUME Ignores(f, n)
          PROVE  Covering(y, c, can, seen)
      <4>1. x.override \/ x.task.paused
        BY <2>2, <3>5 DEF Ignores
      <4>2. ~Loses(can)
        BY <1>1, <4>1 DEF Covering, Core, Halted, Waiting
      <4>3. Nobody(x, c)
        BY <2>3, <4>2 DEF Nobody
      <4>4. r = f
        BY <3>3, <3>5
      <4>5. Beside(f, y, {"worker", "loop"}) /\ y.worker = x.worker
        BY <2>2, <3>4, <4>4 DEF Beside, Fields
      <4> QED BY <1>1, <1>3, <2>1, <3>4, <4>2, <4>3, <4>5, FoundCovers
    <3>6. ASSUME ~Ignores(f, n)
          PROVE  Covering(y, c, can, seen)
      <4>1. Reported(f, r, n)
        BY <3>3, <3>6
      <4>2. l.state = "completed" => r.task.status = "in_review"
        BY <1>1, <2>2, <3>1, <3>2, <3>6, ResultReviewed DEF b
      <4>3. Core(r, c, can)
        BY <1>1, <1>3, <2>1, <2>6, <4>1, <4>2, FoundReported
      <4> QED BY <3>4, <4>3, LoopReset
    <3> QED BY <3>5, <3>6
  <2> QED BY <2>5, <2>6
<1>10. Covering(y, c, can, seen)
  BY <1>8, <1>9
<1> QED BY <1>2, <1>10, SameCovered DEF y, c, can

-----------------------------------------------------------------------------
(* Stops.                                                                    *)

\* A stop begins, goes on or is given up.
LEMMA StopCovers ==
  ASSUME NEW x, NEW c, NEW can, NEW sn, Covering(x, c, can, sn),
         NEW y, Beside(x, y, {"stop", "override"}), Halted(y, c, can)
  PROVE  Covering(y, c, can, sn)
<1>1. /\ y.worker = x.worker /\ y.follow = x.follow /\ y.loop = x.loop
      /\ y.task = x.task /\ y.queue = x.queue /\ y.limits = x.limits /\ y.ops = x.ops
      /\ y.ended = x.ended /\ y.lease = x.lease /\ y.runs = x.runs /\ y.turn = x.turn
  BY DEF Beside, Fields
<1>2. \A h \in Callers : y[h] = x[h]
  BY <1>1 DEF Callers
<1>3. \A h \in Callers : (Called(y, c, h) <=> Called(x, c, h)) /\ (Wants(y, c, h) <=> Wants(x, c, h))
  BY <1>2 DEF Called, Wants
<1>4. Turned(y) = Turned(x) /\ LastRun(y) = LastRun(x)
  BY <1>1 DEF Turned, LastRun
<1>5. (Busy(y) <=> Busy(x)) /\ (Asking(y) <=> Asking(x)) /\ (OnWay(y) <=> OnWay(x)) /\ (Held(y) <=> Held(x))
      /\ (Finds(y) <=> Finds(x))
  BY <1>1 DEF Busy, Asking, OnWay, Held, Going, Finds
<1>6. Leased(y, c, can)
  BY <1>1 DEF Covering, Core, Leased
<1>7. Eager(y, c, can)
  BY <1>1, <1>3, <1>5 DEF Covering, Core, Eager, Callers
<1>8. Watched(y, c)
  BY <1>1 DEF Covering, Core, Watched
<1>9. Heard(y, c, can)
  BY <1>1, <1>3, <1>4 DEF Covering, Core, Heard
<1>10. Entered(y, c, can) /\ Certain(y, can)
  BY <1>1, <1>2 DEF Covering, Core, Entered, Asked, Tracked, Certain
<1>11. Ordinal(c) /\ Plainly(y, c, can)
  BY <1>1 DEF Covering, Core, Plainly
<1>12. Waiting(y, can)
  <2>1. Waiting(x, can)
    BY DEF Covering, Core
  <2> QED BY <1>1, <1>5, <2>1 DEF Waiting
<1>13. Reads(y, c, can, sn)
  BY <1>1, <1>2, <1>3, <1>4, <1>5 DEF Covering, Reads, Listed, Matching
<1> QED BY <1>6, <1>7, <1>8, <1>9, <1>10, <1>11, <1>12, <1>13 DEF Covering, Core

LEMMA GivenUpCovers ==
  ASSUME NEW x, NEW c, NEW can, NEW sn, Covering(x, c, can, sn), DOMAIN x = Fields,
         NEW y, y = GivenUp(x)
  PROVE  Covering(y, c, can, sn)
<1>1. Beside(x, y, {"stop", "override"}) /\ y.stop.pc = "none" /\ ~y.override
  BY DEF GivenUp, Beside, Fields, NoStop
<1>2. Halted(y, c, can)
  BY <1>1 DEF Halted
<1> QED BY <1>1, <1>2, StopCovers

\* What the writes of a stop have in common.
Stops(x, y) ==
  /\ Beside(x, y, {"worker", "starting", "turn", "limits", "lease", "task", "ops", "queue", "runs"})
  /\ y.worker.pc = "none" /\ y.turn = 0 /\ ~y.lease /\ y.limits \subseteq x.limits
  /\ y.queue.state # "pending" /\ y.task.uncertain \in {0, x.task.uncertain}
  /\ Turned(y) = Turned(x) /\ LastRun(y).turn = LastRun(x).turn
  /\ y.task.conflict \/ Asking(y) => y.task.status \in {"todo", "canceled"}
  /\ DOMAIN y.ops = DOMAIN x.ops /\ Len(y.ops) = Len(x.ops)
  /\ \A i \in DOMAIN x.ops :
       /\ y.ops[i].turn = x.ops[i].turn /\ y.ops[i].prompt = x.ops[i].prompt
       /\ y.ops[i].prev = x.ops[i].prev
       /\ y.ops[i].state = "uncertain" => x.ops[i].state = "uncertain"

LEMMA StopsCovers ==
  ASSUME NEW x, NEW c, NEW can, NEW sn, Covering(x, c, can, sn), Shown(c), Typed(x, Len(c.turns)), AllFiled(x),
         ~OnWay(x), x.follow.pc = "none", Over(c), ~Loses(can), NEW y, Stops(x, y)
  PROVE  Covering(y, c, can, sn)
<1> DEFINE n == Len(c.turns)
<1>1. /\ y.follow = x.follow /\ y.stop = x.stop /\ y.override = x.override /\ y.loop = x.loop
      /\ y.ended = x.ended
  BY DEF Stops, Beside, Fields
<1>2. /\ y.worker.pc = "none" /\ y.turn = 0 /\ y.limits \subseteq x.limits
      /\ y.queue.state # "pending" /\ y.task.uncertain \in {0, x.task.uncertain}
      /\ Turned(y) = Turned(x) /\ LastRun(y).turn = LastRun(x).turn
      /\ y.task.conflict \/ Asking(y) => y.task.status \in {"todo", "canceled"}
      /\ DOMAIN y.ops = DOMAIN x.ops /\ Len(y.ops) = Len(x.ops)
      /\ \A i \in DOMAIN x.ops :
           /\ y.ops[i].turn = x.ops[i].turn /\ y.ops[i].prompt = x.ops[i].prompt
           /\ y.ops[i].prev = x.ops[i].prev
           /\ y.ops[i].state = "uncertain" => x.ops[i].state = "uncertain"
  BY DEF Stops
<1>3. n \in Nat /\ DOMAIN x.ops = 1..Len(x.ops) /\ Len(x.ops) \in Nat
  BY InboxOf, OpsOf
<1>4. \A h \in Callers : x[h].pc # "turn" /\ y[h].pc # "turn"
  BY <1>1, <1>2 DEF OnWay, Callers
<1>5. ~OnWay(y) /\ y.worker.pc \notin Before /\ \A h \in Callers : ~Wants(y, c, h)
  BY <1>2, <1>4 DEF OnWay, Before, Wants
<1>6. \A h \in Callers : c.calls[h] = 0
  BY <1>4 DEF Covering, Core, Entered, Asked
<1>7. Leased(y, c, can)
  BY DEF Leased
<1>8. Eager(y, c, can)
  BY <1>1, <1>5 DEF Eager, Callers
<1>9. Halted(y, c, can)
  BY <1>1, <1>5 DEF Covering, Core, Halted
<1>10. Watched(y, c)
  BY <1>2 DEF Watched
<1>11. Heard(y, c, can)
  <2>1. RunsKept(x, y)
    BY <1>2 DEF RunsKept
  <2>2. Heard(x, c, can)
    BY DEF Covering, Core
  <2>3. n # 0 /\ n \notin Turned(x) => \E h \in Callers : Called(x, c, h)
    BY <2>2 DEF Heard
  <2>4. ~(n # 0 /\ n \notin Turned(x))
    BY <1>4, <2>3 DEF Called
  <2> QED BY <1>2, <1>3, <2>1, <2>2, <2>4, KeptHeard
<1>12. Entered(y, c, can)
  <2>1. Asked(y, c)
    BY <1>4, <1>6 DEF Asked
  <2>2. Tracked(x, c) /\ (Len(x.ops) # 0 => Len(x.ops) \in DOMAIN x.ops)
    BY <1>3 DEF Covering, Core, Entered
  <2>3. Tracked(y, c)
    BY <1>2, <2>2 DEF Tracked
  <2> QED BY <2>1, <2>3 DEF Entered
<1>13. Certain(y, can)
  <2>1. Certain(x, can)
    BY DEF Covering, Core
  <2>2. x.task.uncertain = 0 /\ \A i \in DOMAIN x.ops : x.ops[i].state # "uncertain"
    BY <1>4, <2>1 DEF Certain
  <2>3. y.task.uncertain = 0 /\ \A i \in DOMAIN y.ops : y.ops[i].state # "uncertain"
    BY <1>2, <2>2
  <2> QED BY <2>3 DEF Certain
<1>14. Ordinal(c) /\ Plainly(y, c, can)
  <2>1. Ordinal(c) /\ Plainly(x, c, can)
    BY DEF Covering, Core
  <2>2. y.limits = {}
    BY <1>2, <2>1 DEF Plainly
  <2> QED BY <1>1, <1>2, <2>1, <2>2 DEF Plainly
<1>15. Waiting(y, can)
  BY <1>1, <1>2, <1>5 DEF Waiting, Asking
<1>16. Reads(y, c, can, sn)
  <2>1. Finds(y) <=> Finds(x)
    BY <1>1, <1>2, <1>3 DEF Finds, AllFiled
  <2>2. Listed(x, c, sn) /\ Matching(x, c, can)
    BY DEF Covering, Reads
  <2>3. Listed(y, c, sn)
    BY <1>1, <1>2, <1>4, <2>2 DEF Listed
  <2>4. Matching(y, c, can)
    <3>1. Finds(x) => Len(x.ops) \in DOMAIN x.ops
      BY <1>3, <2>2 DEF Matching, Finds, AllFiled
    <3> QED BY <1>1, <1>2, <1>5, <2>1, <2>2, <3>1 DEF Matching
  <2> QED BY <2>3, <2>4 DEF Reads
<1> QED BY <1>7, <1>8, <1>9, <1>10, <1>11, <1>12, <1>13, <1>14, <1>15, <1>16 DEF Covering, Core

\* What a stop writes, whatever its kind.
LEMMA StoppedStops ==
  ASSUME NEW n \in Nat, NEW x, Typed(x, n), NEW kind \in {"pause", "cancel", "requeue"},
         kind = "pause" => x.queue.state # "pending",
         NEW current \in BOOLEAN, NEW y, y = StoppedBy(x, kind, current)
  PROVE  y = x \/ Stops(x, y)
<1>0. x.managed \in BOOLEAN
  BY DEF Typed, States
<1>1. Len(y.ops) = Len(x.ops)
  <2>1. Still(x, y)
    BY StoppedStill
  <2> QED BY <2>1 DEF Still, SamePrompts
<1>2. NoWorker.pc = "none"
  BY DEF NoWorker
<1>3. ASSUME NEW z, z = Paused(x)
      PROVE  /\ Beside(x, z, {"worker", "starting", "turn", "limits", "lease", "task", "ops"})
             /\ z.worker.pc = "none" /\ z.turn = 0 /\ ~z.lease /\ z.limits \subseteq x.limits
             /\ z.task.uncertain = 0 /\ ~z.task.conflict /\ ~(z.task.run \in {"starting", "running"})
             /\ z.queue = x.queue /\ z.runs = x.runs /\ DOMAIN z.ops = DOMAIN x.ops
             /\ \A i \in DOMAIN x.ops :
                  /\ z.ops[i].turn = x.ops[i].turn /\ z.ops[i].prompt = x.ops[i].prompt
                  /\ z.ops[i].prev = x.ops[i].prev
                  /\ z.ops[i].state = "uncertain" => x.ops[i].state = "uncertain"
  <2>1. /\ Beside(x, z, {"worker", "starting", "turn", "limits", "lease", "task", "ops"})
        /\ z.worker = NoWorker /\ z.turn = 0 /\ ~z.lease /\ z.limits \subseteq x.limits
        /\ z.task.uncertain = 0 /\ ~z.task.conflict /\ ~(z.task.run \in {"starting", "running"})
        /\ DOMAIN z.ops = DOMAIN x.ops
        /\ \A i \in DOMAIN x.ops :
             /\ z.ops[i].turn = x.ops[i].turn
             /\ z.ops[i].prompt = x.ops[i].prompt /\ z.ops[i].prev = x.ops[i].prev
             /\ x.ops[i].state # "uncertain" => z.ops[i] = x.ops[i]
    BY <1>3, PausedIs
  <2>2. z.queue = x.queue /\ z.runs = x.runs
    BY <2>1 DEF Beside, Fields
  <2>3. \A i \in DOMAIN x.ops : z.ops[i].state = "uncertain" => x.ops[i].state = "uncertain"
    BY <2>1
  <2> QED BY <1>2, <2>1, <2>2, <2>3
<1>4. CASE kind = "pause"
  <2>1. y = Paused(x)
    BY <1>4 DEF StoppedBy
  <2>2. Turned(y) = Turned(x) /\ LastRun(y) = LastRun(x)
    BY <1>3, <2>1 DEF Turned, LastRun
  <2>3. ~Asking(y)
    BY <1>3, <2>1 DEF Asking
  <2>4. Beside(x, y, {"worker", "starting", "turn", "limits", "lease", "task", "ops", "queue", "runs"})
    BY <1>3, <2>1 DEF Beside
  <2> QED BY <1>1, <1>3, <1>4, <2>1, <2>2, <2>3, <2>4 DEF Stops
<1>5. CASE kind = "cancel" /\ x.managed
  <2> DEFINE z == Paused(x)
  <2>1. z = Paused(x) /\ y = Moved(z, "canceled", "none")
    BY <1>5 DEF StoppedBy
  <2> HIDE DEF z
  <2>2. Typed(z, n)
    BY <2>1, PausedStill
  <2>3. /\ Beside(z, y, {"task", "queue", "lease"}) /\ y.task.status = "canceled"
        /\ RowBut(z.task, y.task, {"status", "run"}) /\ y.queue.state # "pending" /\ ~y.lease
    BY <2>1, <2>2, MovedIs
  <2>4. /\ Beside(x, y, {"worker", "starting", "turn", "limits", "lease", "task", "ops", "queue", "runs"})
        /\ y.worker = z.worker /\ y.turn = z.turn /\ y.limits = z.limits /\ y.ops = z.ops /\ y.runs = x.runs
    BY <1>3, <2>1, <2>3 DEF Beside, Fields
  <2>5. y.task.uncertain = 0
    BY <1>3, <2>1, <2>3 DEF RowBut, TaskFields
  <2>6. Turned(y) = Turned(x) /\ LastRun(y) = LastRun(x)
    BY <2>4 DEF Turned, LastRun
  <2> QED BY <1>1, <1>3, <2>1, <2>3, <2>4, <2>5, <2>6 DEF Stops
<1>6. CASE kind = "cancel" /\ ~x.managed
  <2> DEFINE z == Moved(x, "canceled", "none")
  <2>1. y = Canceled(z) \/ y = x
    BY <1>6 DEF StoppedBy
  <2>2. z = Moved(x, "canceled", "none")
    OBVIOUS
  <2> HIDE DEF z
  <2>3. Typed(z, n)
    BY <2>2, MovedSane DEF Sane
  <2>4. /\ Beside(x, z, {"task", "queue", "lease"}) /\ z.task.status = "canceled"
        /\ RowBut(x.task, z.task, {"status", "run"}) /\ z.queue.state # "pending" /\ ~z.lease
    BY <2>2, MovedIs
  <2>5. ASSUME y = Canceled(z)
        PROVE  Stops(x, y)
    <3>1. /\ Beside(z, y, {"worker", "starting", "turn", "limits"}) /\ y.worker = NoWorker
          /\ y.turn = 0 /\ y.limits \subseteq z.limits
      BY <2>3, <2>5, CanceledIs
    <3>2. /\ Beside(x, y, {"worker", "starting", "turn", "limits", "lease", "task", "ops", "queue", "runs"})
          /\ y.task = z.task /\ y.queue = z.queue /\ y.lease = z.lease /\ z.limits = x.limits
          /\ y.ops = x.ops /\ y.runs = x.runs
      BY <2>4, <3>1 DEF Beside, Fields
    <3>3. y.task.uncertain = x.task.uncertain
      BY <2>4, <3>2 DEF RowBut, TaskFields
    <3>4. Turned(y) = Turned(x) /\ LastRun(y) = LastRun(x)
      BY <3>2 DEF Turned, LastRun
    <3> QED BY <1>1, <1>2, <2>4, <3>1, <3>2, <3>3, <3>4 DEF Stops
  <2> QED BY <2>1, <2>5
<1>7. CASE kind = "requeue"
  <2> DEFINE z == Moved(x, "todo", "none")
             u == Updated(z, "interrupted")
  <2>1. y = Canceled(u)
    BY <1>7 DEF StoppedBy
  <2>2. z = Moved(x, "todo", "none") /\ u = Updated(z, "interrupted") /\ "interrupted" \in RunState
    BY DEF RunState
  <2> HIDE DEF z, u
  <2>3. Typed(z, n)
    BY <2>2, MovedSane DEF Sane
  <2>4. /\ Beside(x, z, {"task", "queue", "lease"}) /\ z.task.status = "todo"
        /\ RowBut(x.task, z.task, {"status", "run"}) /\ z.queue.state # "pending" /\ ~z.lease
    BY <2>2, MovedIs
  <2>5. Beside(z, u, {"runs"}) /\ Turned(u) = Turned(z) /\ LastRun(u).turn = LastRun(z).turn
    BY <2>2, <2>3, UpdatedIs
  <2>6. Typed(u, n)
    BY <2>2, <2>3, UpdatedSane DEF Sane
  <2>7. /\ Beside(u, y, {"worker", "starting", "turn", "limits"}) /\ y.worker = NoWorker
        /\ y.turn = 0 /\ y.limits \subseteq u.limits
    BY <2>1, <2>6, CanceledIs
  <2>8. /\ Beside(x, y, {"worker", "starting", "turn", "limits", "lease", "task", "ops", "queue", "runs"})
        /\ y.task = z.task /\ y.queue = z.queue /\ y.lease = z.lease /\ u.limits = x.limits
        /\ y.ops = x.ops /\ y.runs = u.runs /\ z.runs = x.runs
    BY <2>4, <2>5, <2>7 DEF Beside, Fields
  <2>9. y.task.uncertain = x.task.uncertain
    BY <2>4, <2>8 DEF RowBut, TaskFields
  <2>10. Turned(y) = Turned(x) /\ LastRun(y).turn = LastRun(x).turn
    <3>1. Turned(y) = Turned(u) /\ LastRun(y) = LastRun(u)
      BY <2>8 DEF Turned, LastRun
    <3>2. Turned(z) = Turned(x) /\ LastRun(z) = LastRun(x)
      BY <2>8 DEF Turned, LastRun
    <3> QED BY <2>5, <3>1, <3>2
  <2> QED BY <1>1, <1>2, <2>4, <2>7, <2>8, <2>9, <2>10 DEF Stops
<1> QED BY <1>0, <1>4, <1>5, <1>6, <1>7

\* Kinds of stop are asked for where no answer is lost.
LEMMA StopsLess ==
  ASSUME Tidy(left.can), NEW kind \in Kinds
  PROVE  ~Loses(left.can) /\ kind \in {"pause", "cancel", "requeue"}
<1>1. left.can \cap {"pause", "cancel", "requeue"} # {}
  BY DEF Kinds, May
<1> QED BY <1>1 DEF Tidy, Loses, Kinds

LEMMA StopApplyCovered ==
  ASSUME Grounds, StopApply
  PROVE  Covered
<1> DEFINE x == s
           y == s'
           c == codex
           can == left.can
           n == Latest
           kind == s.stop.kind
           current == "stop" \in seen
           z == StoppedBy(x, kind, current)
           k == IF s'.worker.pc = "none" THEN 0 ELSE codex.calls.worker
           sn == seen
<1>1. /\ Based(x, c, can) /\ Covering(x, c, can, sn) /\ n = Len(c.turns) /\ n \in Nat /\ Typed(x, n)
      /\ Shown(c)
  BY Grounded DEF Based
<1>2. kind = x.stop.kind /\ z = StoppedBy(x, kind, current)
  OBVIOUS
<1>3. /\ x.stop.pc = "apply" /\ y = GivenUp(z) /\ Unseen
      /\ codex' = [c EXCEPT !.calls.worker = k]
  BY TidyAbandons DEF StopApply, Grounds
<1>4. kind \in {"pause", "cancel", "requeue"} /\ current \in BOOLEAN
  BY <1>1, <1>3 DEF Typed, States, StopRec
<1>5. /\ c.calls = [h \in {"worker", "follow"} |-> c.calls[h]]
      /\ DOMAIN c = {"threads", "trees", "turns", "calls", "late", "inbox"}
  BY <1>1 DEF CallRec, Shown, CodexRec
<1>6. k \in {0, c.calls.worker}
  OBVIOUS
<1>7. c = codex /\ y = s' /\ can = left.can /\ sn = seen
  OBVIOUS
<1> HIDE DEF x, y, c, can, n, kind, current, z, k, sn
<1>8. ~OnWay(x) /\ x.follow.pc = "none" /\ Over(c) /\ ~Loses(can)
  BY <1>1, <1>3 DEF Covering, Core, Halted
<1>9. kind = "pause" => x.queue.state # "pending"
  BY <1>1, <1>2, <1>3, Single DEF PauseHolds, Pausing, Patience, Based, Tidy
<1>10. z = x \/ Stops(x, z)
  BY <1>1, <1>2, <1>4, <1>9, StoppedStops
<1>11. AllFiled(x)
  BY <1>1, Single
<1>12. Covering(z, c, can, sn)
  BY <1>1, <1>8, <1>10, <1>11, StopsCovers
<1>13. Typed(z, n)
  BY <1>1, <1>2, <1>4, StoppedStill
<1>14. DOMAIN z = Fields
  BY <1>13 DEF Typed, States, Fields
<1>15. Covering(y, c, can, sn)
  BY <1>3, <1>12, <1>14, GivenUpCovers
<1>16. c.calls.worker = 0
  BY <1>1, <1>8 DEF Covering, Core, Entered, Asked, Callers, OnWay
<1>17. codex'.turns = c.turns /\ codex'.inbox = c.inbox /\ codex'.calls = c.calls
  <2>1. k = 0
    BY <1>6, <1>16
  <2>2. codex'.turns = c.turns /\ codex'.inbox = c.inbox /\ codex'.calls = [c.calls EXCEPT !.worker = k]
    BY <1>3, <1>5
  <2> QED BY <1>5, <1>16, <2>1, <2>2
<1> QED BY <1>3, <1>7, <1>15, <1>17, SameCovered

LEMMA StopCheckCovered ==
  ASSUME Grounds, StopCheck
  PROVE  Covered
<1> DEFINE x == s
           y == s'
           c == codex
           can == left.can
           n == Latest
           sn == seen
           pc == "apply"
<1>1. /\ Based(x, c, can) /\ Covering(x, c, can, sn) /\ n = Len(c.turns) /\ n \in Nat /\ Typed(x, n)
      /\ DOMAIN x = Fields
  BY Grounded DEF Based, Typed, States, Fields
<1>2. /\ x.stop.pc = "check" /\ c.inbox = <<>> /\ Unseen /\ codex' = c
      /\ y = GivenUp(x) \/ y = [x EXCEPT !.stop.pc = pc]
  BY DEF StopCheck, CanRead
<1>3. c = codex /\ y = s' /\ can = left.can /\ sn = seen
  OBVIOUS
<1>4. pc = "apply" /\ pc \in {"ask", "check", "apply"}
  OBVIOUS
<1> HIDE DEF x, y, c, can, n, sn, pc
<1>5. ASSUME y = [x EXCEPT !.stop.pc = pc]
      PROVE  Covering(y, c, can, sn)
  <2>1. Beside(x, y, {"stop"}) /\ y.stop.pc = pc
    BY <1>1, <1>4, <1>5, StoppingIs
  <2>2. Beside(x, y, {"stop", "override"}) /\ y.worker = x.worker /\ y.follow = x.follow
    BY <2>1 DEF Beside, Fields
  <2>3. Halted(x, c, can)
    BY <1>1 DEF Covering, Core
  <2>4. Halted(y, c, can)
    BY <1>2, <1>4, <2>1, <2>2, <2>3 DEF Halted, OnWay, Over
  <2> QED BY <1>1, <2>2, <2>4, StopCovers
<1>6. Covering(y, c, can, sn)
  BY <1>1, <1>2, <1>5, GivenUpCovers
<1>7. codex'.turns = c.turns /\ codex'.inbox = c.inbox /\ codex'.calls = c.calls
  BY <1>2
<1> QED BY <1>2, <1>3, <1>6, <1>7, SameCovered

LEMMA StopAskCovered ==
  ASSUME Grounds, StopAsk
  PROVE  Covered
<1> DEFINE x == s
           y == s'
           c == codex
           d == codex'
           can == left.can
           n == Latest
           sn == seen
           tn == seen'
           pc == "check"
           id == IF s.turn # 0 THEN s.turn ELSE IF Active THEN Latest ELSE 0
           over == "interrupted"
           m == Marked(c, id, over)
<1>1. /\ Based(x, c, can) /\ Covering(x, c, can, sn) /\ n = Len(c.turns) /\ n \in Nat /\ Typed(x, n)
      /\ DOMAIN x = Fields
  BY Grounded DEF Based, Typed, States, Fields
<1>2. /\ x.stop.pc = "ask" /\ Unseen
      /\ \/ id = 0 /\ y = [x EXCEPT !.stop.pc = pc] /\ d = c
         \/ StateOf(id) = "active" /\ y = [x EXCEPT !.stop.pc = pc] /\ d = m
         \/ y = GivenUp(x) /\ (d = c \/ (StateOf(id) = "active" /\ d = m))
  BY DEF StopAsk, Marked
<1>3. c = codex /\ d = codex' /\ y = s' /\ can = left.can /\ sn = seen /\ tn = seen'
  OBVIOUS
<1>4. pc = "check" /\ pc \in {"ask", "check", "apply"} /\ over = "interrupted" /\ m = Marked(c, id, over)
  OBVIOUS
<1>5. id = 0 => ~Live(c)
  <2>1. Latest = Len(codex.turns)
    BY DEF Latest
  <2>2. Active <=> Live(codex)
    BY <2>1, ActiveIs
  <2> QED BY <2>1, <2>2 DEF Live
<1>6. StateOf(id) = "active" => id = n /\ Live(c)
  <2>1. id \in 0..n
    BY <1>1 DEF Typed, States
  <2>2. LastActive(c) /\ DOMAIN c.turns = 1..Len(c.turns)
    BY <1>1, Single, InboxOf DEF Based
  <2> HIDE DEF id
  <2>3. ASSUME StateOf(id) = "active"
        PROVE  id \in 1..n /\ c.turns[id].state = "active"
    BY <1>1, <2>1, <2>3 DEF StateOf, c, n, Latest
  <2> HIDE DEF c, n
  <2> QED BY <1>1, <2>2, <2>3 DEF LastActive, Live
<1> HIDE DEF x, y, c, d, can, n, sn, tn, pc, id, over, m
<1>7. Halted(x, c, can) /\ ~Loses(can) /\ ~OnWay(x) /\ x.follow.pc = "none" /\ ~Announced(c)
  BY <1>1, <1>2 DEF Covering, Core, Halted
<1>8. ASSUME y = [x EXCEPT !.stop.pc = pc], NEW e, Covering(x, e, can, sn), ~Live(e), ~Announced(e)
      PROVE  Covering(y, e, can, sn)
  <2>1. Beside(x, y, {"stop"}) /\ y.stop.pc = pc
    BY <1>1, <1>4, <1>8, StoppingIs
  <2>2. Beside(x, y, {"stop", "override"}) /\ y.worker = x.worker /\ y.follow = x.follow
    BY <2>1 DEF Beside, Fields
  <2>3. Halted(y, e, can)
    BY <1>4, <1>7, <1>8, <2>1, <2>2 DEF Halted, OnWay
  <2> QED BY <1>8, <2>2, <2>3, StopCovers
\* The turn is interrupted, be the answer heard or not.
<1>9. ASSUME StateOf(id) = "active", d = m
       PROVE  Covering(x, d, can, sn) /\ ~Live(d) /\ (Announced(d) => Announced(c))
  <2>1. id = n /\ Live(c)
    BY <1>6, <1>9
  <2>2. over \in {"completed", "failed", "interrupted"} /\ (Loses(can) => over = "completed")
    BY <1>4, <1>7
  <2>3. d = Marked(c, Len(c.turns), over)
    BY <1>1, <1>4, <1>9, <2>1
  <2> QED BY <1>1, <2>1, <2>2, <2>3, MarkedCovers
<1>10. Covering(y, d, can, sn)
  <2>1. ASSUME id = 0, y = [x EXCEPT !.stop.pc = pc], d = c
        PROVE  Covering(y, d, can, sn)
    BY <1>1, <1>5, <1>7, <1>8, <2>1
  <2>2. ASSUME StateOf(id) = "active", y = [x EXCEPT !.stop.pc = pc], d = m
        PROVE  Covering(y, d, can, sn)
    <3>1. Covering(x, d, can, sn) /\ ~Live(d) /\ (Announced(d) => Announced(c))
      BY <1>9, <2>2
    <3> QED BY <1>7, <1>8, <2>2, <3>1
  <2>3. ASSUME y = GivenUp(x), d = c
        PROVE  Covering(y, d, can, sn)
    BY <1>1, <2>3, GivenUpCovers
  <2>4. ASSUME StateOf(id) = "active", y = GivenUp(x), d = m
        PROVE  Covering(y, d, can, sn)
    BY <1>1, <1>9, <2>4, GivenUpCovers
  <2> QED BY <1>2, <2>1, <2>2, <2>3, <2>4
<1>11. "loop" \in tn => "loop" \in sn
  BY <1>2, <1>3, SeenLess
<1>12. Covering(y, d, can, tn)
  BY <1>10, <1>11, SeenCovers
<1> QED BY <1>3, <1>12 DEF Covered

\* Of a task without a thread Codex knows nothing.
LEMMA UnknownOver ==
  ASSUME NEW x, NEW c, NEW can, Based(x, c, can), Underway(x, c), ~x.task.thread
  PROVE  Over(c) /\ x.follow.pc = "none"
<1> DEFINE n == Len(c.turns)
<1>1. x.ops = <<>> /\ x.follow.pc = "none"
  BY DEF Based, Threadless
<1>2. n \in Nat /\ DOMAIN c.turns = 1..n /\ c.inbox \in Seq(InboxRec(n)) /\ Len(c.inbox) \in Nat
      /\ DOMAIN c.inbox = 1..Len(c.inbox)
  BY InboxOf DEF Based
<1> HIDE DEF n
<1>3. n = 0
  <2>1. InJournal(x) = {}
    BY <1>1 DEF InJournal
  <2>2. \A i \in DOMAIN c.turns : c.turns[i].prompt \in InJournal(x)
    BY DEF Underway, InTurns, Based, AllOwn
  <2>3. n # 0 => 1 \in 1..n
    BY <1>2
  <2> QED BY <1>2, <2>1, <2>2, <2>3
<1>4. c.inbox = <<>>
  <2>1. Len(c.inbox) # 0 => 1 \in DOMAIN c.inbox
    BY <1>2
  <2>2. 1 \in DOMAIN c.inbox => c.inbox[1] \in InboxRec(n)
    BY <1>2
  <2>3. 1 \in DOMAIN c.inbox => c.inbox[1].turn \in 1..n
    BY <2>2 DEF InboxRec
  <2>4. Len(c.inbox) = 0
    BY <1>2, <1>3, <2>1, <2>3
  <2> QED BY <1>2, <2>4
<1> QED BY <1>1, <1>3, <1>4 DEF Over, Live, n

LEMMA StopCovered ==
  ASSUME Grounds, NEW kind, Stop(kind)
  PROVE  Covered
<1> DEFINE x == s
           y == s'
           d == codex
           can == left.can
           n == Latest
           sn == seen
           tn == seen'
           c == Confirmed(kind)
           m == [s EXCEPT !.task.paused = @ \/ Confirmed(kind)]
           w == IF Confirmed(kind) THEN Finished(m) ELSE m
           b == TRUE
<1>1. /\ Based(x, d, can) /\ Covering(x, d, can, sn) /\ n = Len(d.turns) /\ n \in Nat /\ Typed(x, n)
      /\ Underway(x, d) /\ Shown(d)
  BY Grounded DEF Based, Grounds, IInv, Good
<1>2. ~Loses(can) /\ kind \in {"pause", "cancel", "requeue"}
  BY StopsLess DEF Stop, Grounds
<1>3. c \in BOOLEAN /\ (kind = "pause" => c)
  BY <1>1 DEF Confirmed, Typed, States
<1>4. /\ x.stop.pc = "none" /\ (x.task.thread => d.inbox = <<>>) /\ codex' = d
      /\ \/ y = w
         \/ ~x.starting /\ x.task.thread /\ y = Stopping(w, kind)
         \/ ~x.starting /\ ~x.task.thread /\ y = StoppedBy(w, kind, b)
      /\ "loop" \in tn => "loop" \in sn
  BY DEF Stop, Stopping, CanRead
<1>5. m = PauseMark(x, c) /\ (c => w = Finished(m)) /\ (~c => w = m)
  BY DEF PauseMark
<1>6. b \in BOOLEAN /\ d = codex /\ y = s' /\ can = left.can /\ tn = seen'
  OBVIOUS
<1> HIDE DEF x, y, d, can, n, sn, tn, c, m, w, b
<1>7. Typed(m, n) /\ Beside(x, m, {"task"}) /\ m.task.paused = (x.task.paused \/ c)
      /\ RowBut(x.task, m.task, {"paused"})
  BY <1>1, <1>3, <1>5, PauseMarked, MarkIs DEF Sane
<1>8. /\ Typed(w, n) /\ Beside(m, w, {"queue"})
      /\ w.queue.state # "pending" \/ (~c /\ w.queue = m.queue)
  <2>1. ASSUME c
        PROVE  Typed(w, n) /\ Beside(m, w, {"queue"}) /\ w.queue.state # "pending"
    BY <1>5, <1>7, <2>1, FinishedSane DEF Sane
  <2>2. ASSUME ~c
        PROVE  Typed(w, n) /\ Beside(m, w, {"queue"}) /\ w.queue = m.queue
    BY <1>5, <1>7, <2>2 DEF Beside
  <2> QED BY <1>3, <2>1, <2>2
<1>9. /\ Beside(x, w, {"task", "queue"}) /\ w.task = m.task
      /\ w.queue.state # "pending" \/ (~c /\ w.queue = x.queue)
      /\ w.worker = x.worker /\ w.follow = x.follow /\ w.stop = x.stop /\ w.loop = x.loop
      /\ w.ended = x.ended /\ w.ops = x.ops
  BY <1>7, <1>8 DEF Beside, Fields
<1>10. w.task.conflict = x.task.conflict /\ w.task.thread = x.task.thread
  BY <1>7, <1>9 DEF RowBut, TaskFields
<1>11. Covering(w, d, can, sn)
  <2>1. Waiting(x, can)
    BY <1>1 DEF Covering, Core
  <2>2. w.queue.state = "pending" => ~c /\ w.queue = x.queue /\ ~x.task.paused
    BY <1>9, <2>1 DEF Waiting
  <2>3. w.task.paused => w.queue.state # "pending" /\ ~Loses(can)
    BY <1>2, <1>7, <1>9, <2>2
  <2>4. w.queue.state = "pending" => Busy(x) \/ w.task.conflict
    BY <1>10, <2>1, <2>2 DEF Waiting
  <2>5. Unqueued(x, w)
    BY <2>2 DEF Unqueued
  <2>6. RowBut(x.task, w.task, {"paused", "conflict"})
    BY <1>7, <1>9 DEF RowBut
  <2> QED BY <1>1, <1>9, <1>10, <2>3, <2>4, <2>5, <2>6, QueueCovers
<1>12. ASSUME ~x.starting
       PROVE  ~OnWay(x) /\ x.follow.pc = "none" /\ AllFiled(x)
  BY <1>1, <1>12, Single
<1>13. ASSUME ~x.starting, x.task.thread, y = Stopping(w, kind)
       PROVE  Covering(y, d, can, sn)
  <2>1. DOMAIN w = Fields
    BY <1>9 DEF Beside
  <2>2. Beside(w, y, {"stop", "override"}) /\ y.stop.pc = "ask"
    BY <1>13, <2>1 DEF Stopping, Beside, Fields
  <2>3. y.worker = x.worker /\ y.follow = x.follow
    BY <1>9, <2>2 DEF Beside, Fields
  <2>4. ~Announced(d)
    BY <1>4, <1>13 DEF Announced
  <2>5. Halted(y, d, can)
    BY <1>2, <1>12, <1>13, <2>2, <2>3, <2>4 DEF Halted, OnWay
  <2> QED BY <1>11, <2>2, <2>5, StopCovers
<1>14. ASSUME ~x.starting, ~x.task.thread, y = StoppedBy(w, kind, b)
       PROVE  Covering(y, d, can, sn)
  <2>1. Over(d)
    BY <1>1, <1>14, UnknownOver
  <2>2. kind = "pause" => w.queue.state # "pending"
    BY <1>3, <1>9
  <2>3. y = w \/ Stops(w, y)
    BY <1>1, <1>2, <1>6, <1>8, <1>14, <2>2, StoppedStops
  <2>4. ~OnWay(w) /\ w.follow.pc = "none" /\ AllFiled(w) /\ Typed(w, Len(d.turns))
    BY <1>1, <1>8, <1>9, <1>12, <1>14 DEF OnWay, AllFiled
  <2> QED BY <1>1, <1>2, <1>11, <2>1, <2>3, <2>4, StopsCovers
<1>15. Covering(y, d, can, sn)
  BY <1>4, <1>11, <1>13, <1>14
<1>16. Covering(y, d, can, tn)
  BY <1>4, <1>15, SeenCovers
<1> QED BY <1>4, <1>6, <1>16 DEF Covered

-----------------------------------------------------------------------------
(* Every step.                                                               *)

\* The turns stay, and keep their prompts; the scenario's operations stay.
Grows(c, d) == \A i \in DOMAIN c.turns : i \in DOMAIN d.turns /\ d.turns[i].prompt = c.turns[i].prompt
Kept == CanSame /\ Grows(codex, codex')

LEMMA AskedKept ==
  ASSUME IInv, Ask \/ Unspent \/ Fault, codex'.turns = codex.turns
  PROVE  Kept
<1>1. CanSame
  BY Facts, LeftCan
<1>2. Grows(codex, codex')
  BY DEF Grows
<1> QED BY <1>1, <1>2 DEF Kept

\* The end of a turn writes its state.
LEMMA MarkedKept ==
  ASSUME NEW c, Shown(c), NEW id \in 1..Len(c.turns), NEW state, NEW d, d = Marked(c, id, state)
  PROVE  Grows(c, d)
<1>1. /\ DOMAIN c.turns = 1..Len(c.turns) /\ \A i \in DOMAIN c.turns : c.turns[i] \in TurnRec
      /\ DOMAIN c = {"threads", "trees", "turns", "calls", "late", "inbox"}
  <2> DEFINE q == c.turns
             S == TurnRec
  <2>1. q \in Seq(S) /\ DOMAIN c = {"threads", "trees", "turns", "calls", "late", "inbox"}
    BY DEF Shown, CodexRec
  <2>2. DOMAIN q = 1..Len(q) /\ \A i \in DOMAIN q : q[i] \in S
    <3> HIDE DEF q, S
    <3> QED BY <2>1
  <2> QED BY <2>1, <2>2
<1>2. d.turns = [c.turns EXCEPT ![id].state = state]
  BY <1>1 DEF Marked
<1>3. \A i \in DOMAIN c.turns : i \in DOMAIN d.turns /\ d.turns[i].prompt = c.turns[i].prompt
  BY <1>1, <1>2 DEF TurnRec
<1> QED BY <1>3 DEF Grows

LEMMA UsersKept ==
  ASSUME IInv, Users
  PROVE  Kept
<1>1. ASSUME Run \/ Continue \/ Resume \/ FollowUp \/ AttachThread \/ AttachTree
      PROVE  (Ask \/ Unspent \/ Fault) /\ codex' = codex
  BY <1>1 DEF Run, Continue, Resume, FollowUp, AttachThread, AttachTree
<1>2. ASSUME NEW kind, Stop(kind)
      PROVE  Kept
  <2>1. left.stops > 0 /\ left' = [left EXCEPT !.stops = @ - 1] /\ codex' = codex
    BY <1>2 DEF Stop
  <2>2. CanSame
    BY <2>1, Facts, LeftCan
  <2> QED BY <2>1, <2>2 DEF Kept, Grows
<1> QED BY <1>1, <1>2, AskedKept DEF Users

LEMMA WorkerKept ==
  ASSUME IInv, Worker
  PROVE  Kept
<1>1. DOMAIN codex = {"threads", "trees", "turns", "calls", "late", "inbox"} /\ Shown(codex)
  BY Facts DEF Shown, CodexRec
<1>2. ASSUME Begin \/ Resumed \/ Submit \/ TurnEnded
      PROVE  Unspent /\ codex' = codex
  BY <1>2 DEF Begin, Resumed, Submit, TurnEnded
<1>3. ASSUME QuotaWait \/ FollowUpSubmit \/ StopCheck
      PROVE  Unspent /\ codex' = codex
  BY <1>3 DEF QuotaWait, FollowUpSubmit, StopCheck
<1>4. ASSUME TreeCreated \/ ThreadCreated
      PROVE  Unspent /\ codex'.turns = codex.turns
  BY <1>1, <1>4 DEF TreeCreated, ThreadCreated
<1>5. ASSUME TurnStarted \/ FollowUpStarted \/ StopApply
      PROVE  Unspent /\ codex'.turns = codex.turns
  <2> DEFINE a == Abandoned(codex)
             k == IF s'.worker.pc = "none" THEN 0 ELSE codex.calls.worker
  <2>1. a.turns = codex.turns /\ DOMAIN a = DOMAIN codex /\ a.calls = codex.calls
    BY GoodAbandoned
  <2>2. StopApply => Unspent /\ codex' = [a EXCEPT !.calls.worker = k]
    <3>1. StopApply => Unspent /\ codex' = [Abandoned(codex) EXCEPT !.calls.worker = IF s'.worker.pc = "none" THEN 0 ELSE @]
      BY DEF StopApply
    <3> QED BY <2>1, <3>1
  <2> HIDE DEF a, k
  <2>3. StopApply => Unspent /\ codex'.turns = codex.turns
    BY <1>1, <2>1, <2>2
  <2> QED BY <1>1, <1>5, <2>3 DEF TurnStarted, FollowUpStarted
<1>6. ASSUME StopAsk
      PROVE  Kept
  <2> DEFINE id == IF s.turn # 0 THEN s.turn ELSE IF Active THEN Latest ELSE 0
             over == "interrupted"
  <2>1. Unspent \/ Fault
    BY <1>6 DEF StopAsk, GivesUp
  <2>2. codex' = codex \/ (StateOf(id) = "active" /\ codex' = Marked(codex, id, over))
    BY <1>6 DEF StopAsk, Marked
  <2>3. id \in 0..Latest
    BY Facts DEF States
  <2> HIDE DEF id, over
  <2>4. StateOf(id) = "active" => id \in 1..Len(codex.turns)
    BY <2>3, Facts, ActiveTurn
  <2>5. Grows(codex, codex')
    <3>1. CASE codex' = codex
      BY <3>1 DEF Grows
    <3>2. CASE StateOf(id) = "active" /\ codex' = Marked(codex, id, over)
      BY <1>1, <2>4, <3>2, MarkedKept
    <3> QED BY <2>2, <3>1, <3>2
  <2>6. CanSame
    BY <2>1, Facts, LeftCan
  <2> QED BY <2>5, <2>6 DEF Kept
<1> QED BY <1>2, <1>3, <1>4, <1>5, <1>6, AskedKept DEF Worker

LEMMA LoopKept ==
  ASSUME IInv, Loop
  PROVE  Kept
<1>1. Unspent /\ codex' = codex
  BY DEF Loop, Dispatch, SyncRead, SyncApply, Reconcile, Recover
<1> QED BY <1>1, AskedKept

LEMMA TroubleKept ==
  ASSUME IInv, Trouble
  PROVE  Kept
<1>1. DOMAIN codex = {"threads", "trees", "turns", "calls", "late", "inbox"}
  BY Facts DEF Shown, CodexRec
<1> DEFINE a == Abandoned(codex)
<1>2. a.turns = codex.turns /\ DOMAIN a = DOMAIN codex
  BY GoodAbandoned
<1>3. ASSUME TreeLost \/ ThreadLost \/ Missed
      PROVE  Fault /\ codex'.turns = codex.turns
  BY <1>1, <1>3 DEF TreeLost, ThreadLost, Missed, GivesUp
<1>4. ASSUME NotReadied \/ TurnRefused
      PROVE  (Unspent \/ Fault) /\ codex'.turns = codex.turns
  BY <1>4 DEF NotReadied, TurnRefused, GivesUp
<1>5. ASSUME TurnLost \/ FollowUpNotStarted
      PROVE  (Unspent \/ Fault) /\ codex'.turns = codex.turns
  <2>1. /\ Unspent \/ Fault
        /\ \/ codex' = codex
           \/ codex' = [a EXCEPT !.calls.worker = 0]
           \/ codex' = [a EXCEPT !.calls.follow = 0]
    BY <1>5 DEF TurnLost, FollowUpNotStarted, GivesUp
  <2> HIDE DEF a
  <2> QED BY <1>1, <1>2, <2>1
<1>6. ASSUME Crash
      PROVE  Fault /\ codex'.turns = codex.turns
  <2>1. PICK m \in {0, 1}, k \in {0, 1} :
          codex' = [a EXCEPT !.trees = @ + m, !.threads = @ + k, !.calls = NoCalls, !.inbox = <<>>]
    BY <1>6 DEF Crash
  <2>2. Fault
    BY <1>6 DEF Crash
  <2> HIDE DEF a
  <2> QED BY <1>1, <1>2, <2>1, <2>2
<1> QED BY <1>3, <1>4, <1>5, <1>6, AskedKept DEF Trouble

LEMMA DesktopKept ==
  ASSUME IInv, Desktop
  PROVE  Kept
<1> DEFINE q == codex.turns
           S == TurnRec
<1>1. /\ DOMAIN codex = {"threads", "trees", "turns", "calls", "late", "inbox"} /\ Shown(codex)
      /\ q \in Seq(S)
  BY Facts DEF Shown, CodexRec
<1>2. ASSUME NEW e, NEW r, r = Append(q, e)
      PROVE  \A i \in DOMAIN q : i \in DOMAIN r /\ r[i] = q[i]
  <2> HIDE DEF q, S
  <2> QED BY <1>1, <1>2
<1>3. ASSUME CodexStarts
      PROVE  Kept
  <2>1. PICK h \in {"worker", "follow"} :
          codex' = [codex EXCEPT
            !.turns = Append(@, [prompt |-> s[h].prompt, state |-> "active"]),
            !.calls[h] = Latest + 1,
            !.inbox = Append(@, [turn |-> Latest + 1, what |-> "started"])]
    BY <1>3 DEF CodexStarts
  <2> DEFINE e == [prompt |-> s[h].prompt, state |-> "active"]
  <2>2. codex'.turns = Append(q, e) /\ left' = left
    BY <1>1, <1>3, <2>1 DEF CodexStarts
  <2> HIDE DEF e, q
  <2>3. \A i \in DOMAIN q : i \in DOMAIN codex'.turns /\ codex'.turns[i] = q[i]
    BY <1>2, <2>2
  <2> QED BY <2>2, <2>3 DEF Kept, CanSame, Grows, q
<1>4. ASSUME Native
      PROVE  Kept
  <2> DEFINE e == [prompt |-> 0, state |-> "active"]
  <2>1. codex'.turns = Append(q, e) /\ left.native > 0 /\ left' = [left EXCEPT !.native = @ - 1]
    BY <1>1, <1>4 DEF Native
  <2>2. CanSame
    BY <2>1, Facts, LeftCan
  <2> HIDE DEF e, q
  <2>3. \A i \in DOMAIN q : i \in DOMAIN codex'.turns /\ codex'.turns[i] = q[i]
    BY <1>2, <2>1
  <2> QED BY <2>2, <2>3 DEF Kept, Grows, q
<1>5. ASSUME CodexStartsLate
      PROVE  Kept
  <2>1. PICK prompt \in codex.late :
          codex' = [codex EXCEPT
            !.turns = Append(@, [prompt |-> prompt, state |-> "active"]),
            !.late = @ \ {prompt},
            !.inbox = Append(@, [turn |-> Latest + 1, what |-> "started"])]
    BY <1>5 DEF CodexStartsLate
  <2> DEFINE e == [prompt |-> prompt, state |-> "active"]
  <2>2. codex'.turns = Append(q, e) /\ left' = left
    BY <1>1, <1>5, <2>1 DEF CodexStartsLate
  <2> HIDE DEF e, q
  <2>3. \A i \in DOMAIN q : i \in DOMAIN codex'.turns /\ codex'.turns[i] = q[i]
    BY <1>2, <2>2
  <2> QED BY <2>2, <2>3 DEF Kept, CanSame, Grows, q
<1>6. ASSUME CodexEnds
      PROVE  Kept
  <2>1. PICK state : codex' = Marked(codex, Latest, state)
    BY <1>6 DEF CodexEnds, Marked
  <2>2. Latest \in 1..Len(codex.turns) /\ left' = left
    <3>1. StateOf(Latest) = "active"
      BY <1>6 DEF CodexEnds, Active
    <3>2. Latest \in 0..Latest
      BY Facts
    <3> QED BY <1>6, <3>1, <3>2, Facts, ActiveTurn DEF CodexEnds
  <2> QED BY <1>1, <2>1, <2>2, MarkedKept DEF Kept, CanSame
<1>7. ASSUME Notified
      PROVE  Unspent /\ codex'.turns = codex.turns
  BY <1>1, <1>7 DEF Notified
<1> QED BY <1>3, <1>4, <1>5, <1>6, <1>7, AskedKept DEF Desktop

\* A turn that users started in Codex stays one.
LEMMA OwnStay ==
  ASSUME Grows(codex, codex'), AllOwn(codex')
  PROVE  AllOwn(codex)
BY DEF Grows, AllOwn

\* Steps that Orderly does not admit.
LEMMA NativeNever ==
  ASSUME IInv, Native
  PROVE  ~AllOwn(codex')
<1> DEFINE q == codex.turns
           S == TurnRec
           e == [prompt |-> 0, state |-> "active"]
           r == codex'.turns
<1>1. /\ DOMAIN codex = {"threads", "trees", "turns", "calls", "late", "inbox"} /\ q \in Seq(S)
      /\ e.prompt = 0
  BY Facts DEF Shown, CodexRec
<1>2. r = Append(q, e)
  BY <1>1 DEF Native
<1>3. Len(q) + 1 \in DOMAIN r /\ r[Len(q) + 1] = e
  <2> HIDE DEF q, S, e, r
  <2> QED BY <1>1, <1>2
<1> HIDE DEF e, q
<1> QED BY <1>1, <1>3 DEF AllOwn

LEMMA QuotaNever ==
  ASSUME Grounds, QuotaWait
  PROVE  FALSE
<1>1. Covering(s, codex, left.can, seen)
  BY DEF Grounds
<1>2. Plainly(s, codex, left.can)
  BY <1>1 DEF Covering, Core
<1>3. s.limits = {}
  BY <1>2 DEF Plainly
<1> QED BY <1>3 DEF QuotaWait

LEMMA CrashNever ==
  ASSUME Grounds, Crash
  PROVE  FALSE
<1>1. "crash" \notin left.can
  BY DEF Grounds, Tidy
<1> QED BY <1>1 DEF Crash, May

LEMMA LateNever ==
  ASSUME Grounds, CodexStartsLate
  PROVE  FALSE
<1>1. "late" \notin left.can
  BY DEF Grounds, Tidy
<1> QED BY <1>1 DEF CodexStartsLate, May

LEMMA StutterCovered ==
  ASSUME Grounds, UNCHANGED vars
  PROVE  Covered
<1>1. s' = s /\ codex' = codex /\ seen' = seen
  BY DEF vars
<1> QED BY <1>1 DEF Grounds, Covered

\* One line per action of Next.
LEMMA NextCovered ==
  ASSUME Grounds, [Next]_vars
  PROVE  Covered
<1>1. ASSUME Users
      PROVE  Covered
  BY <1>1, RunCovered, ResumeCovered, FollowUpCovered, AttachCovered, StopCovered DEF Users
<1>2. ASSUME Worker
      PROVE  Covered
  BY <1>2, BeginCovered, TreeCreatedCovered, ThreadCreatedCovered, ResumedCovered, SubmitCovered,
     TurnStartedCovered, TurnEndedCovered, QuotaNever, FollowUpSubmitCovered, FollowUpStartedCovered,
     StopAskCovered, StopCheckCovered, StopApplyCovered DEF Worker
<1>3. ASSUME Loop
      PROVE  Covered
  BY <1>3, DispatchNever, SyncReadCovered, SyncApplyCovered, ReconcileCovered, RecoverCovered DEF Loop
<1>4. ASSUME Trouble
      PROVE  Covered
  BY <1>4, TreeLostCovered, ThreadLostCovered, NotReadiedCovered, TurnRefusedCovered, TurnLostCovered,
     FollowUpNotStartedCovered, MissedCovered, CrashNever DEF Trouble
<1>5. ~Native
  BY NativeNever DEF Grounds
<1>6. ASSUME Desktop
      PROVE  Covered
  BY <1>5, <1>6, CodexStartsCovered, LateNever, CodexEndsCovered, NotifiedCovered DEF Desktop
<1> QED BY <1>1, <1>2, <1>3, <1>4, <1>6, StutterCovered DEF Next

LEMMA NextKept ==
  ASSUME IInv, [Next]_vars
  PROVE  Kept
<1>1. ASSUME UNCHANGED vars
      PROVE  Kept
  BY <1>1 DEF vars, Kept, CanSame, Grows
<1> QED BY <1>1, UsersKept, WorkerKept, LoopKept, TroubleKept, DesktopKept DEF Next

LEMMA CoverStep ==
  ASSUME IInv, GInv, CInv, [Next]_vars
  PROVE  CInv'
<1>1. IInv' /\ Kept
  BY NextStep, NextKept DEF Step
<1>2. ASSUME Tidy(left'.can), AllOwn(codex')
      PROVE  Covering(s', codex', left'.can, seen')
  <2>1. CanSame /\ Tidy(left.can) /\ AllOwn(codex)
    BY <1>1, <1>2, OwnStay DEF Kept, CanSame
  <2>2. Grounds
    BY <1>1, <1>2, <2>1 DEF Grounds, CInv
  <2>3. Covered
    BY <2>2, NextCovered
  <2> QED BY <2>1, <2>3 DEF Covered, CanSame
<1> QED BY <1>2 DEF CInv

LEMMA InitCovered ==
  ASSUME Init
  PROVE  CInv
<1> DEFINE W == NoWorker  F == NoFollow  P == NoStop  L == NoLoop
           K == [status |-> "todo", run |-> "none", paused |-> FALSE,
                 conflict |-> FALSE, observe |-> FALSE, uncertain |-> 0,
                 thread |-> FALSE, tree |-> FALSE]
           Q == [state |-> "none", prompt |-> 0]
           M == left.managed
           N == NoCalls
           x == s
           c == codex
           can == left.can
           sn == seen
<1>1. x = [managed |-> M, task |-> K, queue |-> Q, lease |-> FALSE, ops |-> <<>>,
           threadOp |-> "none", treeOp |-> "none", runs |-> <<>>, turn |-> 0,
           starting |-> FALSE, override |-> FALSE, worker |-> W, follow |-> F, stop |-> P,
           loop |-> L, ended |-> {}, limits |-> {}]
  BY DEF Init
<1>2. /\ W.pc = "none" /\ F.pc = "none" /\ P.pc = "none" /\ L.pc = "idle"
      /\ K.status = "todo" /\ ~K.paused /\ ~K.conflict /\ K.uncertain = 0 /\ K.run = "none"
      /\ Q.state = "none" /\ N.worker = 0 /\ N.follow = 0
  BY DEF NoWorker, NoFollow, NoStop, NoLoop, NoCalls
<1>3. c.turns = <<>> /\ c.inbox = <<>> /\ c.calls = N
  BY DEF Init
<1> HIDE DEF W, F, P, L, K, Q, M, N, x, c, can, sn
<1>4. /\ x.worker = W /\ x.follow = F /\ x.stop = P /\ x.loop = L /\ x.task = K /\ x.queue = Q
      /\ x.ended = {} /\ x.ops = <<>> /\ x.runs = <<>> /\ x.turn = 0 /\ x.limits = {} /\ ~x.override
  BY <1>1
<1>5. /\ Len(c.turns) = 0 /\ DOMAIN c.turns = {} /\ DOMAIN c.inbox = {} /\ Len(x.ops) = 0 /\ DOMAIN x.ops = {}
      /\ DOMAIN x.runs = {}
  BY <1>3, <1>4
<1>6. Over(c) /\ ~Announced(c) /\ ~Live(c)
  BY <1>3, <1>5 DEF Over, Live, Announced
<1>7. \A h \in Callers : x[h].pc = "none" /\ c.calls[h] = 0
  BY <1>2, <1>3, <1>4 DEF Callers
<1>8. Leased(x, c, can) /\ Halted(x, c, can)
  BY <1>2, <1>4, <1>6 DEF Leased, Halted
<1>9. Eager(x, c, can)
  <2>1. x.worker.pc \notin Before
    BY <1>2, <1>4 DEF Before
  <2> QED BY <1>2, <1>4, <1>7, <2>1 DEF Eager, Wants, Callers
<1>10. Watched(x, c) /\ Ordinal(c) /\ Certain(x, can)
  BY <1>2, <1>4, <1>5 DEF Watched, Ordinal, Certain
<1>11. Heard(x, c, can)
  <2>1. Turned(x) = {} /\ LastRun(x).turn = 0
    BY <1>4, <1>5 DEF Turned, LastRun
  <2> QED BY <1>4, <1>5, <2>1 DEF Heard
<1>12. Entered(x, c, can)
  BY <1>5, <1>7 DEF Entered, Asked, Tracked
<1>13. Waiting(x, can)
  BY <1>2, <1>4 DEF Waiting, Asking, OnWay, Before
<1>14. Plainly(x, c, can)
  BY <1>2, <1>4, <1>5 DEF Plainly
<1>15. Reads(x, c, can, sn)
  BY <1>2, <1>4 DEF Reads, Listed, Matching, Finds
<1>16. Covering(x, c, can, sn)
  BY <1>8, <1>9, <1>10, <1>11, <1>12, <1>13, <1>14, <1>15 DEF Covering, Core
<1> QED BY <1>16 DEF CInv, x, c, can, sn

LEMMA CoverAlways == Spec => [](IInv /\ GInv /\ CInv)
<1>1. Init => CInv
  BY InitCovered
<1>2. IInv /\ GInv /\ CInv /\ [Next]_vars => CInv'
  BY CoverStep
<1> QED BY <1>1, <1>2, GuardedAlways, PTL DEF Spec

LEMMA OrderlyIs ==
  ASSUME CInv, Orderly
  PROVE  Covering(s, codex, left.can, seen)
<1>1. Tidy(left.can)
  BY DEF Orderly, Tidy
<1>2. AllOwn(codex)
  BY DEF Orderly, Alone, Own, AllOwn
<1> QED BY <1>1, <1>2 DEF CInv

\* In an orderly scenario a turn that the board started runs under the lease of
\* its task, also while its start is unanswered, lost or being interrupted.
THEOREM LeaseIsCovered == Spec => []LeaseCovers
<1>1. IInv /\ GInv /\ CInv => LeaseCovers
  <2> SUFFICES ASSUME IInv, GInv, CInv, Orderly, NEW i \in Own, StateOf(i) = "active"
               PROVE  s.lease
    BY DEF LeaseCovers
  <2>1. i \in DOMAIN codex.turns /\ DOMAIN codex.turns = 1..Len(codex.turns) /\ Len(codex.turns) \in Nat
    BY Facts, TurnsOf DEF Own
  <2>2. codex.turns[i].state = "active" /\ i # 0
    BY <2>1 DEF StateOf
  <2>3. i = Len(codex.turns)
    BY <2>1, <2>2 DEF GInv, Guarded, LastActive
  <2>4. ~Over(codex)
    BY <2>2, <2>3 DEF Over, Live
  <2>5. Leased(s, codex, left.can)
    BY OrderlyIs DEF Covering, Core
  <2> QED BY <2>4, <2>5 DEF Leased
<1> QED BY <1>1, CoverAlways, PTL

\* In an orderly scenario every entry of the journal that has a turn has the turn
\* which its own prompt started.
THEOREM TurnsAttributed == Spec => []Attributed
<1>1. CInv => Attributed
  <2> SUFFICES ASSUME CInv, Orderly
               PROVE  Matched
    BY DEF Attributed
  <2>1. Tracked(s, codex)
    BY OrderlyIs DEF Covering, Core, Entered
  <2> QED BY <2>1 DEF Tracked, Matched
<1> QED BY <1>1, CoverAlways, PTL
=============================================================================
