------------------------------- MODULE Planning -------------------------------
(***************************************************************************)
(* Plan conversations of one task that has not been started: TaskPlanning.    *)
(* Every request of the user, the worker that starts a conversation and the    *)
(* recovery loop run under one lock; Codex, edits of the task and its dispatch   *)
(* go on while the holder of the lock awaits an answer.                           *)
(***************************************************************************)
EXTENDS Integers, Sequences

CONSTANT
  Room \* bound: how often each optional event happens in a behaviour

VARIABLES
  p,   \* the task, its plan operations, their native turns, and the holder of the lock
  room \* what is left of Room
vars == <<p, room>>

Has(what) == room[what] > 0
Uses(what) == Has(what) /\ room' = [room EXCEPT ![what] = @ - 1]
Free == UNCHANGED room

\* text: the requirements as they are now, and back whether they ever were set back to
\* earlier ones; req: those recorded of an operation. turn, prev: recorded turns, as
\* positions. plan: the turn whose proposal is recorded. asks: the question of a
\* conversation that is pending. owed: the messages that the board has given up and Codex
\* may still get: the turn they steer, 0 to start one, and the requirements they carry.
NewTask == [text |-> 1, back |-> FALSE, hold |-> FALSE, op |-> 0, accepted |-> 0,
            taken |-> FALSE]
NewOp(text) == [state |-> "pending", thread |-> FALSE, turn |-> 0, prev |-> 0, plan |-> 0,
                edited |-> FALSE, req |-> text, asks |-> "none", owed |-> {}]
Unlocked == [pc |-> "idle", why |-> "none", op |-> 0, req |-> 0, fresh |-> TRUE, seen |-> 0]

Init ==
  /\ room \in Room
  /\ p = [task |-> NewTask, ops |-> <<>>, turns |-> <<>>, worker |-> 0, w |-> Unlocked]

Op(i) == p.ops[i]
Put(x, i, state) == [x EXCEPT !.ops[i].state = state]
Unlock(x) == [x EXCEPT !.w = Unlocked, !.worker = IF x.w.why = "start" THEN 0 ELSE @]
\* Every change of the task is noticed by who compares its version later.
Touched(x) == [x EXCEPT !.w.fresh = FALSE]
Last(x, i) == Len(x.turns[i])
Active(x, i) == Last(x, i) > 0 /\ x.turns[i][Last(x, i)].status = "active"
Changed(x, i) == Last(x, i) # x.ops[i].turn \/ Active(x, i)
Locked(pc, why, i) == [Unlocked EXCEPT !.pc = pc, !.why = why, !.op = i]
Idle == p.w.pc = "idle"
At(pc) == p.w.pc = pc
Released(x) == [x EXCEPT !.task.hold = FALSE]
Over == {"confirmed", "canceled"}

\* The worker of a new conversation records what kept it from starting.
Raised(x) ==
  LET i == x.w.op
      blocked == IF x.ops[i].state \in {"uncertain", "blocked"} THEN x ELSE Put(x, i, "blocked")
  IN IF x.w.why = "start" THEN Unlock(blocked) ELSE Unlock(x)
-----------------------------------------------------------------------------
(* action and start.                                                       *)

Start ==
  /\ Uses("start") /\ Idle
  /\ ~p.task.taken /\ ~p.task.hold
  /\ LET i == Len(p.ops) + 1 IN
     p' = [p EXCEPT !.ops = Append(@, NewOp(p.task.text)), !.turns = Append(@, <<>>),
                    !.task.hold = TRUE, !.task.op = i, !.worker = i]

StartBegins ==
  /\ Idle /\ p.worker # 0
  /\ p' = [Put(p, p.worker, "starting") EXCEPT
             !.w = [Locked("thread", "start", p.worker) EXCEPT !.req = p.task.text]]
  /\ Free

ThreadMade ==
  /\ At("thread")
  /\ p' = [Put(p, p.w.op, "conversation") EXCEPT !.ops[p.w.op].thread = TRUE, !.w.pc = "send"]
  /\ Free

\* What a conversation has been told when it gets a message with requirements req, or
\* with none (0), and whether it was told late, by a message that had been given up.
NotTold == [req |-> 0, late |-> FALSE]
Told(x, i, req) == IF req # 0 THEN [req |-> req, late |-> FALSE]
                   ELSE IF Last(x, i) = 0 THEN NotTold ELSE x.turns[i][Last(x, i)].told
NewTurn(by, told) == [status |-> "active", plan |-> FALSE, by |-> by, told |-> told]
Owing(x, i) ==
  [x EXCEPT !.ops[i].owed = @ \cup {[turn |-> IF x.w.pc = "steer" THEN Last(x, i) ELSE 0,
                                     req |-> x.w.req]}]
Begun(x, i) == [x EXCEPT !.turns[i] = Append(@, NewTurn("board", Told(x, i, x.w.req)))]
Steering(x, i) == [x EXCEPT !.turns[i][Last(x, i)].told = Told(x, i, x.w.req),
                            !.turns[i][Last(x, i)].by = "board"]
Ended(x, i, status) ==
  [x EXCEPT !.turns[i][Last(x, i)].status = status,
            !.ops[i].asks = IF @ = "question" THEN "none" ELSE @]

\* Codex carries out the request that nobody hears the answer of, or does not, or not yet.
Unanswered ==
  LET i == p.w.op IN
  CASE At("turn") -> {Owing(p, i)} \cup (IF Active(p, i) THEN {} ELSE {Begun(p, i)})
    [] At("steer") -> {Owing(p, i)} \cup (IF Active(p, i) THEN {Steering(p, i)} ELSE {})
    [] At("stopped") /\ Active(p, i) -> {p, Ended(p, i, "interrupted")}
    [] OTHER -> {p}

\* Any request of the section is not answered, or refused.
Failed ==
  /\ Uses("lost")
  /\ p.w.pc \in {"thread", "send", "steer", "save", "accept", "cancel", "stopped"}
  /\ \E x \in Unanswered : p' = Raised(x)

\* The message repeats the requirements if they are not those recorded.
Continue ==
  LET i == p.task.op
      req == IF Op(i).req = p.task.text THEN 0 ELSE p.task.text
  IN
  /\ Uses("continue") /\ Idle
  /\ p.task.hold /\ Op(i).thread /\ Op(i).state \notin {"pending", "starting", "uncertain"}
  /\ p' = [p EXCEPT !.w = [Locked("send", "continue", i) EXCEPT !.req = req]]

\* An answer to an asynchronous question is a message of its own.
Answer ==
  LET i == p.task.op IN
  /\ Uses("answer") /\ Idle
  /\ i # 0 /\ Op(i).asks = "async"
  /\ Op(i).state \notin Over \cup {"uncertain", "starting", "pending"}
  /\ p' = [p EXCEPT !.w = Locked("send", "answer", i)]

Sent(x, i) == IF x.w.why = "continue" /\ x.w.req # 0 THEN [x EXCEPT !.ops[i].req = x.w.req]
              ELSE IF x.w.why = "answer" THEN [x EXCEPT !.ops[i].asks = "none"] ELSE x

Send ==
  LET i == p.w.op IN
  /\ At("send")
  /\ p' = IF Active(p, i) THEN [p EXCEPT !.w.pc = "steer"]
          ELSE IF Op(i).asks = "question" THEN Raised(p)
          ELSE [Put(p, i, "uncertain") EXCEPT !.ops[i].prev = Last(p, i), !.w.pc = "turn"]
  /\ Free

Steered ==
  LET i == p.w.op IN
  /\ At("steer")
  /\ p' = IF Active(p, i) THEN Unlock(Sent(Steering(p, i), i)) ELSE Raised(p)
  /\ Free

TurnStarted ==
  LET i == p.w.op
      x == [Put(Begun(p, i), i, "agent_running") EXCEPT
              !.ops[i].turn = Last(p, i) + 1, !.ops[i].plan = 0, !.ops[i].edited = FALSE]
  IN
  /\ At("turn") /\ ~Active(p, i)
  /\ p' = Unlock(Sent(x, i))
  /\ Free

\* Codex refuses the turn or does not answer in time, which look the same to the board, or
\* the connection breaks.
TurnNotStarted ==
  /\ Uses("lost") /\ At("turn")
  /\ \E x \in Unanswered, state \in {"blocked", "uncertain"} : p' = Raised(Put(x, p.w.op, state))

Saveable == IF p.task.hold THEN p.task.op ELSE p.task.accepted
Save ==
  /\ Uses("save") /\ Idle
  /\ Saveable # 0 /\ ~p.task.taken /\ Op(Saveable).state \in {"ready", "confirmed"}
  /\ p' = [p EXCEPT !.w = Locked("save", "user", Saveable)]

SaveApply ==
  LET i == p.w.op IN
  /\ At("save")
  /\ p' = IF Changed(p, i) \/ Op(i).asks # "none" \/ ~p.w.fresh THEN Unlock(p)
          ELSE Unlock([p EXCEPT !.ops[i].edited = TRUE])
  /\ Free

Accepts(x, i) == Released([Put(x, i, "confirmed") EXCEPT !.task.accepted = i])

Accept ==
  /\ Uses("accept") /\ Idle
  /\ p.task.hold /\ Op(p.task.op).thread
  /\ p' = [p EXCEPT !.w = Locked("accept", "user", p.task.op)]

AcceptApply ==
  LET i == p.w.op IN
  /\ At("accept")
  /\ p' = IF \/ Changed(p, i) \/ Op(i).state # "ready" \/ Op(i).plan = 0
             \/ Op(i).req # p.task.text \/ Op(i).asks # "none" \/ ~p.w.fresh
          THEN Unlock(p) ELSE Unlock(Accepts(p, i))
  /\ Free

Canceled(x, i) == Released([Put(x, i, "canceled") EXCEPT !.ops[i].asks = "none"])

\* Mutant: a conversation that is being started is canceled too.
CancelableAtOnce == Idle /\ p.task.hold
Cancelable == Idle /\ p.task.hold /\ Op(p.task.op).state \notin {"pending", "starting"}

Cancel ==
  LET i == p.task.op IN
  /\ Uses("cancel") /\ Cancelable
  /\ p' = IF Op(i).thread THEN [p EXCEPT !.w = Locked("cancel", "user", i)]
          ELSE Unlock(Canceled(p, i))

\* An active turn is interrupted, and seen to have stopped or not.
CancelApply ==
  LET i == p.w.op IN
  /\ At("cancel")
  /\ p' = IF Active(p, i) THEN [p EXCEPT !.w.pc = "stopped"] ELSE Unlock(Canceled(p, i))
  /\ Free

CancelStopped ==
  LET i == p.w.op IN
  /\ At("stopped")
  /\ p' = IF Active(p, i) THEN Unlock(p) ELSE Unlock(Canceled(p, i))
  /\ Free
-----------------------------------------------------------------------------
(* _recover and observe.                                                    *)

\* Mutant: a conversation whose turn is known to run is not read again.
UnfinishedUnknown == {i \in 1..Len(p.ops) : Op(i).state \notin Over \cup {"agent_running"}}
Unfinished == {i \in 1..Len(p.ops) : Op(i).state \notin Over}

Recover(i) ==
  /\ Idle /\ i \in Unfinished /\ i # p.worker
  /\ IF Op(i).thread THEN p' = [p EXCEPT !.w = Locked("observe", "loop", i)]
     ELSE Op(i).state \in {"pending", "starting"} /\ p' = Put(p, i, "blocked")
  /\ Free

\* Mutant: a completed proposal is accepted whatever the task says by now.
CurrentAlways(x, i) == x.ops[i].asks = "none"
Current(x, i) == x.ops[i].asks = "none" /\ x.ops[i].req = x.task.text

\* What the last turn of the conversation means for its operation.
Observed(x, i) ==
  LET turn == x.turns[i][Last(x, i)]
      y == IF Last(x, i) = x.ops[i].turn THEN x
           ELSE [x EXCEPT !.ops[i].turn = Last(x, i), !.ops[i].plan = 0, !.ops[i].edited = FALSE]
      planned == [y EXCEPT !.ops[i].plan = Last(x, i)]
  IN CASE turn.status = "active" -> Put(y, i, "agent_running")
       [] turn.status \in {"failed", "interrupted"} -> Put(y, i, "blocked")
       [] turn.status = "completed" /\ ~turn.plan -> Put(y, i, "conversation")
       [] OTHER -> IF x.ops[i].asks # "none" THEN Put(planned, i, "ready")
                   ELSE IF Current(x, i) THEN Accepts(planned, i) ELSE Put(planned, i, "blocked")

Observe ==
  LET i == p.w.op IN
  /\ At("observe")
  /\ p' = IF Last(p, i) = 0 \/ (Op(i).state = "uncertain" /\ Last(p, i) = Op(i).prev)
            THEN Unlock(p)
          ELSE Unlock(Observed(p, i))
  /\ Free

ObserveLost ==
  /\ Uses("lost") /\ At("observe")
  /\ \/ p' = Unlock(p)
     \/ p' = Unlock(Put(p, p.w.op, "blocked"))
-----------------------------------------------------------------------------
(* Everything else.                                                        *)

TurnEnds ==
  \E i \in 1..Len(p.ops) :
    /\ Active(p, i)
    /\ \/ \E plan \in BOOLEAN :
            p' = Ended([p EXCEPT !.turns[i][Last(p, i)].plan = plan], i, "completed")
       \/ Has("fail") /\ p' = Ended(p, i, "failed")
       \/ At("stopped") /\ p.w.op = i /\ p' = Ended(p, i, "interrupted")
    /\ Free

Asks ==
  \E i \in 1..Len(p.ops), kind \in {"question", "async"} :
    /\ Uses("ask")
    /\ Active(p, i) /\ Op(i).asks = "none" /\ p' = [p EXCEPT !.ops[i].asks = kind]

\* The user writes in the conversation in Codex.
Native ==
  \E i \in 1..Len(p.ops) :
    /\ Uses("native")
    /\ Op(i).thread /\ ~Active(p, i)
    /\ p' = [p EXCEPT !.turns[i] = Append(@, NewTurn("native", Told(p, i, 0)))]

\* Codex gets a message that the board has given up; the turn that it starts is astray if
\* the conversation is over by then.
Belated ==
  \E i \in 1..Len(p.ops) : \E e \in Op(i).owed :
    LET told == [Told(p, i, e.req) EXCEPT !.late = @ \/ e.req # 0]
        by == IF Op(i).state \in Over THEN "astray" ELSE "board"
        x == [p EXCEPT !.ops[i].owed = @ \ {e}]
    IN
    /\ Uses("late") /\ Op(i).thread
    /\ \/ /\ e.turn = 0 /\ ~Active(p, i)
          /\ p' = [x EXCEPT !.turns[i] = Append(@, NewTurn(by, told))]
       \/ /\ e.turn = Last(p, i) /\ Active(p, i)
          /\ p' = [x EXCEPT !.turns[i][e.turn].told = told]

Edit ==
  /\ Uses("edit")
  /\ p' = Touched([p EXCEPT !.task.text = @ + 1])

\* Title and description are compared by what they say, and may say again what they said.
SetBack ==
  /\ Uses("revert")
  /\ \E text \in 1..(p.task.text - 1) :
       p' = Touched([p EXCEPT !.task.text = text, !.task.back = TRUE])

\* The scheduler, or the user, takes the task for execution.
Take ==
  /\ Uses("take")
  /\ ~p.task.hold /\ ~p.task.taken
  /\ p' = Touched([p EXCEPT !.task.taken = TRUE])

Crash ==
  /\ Uses("crash")
  /\ \E x \in Unanswered : p' = Unlock([x EXCEPT !.worker = 0])

Holder == StartBegins \/ ThreadMade \/ Send \/ Steered \/ TurnStarted \/ SaveApply
          \/ AcceptApply \/ CancelApply \/ CancelStopped \/ Observe
Users == Start \/ Continue \/ Answer \/ Save \/ Accept \/ Cancel \/ Edit \/ SetBack \/ Take
Next == Holder \/ Users \/ Failed \/ TurnNotStarted \/ ObserveLost \/ TurnEnds \/ Asks
        \/ Native \/ Belated \/ Crash \/ \E i \in 1..Len(p.ops) : Recover(i)

Spec == Init /\ [][Next]_vars

\* Requests are answered or time out, turns end, and the loop comes round to every
\* conversation.
Fairness ==
  /\ WF_vars(Holder) /\ WF_vars(TurnEnds)
  /\ \A i \in 1..2 : SF_vars(i <= Len(p.ops) /\ Recover(i))
FairSpec == Spec /\ Fairness
-----------------------------------------------------------------------------
TypeOK ==
  /\ p.task.accepted \in 0..Len(p.ops) /\ p.task.op \in 0..Len(p.ops)
  /\ \A i \in 1..Len(p.ops) :
       /\ Op(i).state \in Over \cup {"pending", "starting", "conversation", "uncertain",
                                     "agent_running", "blocked", "ready"}
       /\ Op(i).turn \in 0..Last(p, i) /\ Op(i).plan \in {0, Op(i).turn}
  /\ p.task.hold => p.task.op # 0

\* A plan is accepted only as the proposal of the last, completed turn of its
\* conversation, with no question open, and for the requirements the task has then, if the
\* conversation has been told any; unless it was told them by a message given up before, or
\* the requirements have been set back, which the comparison of their text does not notice.
AcceptedForText ==
  [][\A i \in 1..Len(p.ops) : p'.ops[i].state = "confirmed" /\ Op(i).state # "confirmed" =>
       LET turn == p.turns[i][Last(p, i)] IN
       /\ turn.status = "completed" /\ turn.plan
       /\ turn.told.late \/ p.task.back \/ turn.told.req \in {0, p.task.text}
       /\ p'.ops[i].plan = Last(p, i) /\ Op(i).asks = "none"]_vars

\* A turn of the board runs only in the conversation that holds the task back: what was
\* canceled or accepted has stopped, so that nothing of it goes on when the task is taken,
\* but for a start that the board gave up and Codex carries out after that (by "late"): send
\* does not withdraw it, and plan_cancel finds no turn to stop.
OnlyHeldRuns ==
  \A i \in 1..Len(p.ops) :
    Active(p, i) /\ p.turns[i][Last(p, i)].by = "board" => p.task.hold /\ p.task.op = i

\* While a conversation holds the task back, it is noticed when its turn is over.
Unnoticed(i) == i # 0 /\ Op(i).state = "agent_running" /\ ~Active(p, i)
Noticed == Unnoticed(p.task.op) ~> ~Unnoticed(p.task.op)
=============================================================================
