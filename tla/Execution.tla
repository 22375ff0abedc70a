------------------------------ MODULE Execution ------------------------------
(***************************************************************************)
(* One task over the desktop connection, at the grain of single awaits:     *)
(* creating its worktree and thread, starting turns, observing their ends,  *)
(* following up, stopping, and reconciling with Codex after lost answers,   *)
(* lost notifications and restarts of the board's process.                  *)
(*                                                                         *)
(* s holds the task's rows (kept by a restart) and the process's memory     *)
(* (not kept); codex is the desktop, which outlives the process.  The board   *)
(* gives a request up when the connection breaks, when the renderer's timer  *)
(* runs out, and when it restarts; Codex may have carried the request out,    *)
(* may still do so ("late"), or never does.  Codex runs one turn of a thread  *)
(* at a time.                                                               *)
(***************************************************************************)
EXTENDS Integers, Sequences, FiniteSets, SequencesExt

CONSTANT Scenario \* bound: what users, Codex and the network do in a behaviour

Operation == {"follow_up", "pause", "cancel", "requeue", "resume", "attach",
              "refused", "quota", "attention", "lost", "timeout", "late", "missed",
              "crash", "impatient"}

\* managed: whether the task is; can: the optional operations; prompts: how many
\* turns users ask the board for; stops: how often they stop one; native: how many they make in Codex itself;
\* faults: requests given up, lost notifications and restarts together.
ASSUME ExecutionAssumption ==
  Scenario \subseteq [managed : BOOLEAN, can : SUBSET Operation,
                     prompts : Nat, stops : Nat, native : Nat, faults : Nat]

VARIABLES
  s,     \* the rows about the task, and the memory of the process
  codex, \* threads, worktrees, turns and the answers under way
  seen,  \* the handlers that have read the task's current version
  left   \* what is left of the scenario
vars == <<s, codex, seen, left>>

May(op) == op \in left.can

NoWorker == [pc |-> "none", prompt |-> 0, op |-> 0, turn |-> 0]
NoFollow == [pc |-> "none", prompt |-> 0, op |-> 0, row |-> <<>>]
NoStop == [pc |-> "none", kind |-> "none"]
NoLoop == [pc |-> "idle", latest |-> 0, state |-> "none", op |-> 0]
NoCalls == [worker |-> 0, follow |-> 0]

\* What a new process remembers.
Forgotten(x) ==
  [x EXCEPT !.turn = 0, !.starting = FALSE, !.override = FALSE,
            !.worker = NoWorker, !.follow = NoFollow, !.stop = NoStop,
            !.loop = NoLoop, !.ended = {}, !.limits = {}]

Init ==
  /\ left \in Scenario
  /\ s = [managed |-> left.managed,
          task |-> [status |-> "todo", run |-> "none", paused |-> FALSE,
                    conflict |-> FALSE, observe |-> FALSE, uncertain |-> 0,
                    thread |-> FALSE, tree |-> FALSE],
          queue |-> [state |-> "none", prompt |-> 0], lease |-> FALSE,
          ops |-> <<>>, threadOp |-> "none", treeOp |-> "none", runs |-> <<>>,
          turn |-> 0, starting |-> FALSE, override |-> FALSE,
          worker |-> NoWorker, follow |-> NoFollow, stop |-> NoStop,
          loop |-> NoLoop, ended |-> {}, limits |-> {}]
  /\ codex = [threads |-> 0, trees |-> 0, turns |-> <<>>, calls |-> NoCalls, late |-> {}, inbox |-> <<>>]
  /\ seen = {}

\* A write of the task's row bumps its version.
Unseen == seen' = IF s'.task = s.task THEN seen ELSE {}
Unspent == UNCHANGED left
Fault == left.faults > 0 /\ left' = [left EXCEPT !.faults = @ - 1]

\* A request is given up: the connection breaks, or the renderer's 30 s timer
\* answers with an error like those Codex refuses a request with.
GivesUp(broken) == Fault /\ May(IF broken THEN "lost" ELSE "timeout")
-----------------------------------------------------------------------------
(* What Codex shows.                                                       *)

Latest == Len(codex.turns)

\* Codex may still carry out a start that the board stops waiting for.
Abandoned(c) ==
  LET open == {h \in {"worker", "follow"} :
                 s[h].pc = "turn" /\ c.calls[h] = 0 /\ s'[h].pc # "turn"}
  IN  [c EXCEPT !.late = @ \cup IF May("late") THEN {s[h].prompt : h \in open} ELSE {}]
StateOf(i) == IF i = 0 THEN "none" ELSE codex.turns[i].state
Active == StateOf(Latest) = "active"

\* What a thread/read returns: answers do not overtake notifications.
CanRead == codex.inbox = <<>>
-----------------------------------------------------------------------------
(* The rows.                                                               *)

Finished(x) == [x EXCEPT !.queue.state = IF @ = "none" THEN @ ELSE "done"]
GiveBack(x) == Finished([x EXCEPT !.lease = FALSE])

\* update_task with a status.
Moved(x, status, run) ==
  LET set == [x EXCEPT !.task.status = status, !.task.run = run]
  IN  IF status = "in_progress" THEN set ELSE GiveBack(set)

EnqueueOK(x) == x.queue.state \notin {"pending", "claimed"}
Enqueued(x, prompt) ==
  [x EXCEPT !.queue = [state |-> "pending", prompt |-> prompt], !.task.paused = FALSE]

Claimable(x) ==
  /\ ~x.task.paused /\ ~x.task.conflict
  /\ ~(x.lease /\ x.task.run \in {"starting", "running"})

Claimed(x) ==
  [x EXCEPT !.lease = TRUE, !.queue.state = "claimed",
            !.task.status = "in_progress", !.task.run = "starting"]

LastRun(x) == IF x.runs = <<>> THEN [turn |-> 0, state |-> "none"] ELSE Last(x.runs)

\* update_latest_run; and, for a failure, create_run where there is none.
Updated(x, state) ==
  [x EXCEPT !.runs = IF @ = <<>> THEN @ ELSE Front(@) \o <<[Last(@) EXCEPT !.state = state]>>]
Concluded(x, state) ==
  IF x.runs = <<>> THEN [x EXCEPT !.runs = <<[turn |-> x.turn, state |-> state]>>]
                   ELSE Updated(x, state)

Uncertain(x) == {i \in DOMAIN x.ops : x.ops[i].state = "uncertain"}
FirstUncertain(x) ==
  IF Uncertain(x) = {} THEN 0 ELSE CHOOSE i \in Uncertain(x) : \A j \in Uncertain(x) : i <= j
SetOp(x, i, state, turn) ==
  [x EXCEPT !.ops[i].state = state, !.ops[i].turn = turn]
-----------------------------------------------------------------------------
(* Results and failures.                                                   *)

\* Mutant: a turn of unknown state gives its lease back.
FailedReleasing(x, uncertain) ==
  IF x.override \/ x.task.status # "in_progress" THEN x
  ELSE Finished(Concluded([x EXCEPT !.task.run = "failed", !.lease = FALSE], "failed"))

\* _fail_task.
Failed(x, uncertain) ==
  IF x.override \/ x.task.status # "in_progress" THEN x
  ELSE Finished(Concluded(
         [x EXCEPT !.task.run = "failed", !.task.conflict = @ \/ uncertain,
                   !.task.observe = @ \/ uncertain, !.lease = @ /\ uncertain],
         "failed"))

\* A worker's exception: a registered turn may still be running.
FailedWith(x, lost) == Failed(x, lost \/ x.turn # 0)

\* _settle_completed on a board with human review; a managed result that
\* fails its Git checks needs attention.
Settled(x, accepted) ==
  IF x.managed /\ ~accepted THEN Failed(GiveBack(x), FALSE)
  ELSE Updated(Moved(x, "in_review", "none"), "completed")

\* The end of a turn is recorded on its operation.
Recorded(x, id) ==
  [x EXCEPT !.ops = [i \in DOMAIN @ |->
     IF @[i].turn = id THEN [@[i] EXCEPT !.state = "completed"] ELSE @[i]]]

ObservedFlags(x) ==
  IF x.task.conflict \/ x.task.uncertain # 0
    THEN [x EXCEPT !.task.conflict = FALSE, !.task.uncertain = 0, !.task.observe = FALSE]
    ELSE x

Forget(x, id) == [x EXCEPT !.turn = IF @ = id THEN 0 ELSE @]

Ignores(x, id) ==
  \/ x.override \/ x.task.paused \/ x.task.status # "in_progress"
  \/ x.turn # 0 /\ x.turn # id
  \/ x.turn = 0 /\ LastRun(x).turn = id /\ LastRun(x).state # "running"

AskLimits(x, by, id) == [x EXCEPT !.limits = @ \cup {[by |-> by, turn |-> id]}]

\* _handle_turn_result, called by `by`; a usage limit is first looked up.
Result(x, id, state, accepted, by) ==
  IF Ignores(x, id) THEN x
  ELSE LET r == Recorded(ObservedFlags(x), id) IN
    CASE state = "quota" -> AskLimits(r, by, id)
      [] state = "completed" -> Forget(Settled(r, accepted), id)
      [] OTHER -> Forget(Failed(r, FALSE), id)

\* _quota_wait after the rate limits have been read.
Exhausted(x) == Finished(Concluded([x EXCEPT !.lease = FALSE, !.task.run = "waiting_quota"],
                                   "waiting_quota"))
-----------------------------------------------------------------------------
(* Observing turns.                                                        *)

\* _spawn_execution and _spawn_existing_watch: one coroutine of the task.
Spawn(x, prompt) ==
  IF x.worker.pc # "none" THEN x
  ELSE [x EXCEPT !.worker = [NoWorker EXCEPT !.pc = "begin", !.prompt = prompt],
                 !.starting = TRUE]
Watch(x, id) ==
  IF x.worker.pc # "none" THEN x
  ELSE [x EXCEPT !.worker = [NoWorker EXCEPT !.pc = "wait", !.turn = id]]

\* The coroutine ends: _execute_task, which keeps its operation while it waits,
\* takes the task off the starting ones; _watch_turn leaves them alone.
Executing(x) == /\ x.worker.pc # "none"
                /\ x.worker.pc \in {"wait", "limits"} => x.worker.op # 0
Ended(x) == [x EXCEPT !.worker = NoWorker, !.starting = @ /\ ~Executing(x)]

\* _cancel_execution.
Canceled(x) == [Ended(x) EXCEPT !.turn = 0, !.limits = {l \in @ : l.by # "worker"}]

\* _adopt_turn.
Adopted(x, id, active) ==
  IF x.override \/ id = 0 \/ x.turn = id \/ \E i \in DOMAIN x.runs : x.runs[i].turn = id
    THEN x
    ELSE [x EXCEPT
            !.lease = @ \/ active,
            !.task.conflict = @ \/ (active /\ ~x.lease /\ x.task.paused),
            !.task.status = "in_progress", !.task.run = "running",
            !.turn = id,
            !.runs = Append(@, [turn |-> id, state |-> "running"])]

TryClaim(x, prompt) == IF Claimable(x) THEN Spawn(Claimed(x), prompt) ELSE x

\* ParallelRuntime.queue.
ReadsThread(x) == x.task.run \in {"failed", "waiting_quota"} /\ x.task.thread
CanQueue(x) == IF ReadsThread(x) THEN CanRead /\ (Active \/ EnqueueOK(x)) ELSE EnqueueOK(x)
Queued(x, prompt) ==
  IF ReadsThread(x) /\ Active
    THEN LET a1 == Adopted(x, Latest, TRUE) IN
         Watch([a1 EXCEPT !.task.status = "in_progress", !.task.run = "running"], Latest)
    ELSE TryClaim(Enqueued(x, prompt), prompt)
-----------------------------------------------------------------------------
(* Requests of users.                                                      *)

\* Requests are numbered downwards.
NextPrompt == left.prompts
\* bound: but for the impatient, users ask again only when they have been
\* answered, and not within one question of recover to Codex.
Patient == s.stop.pc = "none" /\ s.follow.pc = "none" /\ s.loop.pc # "recover"
Ask ==
  /\ left.prompts > 0 /\ left' = [left EXCEPT !.prompts = @ - 1]
  /\ May("impatient") \/ Patient

Run ==
  /\ Ask
  /\ s.task.status = "todo" /\ CanQueue(s)
  /\ s' = Queued(s, NextPrompt)
  /\ Unseen /\ UNCHANGED codex

\* retry, review feedback, and the resumption after a usage limit.
Continue ==
  /\ Ask
  /\ CanQueue(s)
  /\ \/ s.task.status = "in_review" /\ s.task.thread
     \/ /\ s.task.status = "in_progress" /\ s.task.run \in {"failed", "waiting_quota"}
        /\ s.task.thread \/ s.managed
  /\ s' = Queued(s, NextPrompt)
  /\ Unseen /\ UNCHANGED codex

Resume ==
  LET r == [s EXCEPT !.task.paused = FALSE, !.task.conflict = FALSE] IN
  /\ May("resume") /\ Ask
  /\ s.task.paused
  /\ ReadsThread(s) => CanRead
  /\ s' = IF CanQueue(r) THEN Queued(r, NextPrompt) ELSE r
  /\ Unseen /\ UNCHANGED codex

\* The dispatch loop takes a queued continuation.
Dispatch ==
  /\ s.loop.pc = "idle"
  /\ s.queue.state = "pending" /\ Claimable(s)
  /\ s' = Spawn(Claimed(s), s.queue.prompt)
  /\ Unseen /\ Unspent /\ UNCHANGED codex

\* attach_thread, attach_worktree: the user names what Codex has created.
AttachThread ==
  /\ May("attach")
  /\ s.threadOp = "flagged"
  /\ ~s.task.thread /\ codex.threads > 0
  /\ s' = [s EXCEPT !.threadOp = "ready", !.task.thread = TRUE]
  /\ Unseen /\ Unspent /\ UNCHANGED codex

AttachTree ==
  /\ May("attach")
  /\ s.treeOp = "flagged" /\ codex.trees > 0
  /\ s' = [s EXCEPT !.treeOp = "ready"]
  /\ Unseen /\ Unspent /\ UNCHANGED codex
-----------------------------------------------------------------------------
(* The worker: _execute_task and, from "wait" on, _watch_turn.             *)

At(pc) == s.worker.pc = pc
Go(x, pc) == [x EXCEPT !.worker.pc = pc]

\* On the way to the thread: a managed thread is journalled before it is asked
\* for ("asked"); if it was asked for and is not "ready", the user is shown
\* that its creation is uncertain ("flagged"), and it is not asked for again.
TowardsThread(x) ==
  IF x.task.paused THEN Ended(x)
  ELSE IF x.task.thread THEN Go(x, "resume")
  ELSE IF ~x.managed THEN Go(x, "thread")
  ELSE IF x.threadOp = "none" THEN Go([x EXCEPT !.threadOp = "asked"], "thread")
  ELSE Ended(FailedWith([x EXCEPT !.threadOp = "flagged"], FALSE))

\* Mutant: a worktree whose creation is uncertain is asked for again.
BeginCreating ==
  /\ At("begin")
  /\ s' = IF s.task.status # "in_progress" THEN Ended(s)
          ELSE IF s.task.tree THEN TowardsThread(s)
          ELSE Go([s EXCEPT !.treeOp = IF s.managed THEN "asked" ELSE @], "tree")
  /\ Unseen /\ Unspent /\ UNCHANGED codex

\* prepare_task and managed_worktree.
Begin ==
  LET made == [s EXCEPT !.task.tree = TRUE] IN
  /\ At("begin")
  /\ s' = IF s.task.status # "in_progress" THEN Ended(s)
          ELSE IF s.task.tree THEN TowardsThread(s)
          ELSE IF ~s.managed THEN Go(s, "tree")
          ELSE CASE s.treeOp = "ready" -> TowardsThread(made)
                 [] s.treeOp = "none" -> Go([s EXCEPT !.treeOp = "asked"], "tree")
                 [] OTHER -> Ended(FailedWith([s EXCEPT !.treeOp = "flagged"], FALSE))
  /\ Unseen /\ Unspent /\ UNCHANGED codex

TreeCreated ==
  /\ At("tree")
  /\ codex' = [codex EXCEPT !.trees = @ + 1]
  /\ s' = TowardsThread([s EXCEPT !.task.tree = TRUE,
                                  !.treeOp = IF s.managed THEN "ready" ELSE @])
  /\ Unseen /\ Unspent

\* The request is given up after the worktree was created, or it never is.
TreeLost ==
  \E broken \in BOOLEAN :
    /\ GivesUp(broken)
    /\ At("tree")
    /\ \E made \in {0, 1} : codex' = [codex EXCEPT !.trees = @ + made]
    /\ s' = Ended(FailedWith([s EXCEPT !.treeOp = IF s.managed THEN "flagged" ELSE @], broken))
    /\ Unseen

\* With a thread the task runs, unless it was stopped meanwhile.
Readied(x) ==
  IF x.task.status # "in_progress" THEN Ended(x)
  ELSE Go([x EXCEPT !.task.run = "running"], "options")

ThreadCreated ==
  /\ At("thread")
  /\ codex' = [codex EXCEPT !.threads = @ + 1]
  /\ s' = Readied([s EXCEPT !.task.thread = TRUE,
                            !.threadOp = IF s.managed THEN "ready" ELSE @])
  /\ Unseen /\ Unspent

ThreadLost ==
  \E broken \in BOOLEAN :
    /\ GivesUp(broken)
    /\ At("thread")
    /\ \E made \in {0, 1} : codex' = [codex EXCEPT !.threads = @ + made]
    /\ s' = Ended(FailedWith([s EXCEPT !.threadOp = IF s.managed THEN "flagged" ELSE @], broken))
    /\ Unseen

Resumed ==
  /\ At("resume")
  /\ s' = Readied(s)
  /\ Unseen /\ Unspent /\ UNCHANGED codex

\* A request that starts nothing is refused or given up.
NotReadied ==
  /\ s.worker.pc \in {"resume", "options"}
  /\ \/ May("refused") /\ Unspent /\ s' = Ended(FailedWith(s, FALSE))
     \/ \E broken \in BOOLEAN : GivesUp(broken) /\ s' = Ended(FailedWith(s, broken))
  /\ Unseen /\ UNCHANGED codex

\* execution_turn up to turn/start: a start that is still uncertain forbids
\* another; the new one is journalled before it is asked for.
Blocked(x) ==
  [x EXCEPT !.task.uncertain = FirstUncertain(x), !.task.conflict = TRUE]
Journalled(x, prompt) ==
  [x EXCEPT !.ops = Append(@, [prompt |-> prompt, state |-> "uncertain", turn |-> 0,
                               prev |-> LastRun(x).turn])]

SubmitBy(h) ==
  [Journalled(s, s[h].prompt) EXCEPT ![h].pc = "turn", ![h].op = Len(s.ops) + 1]

\* Mutant: an uncertain start does not forbid another.
SubmitAgain ==
  /\ At("options")
  /\ s' = IF s.task.paused \/ s.task.status # "in_progress" THEN Ended(s)
          ELSE SubmitBy("worker")
  /\ Unseen /\ Unspent /\ UNCHANGED codex

Submit ==
  /\ At("options")
  /\ s' = IF s.task.paused \/ s.task.status # "in_progress" THEN Ended(s)
          ELSE IF Uncertain(s) # {} THEN Ended(FailedWith(Blocked(s), FALSE))
          ELSE SubmitBy("worker")
  /\ Unseen /\ Unspent /\ UNCHANGED codex

\* The start is answered with its turn...
Accepted(h, id) == SetOp(s, s[h].op, "agent_running", id)
Answered(id) == id # 0 /\ \A i \in DOMAIN codex.inbox : codex.inbox[i].turn >= id
\* Mutant: a refused start is recorded in a state nothing looks for.
RefusedUnread(h) == SetOp(s, s[h].op, "failed", 0)
Refused(h) == SetOp(s, s[h].op, "blocked", 0)

TurnStarted ==
  LET id == codex.calls.worker
      known == [Accepted("worker", id) EXCEPT !.turn = id]
      run == IF LastRun(s).turn = id THEN known
             ELSE [known EXCEPT !.runs = Append(@, [turn |-> id, state |-> "running"])]
  IN
  /\ At("turn") /\ Answered(id)
  /\ s' = [run EXCEPT !.starting = FALSE,
                      !.worker = [@ EXCEPT !.pc = "wait", !.turn = id]]
  /\ codex' = [codex EXCEPT !.calls.worker = 0]
  /\ Unseen /\ Unspent

\* ... or refused, for its usage limit or anything else, ...
TurnRefused ==
  /\ May("refused")
  /\ At("turn") /\ codex.calls.worker = 0
  /\ \/ s' = Ended(FailedWith(Refused("worker"), FALSE))
     \/ /\ May("quota")
        /\ s' = IF s.task.status # "in_progress" THEN Ended(Refused("worker"))
                ELSE Go(AskLimits(Refused("worker"), "worker", 0), "limits")
  /\ Unseen /\ Unspent /\ UNCHANGED codex

\* ... or given up: whether a turn runs is not known.  A broken connection says
\* so; the answer of the timer is recorded as a refusal.
Lost(h) ==
  [SetOp(s, s[h].op, "uncertain", s.ops[s[h].op].turn)
     EXCEPT !.task.uncertain = s[h].op, !.task.conflict = TRUE]

Unknown(h, broken) == IF broken THEN Lost(h) ELSE Refused(h)

TurnLost ==
  \E broken \in BOOLEAN :
    /\ GivesUp(broken)
    /\ At("turn")
    /\ s' = Ended(FailedWith(Unknown("worker", broken), broken))
    /\ codex' = [Abandoned(codex) EXCEPT !.calls.worker = 0]
    /\ Unseen

\* wait_for_turn returns once the end of the turn has been notified.
TurnEnded ==
  LET id == s.worker.turn IN
  /\ At("wait") /\ id \in s.ended
  /\ \E ok \in IF May("attention") THEN BOOLEAN ELSE {TRUE} :
       LET r == [Result(s, id, StateOf(id), ok, "worker") EXCEPT !.ended = @ \ {id}] IN
       s' = IF r.limits = s.limits THEN Ended(r) ELSE Go(r, "limits")
  /\ Unseen /\ Unspent /\ UNCHANGED codex

\* The rate limits have been read, or could not be; the status is not read again.
QuotaWait ==
  \E l \in s.limits :
    /\ s' = LET x == Forget(Exhausted([s EXCEPT !.limits = @ \ {l}]), l.turn) IN
            CASE l.by = "worker" -> Ended(x)
              [] l.by = "loop" -> [x EXCEPT !.loop.pc = "reconcile"]
              [] l.by = "notice" -> x
    /\ Unseen /\ Unspent /\ UNCHANGED codex
-----------------------------------------------------------------------------
(* follow_up on a thread without an active turn.                           *)

FollowUp ==
  LET prompt == NextPrompt
      q == Enqueued(s, prompt)
      row == s.task
  IN
  /\ May("follow_up") /\ Ask
  /\ s.follow.pc = "none"
  /\ s.task.thread /\ s.task.status \in {"in_progress", "in_review"}
  /\ CanRead /\ ~Active
  /\ s.worker.pc = "none" /\ EnqueueOK(s)
  /\ s' = IF ~Claimable(q) THEN q
          ELSE [Claimed(q) EXCEPT !.starting = TRUE,
                  !.follow = [pc |-> "options", prompt |-> prompt, op |-> 0, row |-> row]]
  /\ Unseen /\ UNCHANGED codex

\* The except branch: the row as it was read, but for four fields.
Restored(x) ==
  LET row == x.follow.row
      status == IF x.task.status = "canceled" THEN "canceled" ELSE row.status
      set == Moved(GiveBack(x), status, row.run)
  IN [set EXCEPT !.task.observe = row.observe, !.starting = FALSE, !.follow = NoFollow]

FollowUpSubmit ==
  /\ s.follow.pc = "options"
  /\ s' = IF s.task.paused THEN Restored(s)
          ELSE IF Uncertain(s) # {} THEN Restored(Blocked(s))
          ELSE SubmitBy("follow")
  /\ Unseen /\ Unspent /\ UNCHANGED codex

FollowUpStarted ==
  LET id == codex.calls.follow IN
  /\ s.follow.pc = "turn" /\ Answered(id)
  /\ s' = [Watch(Adopted(Accepted("follow", id), id, TRUE), id) EXCEPT !.starting = FALSE, !.follow = NoFollow]
  /\ codex' = [codex EXCEPT !.calls.follow = 0]
  /\ Unseen /\ Unspent

FollowUpNotStarted ==
  /\ s.follow.pc # "none"
  /\ \/ /\ May("refused") /\ Unspent
        /\ codex.calls.follow = 0
        /\ s' = Restored(IF s.follow.pc = "turn" THEN Refused("follow") ELSE s)
        /\ UNCHANGED codex
     \/ \E broken \in BOOLEAN :
        /\ GivesUp(broken)
        /\ s' = Restored(IF s.follow.pc = "turn" THEN Unknown("follow", broken) ELSE s)
        /\ codex' = [Abandoned(codex) EXCEPT !.calls.follow = 0]
  /\ Unseen
-----------------------------------------------------------------------------
(* Pausing, canceling and returning to draft: Codex is asked to interrupt    *)
(* and, for a pause, has to confirm it.                                     *)

Kinds == (IF May("pause") THEN {"pause"} ELSE {}) \cup
         (IF May("cancel") THEN {"cancel"} ELSE {}) \cup
         (IF May("requeue") /\ ~s.managed THEN {"requeue"} ELSE {})
Confirmed(kind) == kind = "pause" \/ s.managed

GivenUp(x) == [x EXCEPT !.stop = NoStop, !.override = FALSE]

\* A confirmed pause settles what was uncertain.
Paused(x) ==
  [Canceled(x) EXCEPT
     !.lease = FALSE, !.task.paused = TRUE, !.task.conflict = FALSE, !.task.uncertain = 0,
     !.task.run = IF @ \in {"starting", "running", "waiting_quota"} THEN "failed" ELSE @,
     !.ops = [i \in DOMAIN @ |-> IF @[i].state = "uncertain"
                                   THEN [@[i] EXCEPT !.state = "blocked"] ELSE @[i]]]

StoppedBy(x, kind, current) ==
  CASE kind = "pause" -> Paused(x)
    [] kind = "cancel" /\ x.managed -> Moved(Paused(x), "canceled", "none")
    [] kind = "cancel" /\ ~x.managed ->
         IF current THEN Canceled(Moved(x, "canceled", "none")) ELSE x
    [] kind = "requeue" -> Canceled(Updated(Moved(x, "todo", "none"), "interrupted"))

\* Mutant: a pause does not wait for a start that is under way.
StopStarting(kind) ==
  LET x == Finished([s EXCEPT !.task.paused = @ \/ Confirmed(kind)]) IN
  /\ left.stops > 0 /\ left' = [left EXCEPT !.stops = @ - 1]
  /\ s.stop.pc = "none"
  /\ kind \in Kinds
  /\ s.task.status = "in_progress"
  /\ s.task.thread /\ CanRead
  /\ s' = [x EXCEPT !.stop = [pc |-> "ask", kind |-> kind], !.override = TRUE]
  /\ seen' = {"stop"}
  /\ UNCHANGED codex

\* Dispatch is stopped first; _interrupt refuses while a turn is being started.
\* Without a thread there is nothing to ask Codex.
Stop(kind) ==
  LET marked == [s EXCEPT !.task.paused = @ \/ Confirmed(kind)]
      x == IF Confirmed(kind) THEN Finished(marked) ELSE marked
  IN
  /\ left.stops > 0 /\ left' = [left EXCEPT !.stops = @ - 1]
  /\ s.stop.pc = "none"
  /\ kind \in Kinds
  /\ s.task.status = "in_progress"
  /\ s.task.thread => CanRead
  /\ s' = IF s.starting THEN x
          ELSE IF s.task.thread
            THEN [x EXCEPT !.stop = [pc |-> "ask", kind |-> kind], !.override = TRUE]
          ELSE StoppedBy(x, kind, TRUE)
  /\ seen' = (IF s'.task = s.task THEN seen ELSE {}) \cup {"stop"}
  /\ UNCHANGED codex

\* The turn to interrupt is the registered one, or the active one of the thread;
\* Codex refuses to interrupt a turn that is over.
StopAsk ==
  LET id == IF s.turn # 0 THEN s.turn ELSE IF Active THEN Latest ELSE 0
      asked == [s EXCEPT !.stop.pc = "check"]
      interrupted == [codex EXCEPT !.turns[id].state = "interrupted",
                                   !.inbox = Append(@, [turn |-> id, what |-> "ended"])]
  IN
  /\ s.stop.pc = "ask"
  /\ \/ id = 0 /\ s' = asked /\ Unspent /\ UNCHANGED codex
     \/ /\ StateOf(id) = "active" /\ Unspent
        /\ s' = asked /\ codex' = interrupted
     \/ /\ id # 0 /\ StateOf(id) # "active" /\ Unspent
        /\ s' = GivenUp(s) /\ UNCHANGED codex
     \/ /\ id # 0 /\ \E broken \in BOOLEAN : GivesUp(broken)
        /\ s' = GivenUp(s)
        /\ UNCHANGED codex \/ (StateOf(id) = "active" /\ codex' = interrupted)
  /\ Unseen

StopCheck ==
  /\ s.stop.pc = "check" /\ CanRead
  /\ s' = IF Confirmed(s.stop.kind) /\ Active THEN GivenUp(s)
          ELSE [s EXCEPT !.stop.pc = "apply"]
  /\ Unseen /\ Unspent /\ UNCHANGED codex

StopApply ==
  /\ s.stop.pc = "apply"
  /\ s' = GivenUp(StoppedBy(s, s.stop.kind, "stop" \in seen))
  /\ codex' = [Abandoned(codex) EXCEPT !.calls.worker = IF s'.worker.pc = "none" THEN 0 ELSE @]
  /\ Unseen /\ Unspent
-----------------------------------------------------------------------------
(* The loop: _sync_threads, then ParallelRuntime.recover.                  *)

\* _sync_threads lists the task and reads its thread...
SyncRead ==
  /\ s.loop.pc = "idle" /\ s.task.thread /\ CanRead
  /\ s' = [s EXCEPT !.loop = [pc |-> "sync", latest |-> Latest, state |-> StateOf(Latest), op |-> 0]]
  /\ seen' = seen \cup {"loop"}
  /\ Unspent /\ UNCHANGED codex

\* Mutant: only turns without a run are taken up, as after a restart none is.
SyncedNew(x, id, state) ==
  LET known == Adopted(x, id, state = "active")
  IN IF state = "active" \/ known.turn # id THEN known
     ELSE Result(known, id, state, TRUE, "loop")

Synced(x, id, state) ==
  LET active == state = "active"
      known ==
        IF LastRun(x).turn # id THEN Adopted(x, id, active)
        ELSE IF /\ x.runs # <<>> /\ x.task.status = "in_progress"
                /\ \/ x.task.run \notin {"waiting_quota", "failed"}
                   \/ x.task.observe \/ state \in {"completed", "active"}
          THEN [x EXCEPT !.turn = id,
                  !.task.run = IF @ \in {"failed", "waiting_quota"} /\ active THEN "running" ELSE @]
          ELSE x
  IN IF active \/ known.turn # id THEN known
     ELSE Result(known, id, state, TRUE, "loop")

\* ... and applies what it read unless the row has changed since.
SyncApply ==
  LET l == s.loop
      r == IF "loop" \in seen /\ ~s.starting /\ l.latest # 0
             THEN Synced(s, l.latest, l.state) ELSE s
  IN
  /\ l.pc = "sync"
  /\ s' = [r EXCEPT !.loop.pc = IF r.limits = s.limits THEN "reconcile" ELSE "limits"]
  /\ Unseen /\ Unspent /\ UNCHANGED codex

\* A start without a thread begins again; a start that is still uncertain is
\* looked for on the thread.
UncertainStart(x) == IF x.task.uncertain # 0 THEN x.task.uncertain ELSE FirstUncertain(x)

\* Mutant: whatever has no worker is begun again.
ReconcileBeginning ==
  LET again == s.task.status = "in_progress" /\ s.worker.pc = "none"
      x == IF again THEN Spawn(s, s.queue.prompt) ELSE s
  IN
  /\ CanRead
  /\ s.loop.pc = "reconcile" \/ (s.loop.pc = "idle" /\ ~s.task.thread)
  /\ s' = IF s.task.paused THEN [s EXCEPT !.loop = NoLoop]
          ELSE [x EXCEPT !.loop = NoLoop]
  /\ Unseen /\ Unspent /\ UNCHANGED codex

Reconcile ==
  LET again == /\ s.task.status = "in_progress" /\ s.task.run = "starting"
               /\ ~s.task.thread /\ s.worker.pc = "none"
      x == IF again THEN Spawn(s, s.queue.prompt) ELSE s
      op == UncertainStart(x)
  IN
  /\ CanRead
  /\ s.loop.pc = "reconcile" \/ (s.loop.pc = "idle" /\ ~s.task.thread)
  /\ s' = IF s.task.paused THEN [s EXCEPT !.loop = NoLoop]
          ELSE IF op = 0 \/ ~x.task.thread THEN [x EXCEPT !.loop = NoLoop]
          ELSE [x EXCEPT !.loop = [pc |-> "recover", latest |-> Latest,
                                   state |-> StateOf(Latest), op |-> op]]
  /\ Unseen /\ Unspent /\ UNCHANGED codex

\* Mutant: the turn before the uncertain start is taken for the turn it started.
RecoveredAny(x, l) ==
  IF l.latest = 0 THEN x
  ELSE LET found == [SetOp(x, l.op, "agent_running", l.latest) EXCEPT
                       !.task.status = "in_progress", !.task.run = "running",
                       !.task.uncertain = 0, !.task.conflict = FALSE, !.turn = l.latest]
       IN IF l.state = "active" THEN Watch(found, l.latest)
          ELSE Result(found, l.latest, l.state, TRUE, "loop")

Recovered(x, l) ==
  IF l.latest = 0 \/ l.latest = x.ops[l.op].prev THEN x
  ELSE LET found == [SetOp(x, l.op, "agent_running", l.latest) EXCEPT
                       !.task.status = "in_progress", !.task.run = "running",
                       !.task.uncertain = 0, !.task.conflict = FALSE, !.turn = l.latest]
       IN IF l.state = "active" THEN Watch(found, l.latest)
          ELSE Result(found, l.latest, l.state, TRUE, "loop")

Recover ==
  LET r == Recovered(s, s.loop) IN
  /\ s.loop.pc = "recover"
  /\ s' = IF r.limits = s.limits THEN [r EXCEPT !.loop = NoLoop]
          ELSE [r EXCEPT !.loop = [NoLoop EXCEPT !.pc = "limits"]]
  /\ Unseen /\ Unspent /\ UNCHANGED codex
-----------------------------------------------------------------------------
(* Codex, its notifications, and restarts.                                 *)

\* A start is carried out on a thread without an active turn.
CodexStarts ==
  \E h \in {"worker", "follow"} :
    /\ s[h].pc = "turn" /\ codex.calls[h] = 0 /\ ~Active
    /\ codex' = [codex EXCEPT
         !.turns = Append(@, [prompt |-> s[h].prompt, state |-> "active"]),
         !.calls[h] = Latest + 1,
         !.inbox = Append(@, [turn |-> Latest + 1, what |-> "started"])]
    /\ UNCHANGED <<s, seen, left>>

\* A start is carried out for which the board waits no more.
CodexStartsLate ==
  \E prompt \in codex.late :
    /\ May("late") /\ ~Active
    /\ codex' = [codex EXCEPT
         !.turns = Append(@, [prompt |-> prompt, state |-> "active"]),
         !.late = @ \ {prompt},
         !.inbox = Append(@, [turn |-> Latest + 1, what |-> "started"])]
    /\ UNCHANGED <<s, seen, left>>

\* The user writes in Codex.
Native ==
  /\ left.native > 0 /\ left' = [left EXCEPT !.native = @ - 1]
  /\ s.task.thread /\ ~Active
  /\ codex' = [codex EXCEPT
       !.turns = Append(@, [prompt |-> 0, state |-> "active"]),
       !.inbox = Append(@, [turn |-> Latest + 1, what |-> "started"])]
  /\ UNCHANGED <<s, seen>>

CodexEnds ==
  /\ Active
  /\ \E state \in {"completed"} \cup (IF May("refused") THEN {"failed"} ELSE {})
                            \cup (IF May("quota") THEN {"quota"} ELSE {}) :
       codex' = [codex EXCEPT
         !.turns[Latest].state = state,
         !.inbox = Append(@, [turn |-> Latest, what |-> "ended"])]
  /\ UNCHANGED <<s, seen, left>>

Notified ==
  LET n == Head(codex.inbox) IN
  /\ codex.inbox # <<>>
  /\ codex' = [codex EXCEPT !.inbox = Tail(@)]
  /\ s' = IF n.what = "started" THEN Adopted(s, n.turn, TRUE)
          ELSE Result([s EXCEPT !.ended = @ \cup {n.turn}], n.turn, StateOf(n.turn), TRUE, "notice")
  /\ Unseen /\ Unspent

Missed ==
  /\ May("missed") /\ Fault
  /\ codex.inbox # <<>>
  /\ codex' = [codex EXCEPT !.inbox = Tail(@)]
  /\ UNCHANGED <<s, seen>>

\* The process stops, with whatever was on its way to it, and starts again.
Crash ==
  /\ May("crash") /\ Fault
  /\ s' = Forgotten(s)
  /\ seen' = {}
  /\ \E trees \in IF At("tree") THEN {0, 1} ELSE {0},
        threads \in IF At("thread") THEN {0, 1} ELSE {0} :
       codex' = [Abandoned(codex) EXCEPT !.trees = @ + trees, !.threads = @ + threads,
                                         !.calls = NoCalls, !.inbox = <<>>]
-----------------------------------------------------------------------------
Users ==
  \/ Run \/ Continue \/ Resume \/ FollowUp
  \/ AttachThread \/ AttachTree
  \/ \E kind \in Kinds : Stop(kind)

Worker ==
  \/ Begin \/ TreeCreated \/ ThreadCreated \/ Resumed \/ Submit
  \/ TurnStarted \/ TurnEnded \/ QuotaWait \/ FollowUpSubmit \/ FollowUpStarted
  \/ StopAsk \/ StopCheck \/ StopApply

Loop == Dispatch \/ SyncRead \/ SyncApply \/ Reconcile \/ Recover

Trouble ==
  \/ TreeLost \/ ThreadLost \/ NotReadied \/ TurnRefused \/ TurnLost
  \/ FollowUpNotStarted \/ Missed \/ Crash

Desktop == CodexStarts \/ CodexStartsLate \/ Native \/ CodexEnds \/ Notified

Next == Users \/ Worker \/ Loop \/ Trouble \/ Desktop

Spec == Init /\ [][Next]_vars
-----------------------------------------------------------------------------
TypeOK ==
  /\ s.task.status \in {"todo", "in_progress", "in_review", "canceled"}
  /\ s.task.run \in {"none", "starting", "running", "waiting_quota", "failed"}
  /\ s.queue \in [state : {"none", "pending", "claimed", "done"}, prompt : Nat]
  /\ s.treeOp \in {"none", "asked", "flagged", "ready"}
  /\ s.threadOp \in {"none", "asked", "flagged", "ready"}
  /\ \A i \in DOMAIN s.ops :
       s.ops[i].state \in {"uncertain", "agent_running", "blocked", "completed"}
  /\ s.task.uncertain \in 0..Len(s.ops)
  /\ s.turn \in 0..Latest
  /\ s.worker.pc \in {"none", "begin", "tree", "thread", "resume", "options", "turn",
                      "wait", "limits"}
  /\ s.loop.pc \in {"idle", "sync", "limits", "reconcile", "recover"}
  /\ s.follow.pc \in {"none", "options", "turn"}
  /\ s.stop.pc \in {"none", "ask", "check", "apply"}

\* The turns of the board; whether users started none of their own in Codex.
Own == {i \in DOMAIN codex.turns : codex.turns[i].prompt # 0}
Alone == Own = DOMAIN codex.turns

\* README.md:79, "without blindly replaying creation": however often a managed
\* task is retried after lost answers and restarts, one worktree and one thread
\* are made for it.
CreatedOnce == s.managed => codex.threads <= 1 /\ codex.trees <= 1

J == INSTANCE Journal WITH
       recorded <- {s.ops[i].prompt : i \in DOMAIN s.ops},
       started <- [i \in Own |-> codex.turns[i].prompt]

\* "... or execution": a prompt is in the journal before its turn can start, and
\* it starts at most one turn (execution_turn, parallel_runtime.py:125-141, and
\* every path that spawns it again).
JournalSpec == J!Spec

\* A start the board waits for is carried out only when it is known, or was settled
\* by a confirmed pause, what became of every turn the board started before.  Not
\* so after a timeout, which the journal records like a refusal (run timedout), nor
\* for a request made while a follow-up is unanswered (hazard at
\* parallel_runtime.py:621): then two starts can be under way.
Overlapping == {"impatient", "follow_up"} \subseteq left.can
Accounted(i) ==
  \E k \in DOMAIN s.ops : /\ s.ops[k].prompt = codex.turns[i].prompt
                          /\ s.ops[k].turn # 0 \/ s.ops[k].state = "blocked"
NoBlindStart ==
  [][ /\ ~Overlapping /\ ~May("timeout")
      /\ codex'.calls # codex.calls /\ Len(codex'.turns) > Len(codex.turns)
      => \A i \in Own : Accounted(i) ]_vars

\* Where the code is known to lose track: a start that the timer of the renderer
\* gives up (run timedout) or that is carried out after it was given up (hazard at
\* parallel_runtime.py:800), a user's request during a stop or a read (hazards at
\* parallel_runtime.py:621 and :793), a start recovered without a run (run
\* restarted; also where its notification is missed, unless _execute_task makes the
\* run), two look-ups of one usage limit (scheduler.py:1072), a follow-up whose
\* answer is lost (scheduler.py:439), and a lost start that is found failed or
\* stopped, whose failure releases the lease of the retry that is on its way.
Orderly ==
  /\ Alone /\ left.can \cap {"impatient", "crash", "quota", "timeout", "late"} = {}
  /\ ~({"follow_up", "missed"} \subseteq left.can)
  /\ "lost" \in left.can =>
       left.can \cap {"follow_up", "missed", "refused", "pause", "cancel", "requeue"} = {}

\* Otherwise a turn the board started runs under its task's lease, also while its
\* start is unanswered, lost, or being interrupted ...
LeaseCovers == Orderly => \A i \in Own : StateOf(i) = "active" => s.lease

\* ... and each operation is matched with the turn its own prompt started.
\* README.md:79, "Reconnection reconciles native turns, worktrees, and recorded
\* operations", promises that after restarts too.
Matched == Alone =>
  \A i \in DOMAIN s.ops : s.ops[i].turn # 0 =>
    codex.turns[s.ops[i].turn].prompt = s.ops[i].prompt
Attributed == Orderly => Matched

\* parallel_db.py:262, "uncertain executions still count": where users start no turn
\* themselves, a turn of the board runs under the lease, whatever was answered.
UncertainCounts == Alone => \A i \in Own : StateOf(i) = "active" => s.lease

\* README.md:79, "Pause stops dispatch before interrupting and confirming": once
\* a pause is confirmed nothing of the task runs, and no start is under way.  Not so
\* when Codex carries out a start that the board gave up before (hazard at
\* parallel_runtime.py:800).
Quiet == /\ \A i \in Own : StateOf(i) # "active"
         /\ s.worker.pc # "turn" /\ s.follow.pc # "turn"
PauseConfirmed ==
  [][ /\ ~May("impatient") /\ ~May("late")
      /\ s.stop.pc = "apply" /\ s.stop.kind = "pause" /\ s.task.paused /\ s'.stop.pc = "none"
      => Quiet' ]_vars

\* Restarts cancel and the loop starts again; Codex ends its turns; each
\* coroutine runs when it can.
Fair ==
  /\ WF_vars(Begin \/ TreeCreated \/ ThreadCreated \/ Resumed \/ Submit \/ TurnStarted \/ TurnEnded)
  /\ WF_vars(QuotaWait)
  /\ WF_vars(FollowUpSubmit \/ FollowUpStarted)
  /\ WF_vars(StopAsk \/ StopCheck \/ StopApply)
  /\ WF_vars(Loop)
  /\ WF_vars(CodexStarts) /\ WF_vars(CodexEnds) /\ WF_vars(Notified)
FairSpec == Spec /\ Fair

\* README.md:59, "Live events are backed by periodic reconciliation": a task shown
\* as running, whose thread has a turn, does not stay so, whatever notification,
\* answer or process was lost; but a turn Codex starts late, as one users start,
\* can hide the end of another.
Running == s.task.status = "in_progress" /\ s.task.run \in {"starting", "running"} /\ ~s.task.paused
Settles == (Running /\ Latest # 0) ~> ~Running \/ ~Alone \/ May("late")
=============================================================================
