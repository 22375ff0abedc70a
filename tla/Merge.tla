-------------------------------- MODULE Merge --------------------------------
(***************************************************************************)
(* Integration of the results of managed tasks into one target branch of    *)
(* one repository: preparing a candidate in a worktree of its own, repairing *)
(* conflicts in a Codex turn, verifying the candidate, publishing it by       *)
(* compare-and-swap, and recovering whatever a restart interrupted.           *)
(*                                                                         *)
(* A commit is the set of changes it contains, so that is_ancestor is subset *)
(* and a merge is a union.  Between two awaits a step is atomic.             *)
(***************************************************************************)
EXTENDS Integers, FiniteSets

CONSTANTS
  Tasks,   \* managed tasks with the same target
  Scenario \* bound: what users, Codex and failures do in a behaviour

\* can: the optional operations; review: whether results are reviewed; turns: how many
\* turns the tasks get; moves: how often anyone else changes the target, the worktrees or
\* the settings; trouble: requests given up and restarts.
Operation == {"conflict", "quota", "push", "touch", "dirty", "commands", "local", "pause",
              "rework", "retry", "attach", "resettle", "impatient", "fail",
              "lost", "timeout", "late", "crash"}

VARIABLES
  s,   \* the rows, the operations, the repository and the worker
  left \* what is left of the scenario
vars == <<s, left>>

May(what) == what \in left.can
Move(what) == May(what) /\ left.moves > 0 /\ left' = [left EXCEPT !.moves = @ - 1]
Trouble(what) == May(what) /\ left.trouble > 0 /\ left' = [left EXCEPT !.trouble = @ - 1]
\* A request to Codex is given up: the connection breaks, or the renderer's 30 s timer
\* answers with an error like those Codex refuses a request with.
GivesUp(broken) == Trouble(IF broken THEN "lost" ELSE "timeout")
Free == UNCHANGED left

NoOp == <<>>
Idle == [pc |-> "idle", op |-> NoOp, check |-> <<>>, recovering |-> FALSE]

\* A task in its first turn. result, approved and merged are commits; {} is none.
NewTask == [merge |-> "none", status |-> "in_progress", running |-> TRUE, paused |-> FALSE,
            result |-> {}, approved |-> {}, merged |-> {}, head |-> {}, clean |-> TRUE, op |-> NoOp]
NewOp == [state |-> "preparing", tree |-> "none", head |-> {}, clean |-> TRUE,
          thread |-> FALSE, turn |-> "none", result |-> {}]

Init ==
  /\ left \in Scenario
  /\ s = [task |-> [t \in Tasks |-> NewTask], op |-> <<>>, check |-> <<>>,
          target |-> {}, dirty |-> FALSE, commands |-> 1, local |-> FALSE, late |-> {},
          w |-> Idle]

Owner(id) == id[1]
Source(id) == id[2]
Target(id) == id[3]

\* f with a value recorded for key, which may be new.
Recorded(f, key, value) == [k \in DOMAIN f \cup {key} |-> IF k = key THEN value ELSE f[k]]

SetOp(x, id, state) == [x EXCEPT !.op[id].state = state]
SetMerge(x, t, merge) == [x EXCEPT !.task[t].merge = merge]
Done(x) == [x EXCEPT !.w = Idle]
Held == {"uncertain", "agent_running", "waiting_quota"}
-----------------------------------------------------------------------------
(* Failing: merge_task keeps the state of a repair that may still run;        *)
(* recover_operation takes a lost connection for no answer at all, and blocks   *)
(* the operation on every other error, be it the timer's.                     *)

Fails(x) ==
  LET id == x.w.op
      state == x.op[id].state
      kept == IF x.w.recovering THEN {"waiting_quota"} ELSE Held
  IN Done(SetMerge(SetOp(x, id, IF state \in kept THEN state ELSE "blocked"),
                   Owner(id), "blocked"))

Unavailable(x) == IF x.w.recovering THEN Done(x) ELSE Fails(x)
Unanswered(x, broken) == IF broken THEN Unavailable(x) ELSE Fails(x)

Merged(x, id, result) ==
  [x EXCEPT !.op[id].state = "completed", !.op[id].result = result,
            !.task[Owner(id)] = [@ EXCEPT !.merge = "merged", !.status = "done",
                                          !.running = FALSE, !.merged = Source(id)],
            !.w = Idle]
-----------------------------------------------------------------------------
(* publish_merge.                                                          *)

CheckId(x, id) == <<id, x.op[id].head, x.commands>>

\* What has to hold of task, candidate and checkout at both readings.
StillWanted(x, id) == x.task[Owner(id)].merge = "merging" /\ ~x.task[Owner(id)].paused

\* Mutant: the recorded result is not compared with the source again.
UnchangedClean(x, id) == x.task[Owner(id)].clean

Unchanged(x, id) ==
  LET t == x.task[Owner(id)] IN t.result = Source(id) /\ t.head = Source(id) /\ t.clean
Acceptable(x, id) ==
  /\ x.op[id].clean
  /\ Source(id) \cup Target(id) \subseteq x.op[id].head
  /\ ~x.local

\* Mutant: the state of the operation is written to the task too.
SupersededTask(x, id) ==
  Done(SetMerge(SetOp(x, id, "superseded"), Owner(id), "superseded"))

Superseded(x, id) ==
  Done(SetMerge(SetOp(x, id, "superseded"), Owner(id), "queued"))

CheckoutClean(x) == ~x.dirty

\* What is to be published is recorded first.
Publishing(x, id) == [SetOp(x, id, "publishing") EXCEPT !.op[id].result = x.op[id].head]

\* gw.publish: a clean checkout of the target is fast-forwarded.
Publish(x, id) ==
  LET result == x.op[id].head IN
  IF ~CheckoutClean(x) THEN Fails(Publishing(x, id))
  ELSE Merged([Publishing(x, id) EXCEPT !.target = result], id, result)

\* Mutant: the binding of the evidence is not compared again.
SecondPassUnbound(x, id, checked) ==
  IF ~StillWanted(x, id) \/ ~Acceptable(x, id) \/ ~Unchanged(x, id) THEN Fails(x)
  ELSE IF x.target # Target(id) THEN Superseded(x, id)
  ELSE Publish(x, id)

SecondPass(x, id, checked) ==
  IF ~StillWanted(x, id) \/ ~Acceptable(x, id) \/ ~Unchanged(x, id) THEN Fails(x)
  ELSE IF x.target # Target(id) THEN Superseded(x, id)
  ELSE IF checked # CheckId(x, id) THEN Fails(x)
  ELSE Publish(x, id)

\* verify_candidate: the commands begin to run.
Verifies(x, key) ==
  [x EXCEPT !.check = Recorded(@, key, "running"), !.w.pc = "verify", !.w.check = key]

\* Evidence that is already there is used; a check that may still run is not repeated.
FirstPass(x, id) ==
  LET key == CheckId(x, id)
      state == IF key \in DOMAIN x.check THEN x.check[key] ELSE "none"
  IN IF ~StillWanted(x, id) \/ ~Acceptable(x, id) \/ ~Unchanged(x, id) THEN Fails(x)
     ELSE IF x.target # Target(id) THEN Superseded(x, id)
     ELSE IF x.commands = 0 \/ state = "running" THEN Fails(x)
     ELSE IF state = "passed" THEN SecondPass(x, id, key)
     ELSE Verifies(x, key)
-----------------------------------------------------------------------------
(* The end of recover_operation: what a restart has interrupted goes on.    *)

\* What a recovered publication needs to count.
Evidence(x, id) ==
  LET key == <<id, x.op[id].result, x.commands>>
  IN x.commands # 0 /\ key \in DOMAIN x.check /\ x.check[key] = "passed"

\* Mutant: a recorded result counts as published.
ContinuedUnpublished(x, id) ==
  IF x.op[id].tree # "ready" THEN Fails(x)
  ELSE IF x.op[id].result # {} /\ Evidence(x, id) THEN Merged(x, id, x.op[id].result)
  ELSE FirstPass(x, id)

Continued(x, id) ==
  LET t == x.task[Owner(id)]
      again == IF t.merge = "blocked" /\ t.op = id /\ ~t.paused
                 THEN SetMerge(x, Owner(id), "merging") ELSE x
  IN
  IF x.op[id].tree # "ready" THEN Fails(x)
  ELSE IF x.op[id].result # {} /\ x.op[id].result \subseteq x.target
    THEN IF Evidence(x, id) THEN Merged(x, id, x.op[id].result) ELSE Fails(x)
  ELSE FirstPass(again, id)

GoesOn(x, id) == IF x.w.recovering THEN Continued(x, id) ELSE FirstPass(x, id)
-----------------------------------------------------------------------------
(* merge_task and resolve_merge.                                           *)

Resolve(x, id) ==
  IF Source(id) \subseteq x.op[id].head /\ x.op[id].clean THEN GoesOn(x, id)
  ELSE [x EXCEPT !.w.pc = "thread"]

\* A merge that conflicts leaves the worktree unclean, with a merge in progress.
Integrates(x, id, conflict) ==
  IF Source(id) \subseteq x.op[id].head THEN FirstPass(x, id)
  ELSE IF ~x.op[id].clean THEN Resolve(x, id)
  ELSE IF conflict THEN Resolve([x EXCEPT !.op[id].clean = FALSE], id)
  ELSE Resolve([x EXCEPT !.op[id].head = @ \cup Source(id)], id)

Conflicts == IF May("conflict") THEN BOOLEAN ELSE {FALSE}

\* Mutant: only what may still run counts as interrupted.
InterruptedLate == Held

Interrupted == Held \cup {"publishing", "preparing", "verified_turn"}

\* Mutant: a repair that may still run in Codex is forgotten.
RefusesDetached(t, id) ==
  LET r == s.task[t] IN
  \/ r.head # r.result \/ ~r.clean \/ s.local
  \/ id \in DOMAIN s.op /\ s.op[id].state = "blocked"

\* Why an integration is not even prepared: a repair of the repository may still run, the
\* delivery or the checkout is not what was recorded, or the same attempt failed before.
Refuses(t, id) ==
  LET r == s.task[t] IN
  \/ \E i \in DOMAIN s.op : s.op[i].state \in Held
  \/ r.head # r.result \/ ~r.clean \/ s.local
  \/ id \in DOMAIN s.op /\ s.op[id].state = "blocked"

\* merge_task records the attempt and makes its worktree, unless an earlier one is there.
Begins(x, t, id) ==
  LET o == IF id \in DOMAIN x.op THEN [x.op[id] EXCEPT !.state = "preparing"] ELSE NewOp
  IN [x EXCEPT !.op = Recorded(@, id, o), !.task[t] = [@ EXCEPT !.merge = "merging", !.op = id],
               !.w = [Idle EXCEPT !.pc = "tree", !.op = id]]

\* One integration per repository; the loop takes any task that is queued. After a
\* restart it recovers first, and nothing but a restart leaves other interrupted states.
Prepare(t) ==
  LET r == s.task[t]
      id == <<t, r.result, s.target>>
      x == Begins(s, t, id)
      tree == x.op[id].tree
  IN
  /\ s.w.pc = "idle" /\ r.merge = "queued" /\ ~r.paused
  /\ \A i \in DOMAIN s.op : s.op[i].state \in Interrupted => s.op[i].state \in Held
  /\ IF Refuses(t, id) THEN s' = SetMerge(s, t, "blocked")
     ELSE CASE tree = "ready" -> \E c \in Conflicts : s' = Integrates(x, id, c)
            [] tree = "none" -> s' = [x EXCEPT !.op[id].tree = "creating"]
            [] OTHER -> s' = Fails(x)
  /\ Free

At(pc) == s.w.pc = pc

TreeMade ==
  /\ At("tree")
  /\ \E c \in Conflicts :
       s' = Integrates([s EXCEPT !.op[s.w.op].tree = "ready", !.op[s.w.op].head = Target(s.w.op)],
                       s.w.op, c)
  /\ Free

\* create_worktree, start_thread or resume_thread is not answered.
NotPrepared ==
  \E broken \in BOOLEAN :
    /\ GivesUp(broken)
    /\ \/ At("tree") /\ s' = Unanswered([s EXCEPT !.op[s.w.op].tree = "uncertain"], broken)
       \/ At("thread") /\ s' = Unanswered(s, broken)

\* The start of the repair is journalled as uncertain first.
ThreadMade ==
  /\ At("thread")
  /\ s' = [s EXCEPT !.op[s.w.op].thread = TRUE, !.op[s.w.op].state = "uncertain",
                    !.w.pc = "turn"]
  /\ Free

TurnStarted ==
  /\ At("turn")
  /\ s' = [s EXCEPT !.op[s.w.op].turn = "active", !.op[s.w.op].state = "agent_running",
                    !.w.pc = "wait"]
  /\ Free

\* A start that is given up was carried out, is carried out late, or never is.
Abandoned ==
  {s} \cup (IF At("turn") THEN {[s EXCEPT !.op[s.w.op].turn = "active"]} ELSE {})
      \cup (IF At("turn") /\ May("late") THEN {[s EXCEPT !.late = @ \cup {s.w.op}]} ELSE {})

TurnLost ==
  /\ At("turn")
  /\ \E broken \in BOOLEAN, x \in Abandoned : GivesUp(broken) /\ s' = Unanswered(x, broken)

StartsLate ==
  \E i \in DOMAIN s.op :
    /\ i \in s.late /\ s.op[i].turn # "active"
    /\ s' = [s EXCEPT !.op[i].turn = "active", !.late = @ \ {i}]
    /\ Free

\* The usage limit refuses the repair.
TurnRefused ==
  /\ At("turn") /\ May("quota")
  /\ s' = Fails(SetOp(s, s.w.op, "waiting_quota"))
  /\ Free

\* check_aux_result.
Checked(x, id) ==
  CASE x.op[id].turn = "completed" -> SetOp(x, id, "verified_turn")
    [] x.op[id].turn = "quota" -> SetOp(x, id, "waiting_quota")
    [] OTHER -> SetOp(x, id, "blocked")

TurnOver ==
  LET id == s.w.op IN
  /\ At("wait") /\ s.op[id].turn # "active"
  /\ s' = LET x == Checked(s, id) IN
          IF s.op[id].turn # "completed" THEN Fails(x) ELSE GoesOn(x, id)
  /\ Free

\* The commands have run.
Ran(x, passed) == [x EXCEPT !.check[x.w.check] = IF passed THEN "passed" ELSE "failed"]

\* run_commands: what passed is a candidate that is still there, unchanged.
Verified ==
  LET id == s.w.op
      candidate == s.w.check[2]
  IN
  /\ At("verify")
  /\ \E ok \in IF May("fail") THEN BOOLEAN ELSE {TRUE} :
       LET passed == ok /\ s.op[id].head = candidate /\ s.op[id].clean
           x == Ran(s, passed)
       IN s' = IF passed THEN SecondPass(x, id, s.w.check) ELSE Fails(x)
  /\ Free
-----------------------------------------------------------------------------
(* recover and recover_operation.                                          *)

Reading(x, id) == [x EXCEPT !.w = [Idle EXCEPT !.pc = "read", !.op = id, !.recovering = TRUE]]

Recover(id) ==
  LET x == Reading(s, id) IN
  /\ At("idle")
  /\ s.op[id].state \in Interrupted
  /\ s' = IF s.op[id].thread THEN x ELSE Continued(x, id)
  /\ Free

\* The thread of the repair has been read.
RecoverRead ==
  LET id == s.w.op
      o == s.op[id]
  IN
  /\ At("read")
  /\ s' = IF o.turn = "active" THEN Done(SetOp(s, id, "agent_running"))
          ELSE IF o.turn = "none" THEN
            IF o.state = "uncertain" THEN Fails(s) ELSE Continued(s, id)
          ELSE IF o.state = "waiting_quota" THEN
            IF s.task[Owner(id)].paused THEN Done(s) ELSE Resolve(s, id)
          ELSE IF o.turn = "completed" THEN Continued(Checked(s, id), id)
          ELSE Fails(Checked(s, id))
  /\ Free

\* A usage limit that is not due, or a thread that cannot be read.
NotRecovered ==
  LET o == s.op[s.w.op] IN
  /\ At("read")
  /\ \/ /\ May("quota") /\ o.state = "waiting_quota" /\ o.turn \notin {"none", "active"}
        /\ s' = Done(s)
        /\ Free
     \/ \E broken \in BOOLEAN : GivesUp(broken) /\ s' = Unanswered(s, broken)
-----------------------------------------------------------------------------
(* The tasks' own turns.                                                    *)

\* ParallelRuntime.completed.
Completed(x, t) ==
  LET r == x.task[t] IN
  [x EXCEPT !.task[t] =
     IF ~r.clean THEN [r EXCEPT !.running = FALSE]
     ELSE [r EXCEPT !.running = FALSE, !.result = r.head,
             !.status = IF left.review THEN "in_review" ELSE "in_progress",
             !.merge = IF left.review THEN "pending_review" ELSE "queued"]]

\* A turn commits a change, or leaves its worktree unclean, and ends.
TurnEnds(t) ==
  /\ s.task[t].running /\ left.turns > 0
  /\ left' = [left EXCEPT !.turns = @ - 1]
  /\ \E clean \in IF May("fail") THEN BOOLEAN ELSE {TRUE} :
       s' = Completed([s EXCEPT !.task[t].head = @ \cup {<<t, left.turns>>},
                                !.task[t].clean = clean], t)

\* A synchronisation settles the same turn again: the task is still in progress.
Resettle(t) ==
  /\ Move("resettle")
  /\ s.task[t].status = "in_progress" /\ ~s.task[t].running /\ ~s.task[t].paused
  /\ s.task[t].result # {}
  /\ s' = Completed(s, t)
-----------------------------------------------------------------------------
(* Users, and others with access to the repository.                        *)

\* Bound: users leave alone a task whose repair is being started or whose publication
\* is yet to be recovered, and do not retry a merge while a turn runs.
Starting(t) == s.w.pc = "turn" /\ Owner(s.w.op) = t
Unrecovered(t) == \E i \in DOMAIN s.op : Owner(i) = t /\ s.op[i].state = "publishing"
Patient(t) == May("impatient") \/ ~(Starting(t) \/ Unrecovered(t))

\* Mutant: a delivery that waits for integration stays queued.
EnqueuedWaiting(x, t) ==
  [x EXCEPT !.task[t] = [@ EXCEPT !.running = TRUE, !.status = "in_progress", !.paused = FALSE]]

\* Another turn is enqueued and claimed.
Enqueued(x, t) ==
  [x EXCEPT !.task[t] = [@ EXCEPT !.running = TRUE, !.status = "in_progress", !.merge = "none",
                           !.approved = {}, !.paused = FALSE]]
Rework(t) ==
  /\ May("rework") /\ left.turns > 0
  /\ ~s.task[t].running /\ Patient(t)
  /\ s' = Enqueued(s, t)
  /\ Free

\* complete and merge_retry.
Approve(t) ==
  LET r == s.task[t]
      mine == {i \in DOMAIN s.op : Owner(i) = t}
  IN
  /\ r.result # {} /\ r.merge \in {"pending_review", "blocked", "queued"} /\ ~r.paused
  /\ \A i \in mine : s.op[i].state \in Held => s.op[i].thread /\ s.op[i].turn # "active"
  /\ IF r.merge = "pending_review" THEN Free ELSE Move("retry")
  /\ Patient(t) /\ (r.running => May("impatient"))
  /\ s' = [s EXCEPT
       !.op = [i \in DOMAIN @ |-> IF i \in mine /\ @[i].state \in Held \cup {"blocked"}
                                    THEN [@[i] EXCEPT !.state = "retry"] ELSE @[i]],
       !.task[t].merge = "queued", !.task[t].approved = r.result]

\* A repair that runs is interrupted; a check that runs keeps the pause from
\* being confirmed.
Pause(t) ==
  LET mine == {i \in DOMAIN s.op : Owner(i) = t}
      stopped == [i \in DOMAIN s.op |->
        IF i \notin mine \/ ~s.op[i].thread THEN s.op[i]
        ELSE [s.op[i] EXCEPT !.turn = IF @ = "active" THEN "interrupted" ELSE @,
                             !.state = IF @ = "completed" THEN @ ELSE "blocked"]]
      checking == \E k \in DOMAIN s.check : Owner(k[1]) = t /\ s.check[k] = "running"
  IN
  /\ Move("pause")
  /\ ~s.task[t].paused /\ ~s.task[t].running /\ s.task[t].status # "done" /\ Patient(t)
  /\ s' = [s EXCEPT !.op = stopped, !.task[t].paused = TRUE,
                    !.task[t].merge = IF @ = "merging" /\ ~checking THEN "blocked" ELSE @]

Resume(t) ==
  LET r == s.task[t] IN
  /\ r.paused /\ Patient(t)
  /\ IF r.result # {} /\ r.merge \in {"queued", "blocked", "pending_review"}
       THEN s' = [s EXCEPT !.task[t].paused = FALSE]
       ELSE left.turns > 0 /\ s' = Enqueued(s, t)
  /\ Free

\* attach_worktree: a worktree whose creation was not answered is named by the user.
Attach(t) ==
  LET id == s.task[t].op IN
  /\ Move("attach")
  /\ s.task[t].merge = "blocked" /\ id # NoOp /\ s.op[id].tree \in {"creating", "uncertain"}
  /\ s' = [s EXCEPT !.op[id].tree = "ready", !.op[id].head = Target(id)]

Push ==
  /\ Move("push")
  /\ s' = [s EXCEPT !.target = @ \cup {<<"push", left.moves>>}]

Touch ==
  /\ Move("touch")
  /\ \/ \E t \in Tasks : s' = [s EXCEPT !.task[t].head = @ \cup {<<"touch", left.moves>>}]
     \/ \E i \in DOMAIN s.op :
          s' = [s EXCEPT !.op[i].head = @ \cup {<<"touch", left.moves>>}]

SetDirty == Move("dirty") /\ s' = [s EXCEPT !.dirty = ~@]
SetCommands == Move("commands") /\ \E n \in 0..2 : s' = [s EXCEPT !.commands = n]
LocalTurn == Move("local") /\ s' = [s EXCEPT !.local = ~@]

\* A repair commits the merge.
Repaired(o, i) ==
  [o EXCEPT !.turn = "completed", !.clean = TRUE,
            !.head = @ \cup Source(i) \cup {<<"repair", Cardinality(@)>>}]

\* The repair ends: with a merge commit, or without having resolved the conflict.
Repair ==
  \E i \in DOMAIN s.op :
    /\ s.op[i].turn = "active"
    /\ \/ s' = [s EXCEPT !.op[i] = Repaired(@, i)]
       \/ May("fail") /\ s' = [s EXCEPT !.op[i].turn = "failed"]
       \/ May("quota") /\ s' = [s EXCEPT !.op[i].turn = "quota"]
    /\ Free
-----------------------------------------------------------------------------
\* A restart forgets the worker; what was asked of Codex is done or not.
Crash ==
  /\ Trouble("crash")
  /\ \E x \in Abandoned : s' = Done(x)

\* ... also between the steps of a publication.
CrashPublishing ==
  LET id == s.w.op
      x == Ran(s, TRUE)
  IN
  /\ Trouble("crash")
  /\ At("verify") /\ s.w.check = CheckId(s, id)
  /\ StillWanted(x, id) /\ Acceptable(x, id) /\ Unchanged(x, id)
  /\ s.target = Target(id) /\ CheckoutClean(s)
  /\ \E done \in BOOLEAN :
       s' = Done([Publishing(x, id) EXCEPT !.target = IF done THEN s.op[id].head ELSE @])
-----------------------------------------------------------------------------
Worker == TreeMade \/ ThreadMade \/ TurnStarted \/ TurnOver \/ Verified \/ RecoverRead

Next ==
  \/ \E t \in Tasks : Prepare(t)
  \/ Worker
  \/ \E i \in DOMAIN s.op : Recover(i)
  \/ NotPrepared \/ TurnLost \/ TurnRefused \/ NotRecovered \/ Crash \/ CrashPublishing
  \/ \E t \in Tasks : TurnEnds(t) \/ Resettle(t)
  \/ \E t \in Tasks : Rework(t) \/ Approve(t) \/ Pause(t) \/ Resume(t) \/ Attach(t)
  \/ Push \/ Touch \/ SetDirty \/ SetCommands \/ LocalTurn
  \/ Repair \/ StartsLate

Spec == Init /\ [][Next]_vars

\* Requests and commands end, a repair ends, and the loop of the scheduler, which
\* recovers and dispatches in turn, comes round to every task.
Fairness ==
  /\ WF_vars(Worker) /\ WF_vars(Repair)
  /\ \A t \in Tasks : SF_vars(Prepare(t))
  /\ WF_vars(\E i \in DOMAIN s.op : Recover(i))
FairSpec == Spec /\ Fairness
-----------------------------------------------------------------------------
TypeOK ==
  /\ left.can \subseteq Operation /\ {left.turns, left.moves, left.trouble} \subseteq Nat
  /\ DOMAIN s.task = Tasks
  /\ \A t \in Tasks : s.task[t].merge \in {"none", "pending_review", "queued", "merging", "blocked", "merged"}
  /\ \A i \in DOMAIN s.op :
       /\ s.op[i].state \in Held \cup {"preparing", "verified_turn", "blocked", "retry",
                                    "superseded", "publishing", "completed"}
       /\ s.op[i].turn \in {"none", "active", "completed", "failed", "interrupted", "quota"}
  /\ s.w.pc \in {"idle", "tree", "thread", "turn", "wait", "verify", "read"}
  /\ s.w.pc # "idle" => s.w.op \in DOMAIN s.op

\* A step of the board that moves the target adds to what is there the source of one
\* operation and no other unverified change: the candidate contains source and target,
\* the commands of the project as they are then have passed on exactly it, and the source
\* is the commit its task still has as its result, approved where results are reviewed.
PublishedOnlyVerified ==
  [][s'.target # s.target /\ left'.moves = left.moves =>
       \E i \in DOMAIN s.op :
         LET t == s.task[Owner(i)] IN
         /\ Source(i) \cup s.target \subseteq s'.target
         /\ <<i, s'.target, s'.commands>> \in DOMAIN s'.check
         /\ s'.check[<<i, s'.target, s'.commands>>] = "passed"
         /\ t.result = Source(i) /\ t.head = Source(i) /\ ~t.paused
         /\ left.review => t.approved = Source(i)]_vars

\* A task becomes done only as its delivery is in the target with evidence that still
\* counts, and what was delivered never leaves the target again.
DoneIsIntegrated ==
  \A t \in Tasks :
    /\ s.task[t].merge = "merged" => s.task[t].merged # {}
    /\ s.task[t].merged \subseteq s.target
    /\ s.task[t].status = "done" => s.task[t].merge = "merged"

\* An integration never ends a task whose next turn has begun.
DoneIsIdle ==
  [][\A t \in Tasks : s.task[t].status # "done" /\ s'.task[t].status = "done" =>
       ~s.task[t].running]_vars

\* The board never has two repairs of one repository that it waits for, and a repair
\* that runs is one it waits for. Not so where a request timed out or a start is carried
\* out late (run detached), or where users touch a task whose repair is being started.
OneRepair ==
  /\ Cardinality({i \in DOMAIN s.op : s.op[i].state \in Held}) <= 1
  /\ left.can \cap {"impatient", "timeout", "late"} = {} =>
       \A i \in DOMAIN s.op : s.op[i].turn = "active" => s.op[i].state \in Held

\* parallel_runtime.py:354, "A detached conflict worker may still be alive after an
\* uncertain response.", and so no second one is started beside it.
RepairAlone == Cardinality({i \in DOMAIN s.op : s.op[i].turn = "active"}) <= 1

\* Tasks that wait for integration are integrated, or stopped with their reason: when the
\* users have done with them, none waits.
Undecided(t) == s.task[t].merge \in {"queued", "merging"} /\ ~s.task[t].paused
Decided == (\E t \in Tasks : Undecided(t)) ~> (\A t \in Tasks : ~Undecided(t))
=============================================================================
