# A verification model of codex-taskboard

Codex Taskboard lets a user keep a board of tasks and hands them to Codex.  Its
server (Python, `src/src/codex_taskboard/`) decides which task may execute in
which repository, follows the Codex turns that execute them, and integrates
their results with Git.  A menu
bar program starts the server and injects its board into Codex.  This directory
holds TLA+ modules of what decides and what must survive failures, TLC
configurations that check them on small instances, and proofs for instances of
any size.

Paths below are relative to `src/src/codex_taskboard/` unless they start with
`src/`.

## Inventory

| Component | State it keeps | Operations | What is hard, and what makes it correct |
|---|---|---|---|
| Task store (`db.py`, `parallel_db.py`) | SQLite tables: `tasks` with their `parallel_state`, `task_dependencies`, `execution_queue`, `execution_leases`, `scope_leases`, `resource_leases`, `task_operations` | `create_task`, `update_task`, `enqueue`, `eligibility`, `claim_candidate`, `reserve_scopes`, `release_execution`, `mark_downstream_stale` | Five tables that must agree after every sequence of calls. Exclusive tasks alone in a repository; disjoint scopes; one owner per resource; a budget; no lease lost while a turn runs. |
| Scheduler (`scheduler.py`) | In memory: the turn of a task, running coroutines, tasks being started, manual overrides | User actions, the loop (synchronise, resume after quota, dispatch), turn results, adoption of native turns, restart recovery | Coroutines of many tasks interleave at every `await`; Codex is a second actor on the same threads; connections are lost while turns run. |
| Parallel runtime (`parallel_runtime.py`) | Worker coroutines by key (`group:…`, `merge:…`, `plan:…`), the operation journal | Dispatch, groups, pause and cancel, settlement of a turn, the merge queue, decomposition drafts, recovery | A result is verified for minutes while the task can be followed up, paused or canceled; groups and subtasks have two levels of reservation. |
| Git workspace (`git_workspace.py`, `verification.py`) | Git references, worktrees | `overlaps`, ancestry, `publish` (compare and swap), running the project's checks | The target branch moves; a crash between publishing and recording. |
| Plan conversations (`planning.py`) | `task_plan` operations, `planHold` | start, revise, confirm, cancel, observe a turn | A plan that confirms itself while the task is edited; uncertain starts. |
| Interactions and questions (`scheduler.py`, `questions.py`) | Pending requests with versions, waiters | record, answer, cancel | The same question answered in Codex and on the board; an answer sent twice. |
| App-server client (`app_server.py`, `desktop_server.py`) | Pending requests, turn waiters, completions nobody waited for | `request`, `start_turn`, `wait_for_turn`, reader loop | A completion before its waiter; disconnection with requests in flight; timeouts. |
| Events (`events.py`) | A bounded queue per subscriber | publish, subscribe | A slow subscriber must not stall the scheduler. |
| HTTP API (`app.py`) | – | One route per operation, `requestId` | Retries with the same request identifier. |
| Launcher and sidecar (`src/src-tauri`, `src/injector/sidecar.py`) | Process generation, status, control file | start, stop, restart, open | Late events of an earlier generation; a mailbox of one command. |
| Injector, platform services, skills, web interface, scripts | – | I/O and presentation | No scheduling state of their own. |

How they interact: HTTP requests and the web interface call the scheduler; the
scheduler and the parallel runtime share the store and change it only in its
transactions (`BEGIN IMMEDIATE` under one lock), so between two awaits a
handler's reads and writes are not interleaved with another's.  The scheduler
calls the app-server client and is called back by its reader with turn results
and requests.  The injector bridges the client to the desktop application.
Everything runs on one event loop.

The hazards this leads to are listed in `PROJECT.json`, each at the line where it
bites, with the property that would show it going wrong or the reason why none
does.

## Modules

| Module | What it models | Of the code |
|---|---|---|
| `TaskStore` | the scheduling tables as one record, the store's transactions as operators from tables to tables | `parallel_db.py`, `db.py` |
| `Dispatch` | many tasks: one action per user action, loop step, turn event and merge step | `scheduler.py`, `parallel_runtime.py` |
| `RepoLock` | abstract: a readers-writer lock per repository whose owners are root tasks | – |
| `Execution` | one task, await by await: worktree, thread, turns, journal, stops, restarts | `scheduler.py`, `parallel_runtime.py`, `db.py`, `desktop_server.py` |
| `Journal` | abstract: what starting turns promises, each prompt recorded first and started at most once | `parallel_runtime.py` |
| `Merge` | the integration of two tasks into one target: candidate, repair, verification, publication, recovery | `parallel_runtime.py`, `git_workspace.py`, `verification.py` |
| `Planning` | the plan conversations of one task | `planning.py` |
| `Drafts` | the subtasks of one group, their dependencies, and decomposition drafts | `parallel_runtime.py`, `db.py`, `app.py` |
| `Interactions` | the questions and approvals of one conversation | `scheduler.py`, `questions.py`, `desktop_server.py`, `app_server.py` |
| `Launcher` | the menu bar program, the sidecars, the injected panels | `src/src-tauri/src/main.rs`, `src/injector/sidecar.py`, `src/injector/cdp_injector.py` |
| `MCDispatch`, `MCExecution`, `MergeScenarios`, `MCMerge`, `PlanningScenarios`, `MCComponents` | boards and scenarios for the configurations | – |
| `DispatchProofs`, `DeliveryProofs` | the theorems about `Dispatch`, the second module resting on the first | – |
| `ExecutionProofs`, `CoverProofs` | the theorems about `Execution`, the second module resting on the first | – |
| `MergeProofs` | the theorems about `Merge` | – |
| `PlanningProofs` | the theorems about `Planning` | – |
| `InteractionsProofs` | the theorems about `Interactions` | – |
| `ComponentProofs` | the theorems about `Drafts` and about the composition that TLC checks | – |

`Dispatch` and `Execution` are two views of the same handlers: `Dispatch` takes
what one task's handler does between two decisions about reservations as one
step and lets several tasks compete; `Execution` takes one task and cuts its
handlers at every await.  Likewise a merge is two steps of `Dispatch` and a dozen of
`Merge`.  `Planning`, `Drafts`, `Interactions` and `Launcher` share no state with
these but a few flags, named below.  `MCComponents` puts the five components
after `Execution` side by side: a behaviour picks one at the start and only that one moves, so
that the graph is the sum of theirs and not the product.

### Dispatch: state

| Field | Code |
|---|---|
| `db.task[t].status`, `.run` | `tasks.status`, `.run_state` (`"none"` is NULL). `waiting_input` and `waiting_approval` are treated as executing wherever `running` is, and are folded into it. |
| `.mode`, `.local`, `.scopes`, `.draft` | `scheduling_mode`, `execution_mode = 'local'`, `write_scopes`, `priority = 'draft'` |
| `.turn` | the latest turn of the task's Codex thread, as Codex would report it; `"none"` when `thread_id` is NULL |
| `.paused`, `.conflict`, `.stale` | `paused`, `nativeConflict`, `needsValidation` of `parallel_state` |
| `.merge`, `.result` | `mergeState`, and whether `resultCommit` is set |
| `.phase`, `.prepared`, `.wanted`, `.again` | `groupPhase`, whether `integrationBranch` is set, `runRequested`, `resumeRequested` |
| `.worker` | the `merge:<repository>` worker is preparing or verifying this task (memory, not a column) |
| `db.queue` | `execution_queue.state` |
| `db.lease`, `db.forced` | `execution_leases.mode`; `forced` is a history variable: `_adopt_turn` inserted the lease although `eligibility` refused it |
| `db.scope`, `db.resource` | the rows of `scope_leases` and `resource_leases` by owner; the namespace of a row follows from its owner |

Whether a task is *managed* (integrated by the board) is `kind`, `parent_id` and
`scheduling_mode`, as `create_task` and `update_task` keep it.  Paths are
sequences of components, so that `overlaps` is the prefix order in both
directions; `"."` is the empty sequence.  Case-insensitive file systems compare
casefolded names and are the same order on other names.

### Dispatch: grain of the steps

A step is what a handler does between two awaits whose outcome matters to the
reservations.  Starting a turn is two steps, the claim (`run = "starting"`) and
the answer of Codex (`Started`, `StartFails`); a merge is two, `MergePrepare` and
one of `MergePublish`, `MergeSuperseded`, `MergeFails`, with everything else
interleaved between them; a group's worktree is two, `DispatchGroup` and
`GroupPrepared`.  A pause either confirms that every member has stopped
(`Pause`) or ends early with flags set and every lease kept
(`PauseUnconfirmed`).

Deliberate abstractions:

* A follow-up's claim and its `turn/start` are one step, successful
  (`FollowUpStarted`), refused (`FollowUpRefused`) or waiting
  (`FollowUpQueued`).  Steering an active turn changes no table and is not a
  step.
* An uncertain answer to `turn/start` and the operation journal are left to
  `Execution`; an uncertain *end* of a turn is here (`ConnectionLost`, `Reconnect`).
* `planHold` is left to `Planning`: a held task is refused at the same places as
  a draft.
* `validationRequested` is whether the task was stale when it was claimed.
* `Unready`: a user may run a subtask before its group has a worktree, and before
  the group has reserved anything.  Dispatch claims it, and `prepare_task` then gives up
  (`parallel_runtime.py:264-269`): `StartFails`, never `Started`.
  `RunningOwnsResources` is therefore about executions that are not `Unready`.
* `PauseUnconfirmed` allows any order of members, the code takes them by
  creation; `GroupPrepareFails` may also come in the phase `pausing`.
* `CanDo` bounds the model: the optional operations that users, Codex and
  failures perform on each task.  The board's own steps are never optional.

### Execution

`s` holds the task's rows, which a restart keeps, and the memory of the process,
which it forgets (`Forgotten`); `codex` is the desktop, which outlives the process;
`seen` are the handlers that have read the present version of the task's row, so
that a write by another refuses theirs.

| Field | Code |
|---|---|
| `s.task` | `status`, `run_state`, `paused`, `nativeConflict`, `uncertainObservation`, `uncertainExecution`, whether `thread_id` and a worktree are recorded |
| `s.queue`, `s.lease` | the rows of `execution_queue` (with its prompt) and `execution_leases` |
| `s.ops`, `s.runs` | `task_operations` of kind `execution`: state, prompt, turn, previous turn; `task_runs` |
| `s.treeOp`, `s.threadOp` | what is recorded of creating the worktree and the thread: asked, flagged uncertain, ready |
| `s.turn`, `.starting`, `.override`, `.ended` | `_task_turns`, `_starting_tasks`, `_manual_overrides`, completions kept by the client |
| `s.worker`, `.follow`, `.stop`, `.loop` | the coroutine of the task, a follow-up, a pause or cancel, the loop: where each awaits and what it read before |
| `codex.turns` | the turns of the thread with the prompt that started them, 0 if the user did |
| `codex.calls`, `.late`, `.inbox` | starts that Codex has not carried out yet, those among them that the board has given up, notifications on their way |

A request is answered, refused, or given up (`GivesUp`), and there are two ways of that.  A broken
connection raises `AppServerUnavailable`: what became of the request is uncertain, and says so.  The
renderer's timer answers with an error message (`src/injector/cdp_injector.py:707`), which
`desktop_server.py:50-54` raises as `RpcFailure`, like a refusal: `execution_turn` records `blocked`, and
the failure is taken for a certain one (`Unknown`).  Whichever it was, Codex has carried the
request out, never does, or, in the scenarios with `late`, does so at any later moment, also after a restart
(`CodexStartsLate`).  The other requests, which make worktrees and threads, are carried out when they are given up
or never.  What a `thread/read` returns does not overtake notifications.  `left` bounds a
behaviour: the optional operations, two prompts, at most two stops, one native turn, two faults.

### Merge

A commit is the set of changes it contains: `is_ancestor` is `\subseteq`, a merge is
a union, and a conflict is a choice.  `s.op` are the operations of kind `merge` by
their identity (task, source, target), `s.check` the verification records by
candidate and commands, `s.w` the one worker of the repository (`merge:<repository>`)
and where it awaits.  A push, an edit of a worktree, a dirty target, other commands or a
local task may come between any two awaits, and `CrashPublishing` stops between
the compare-and-swap and its record.  A request that is given up fails `merge_task` however it was given
up, and keeps an operation that is uncertain; in `recover_operation` a broken connection changes
nothing and every other error blocks the operation (`Unanswered`), be it the read of the
repair's thread (`NotRecovered`) or the start of a repair that goes on.  `s.late` are starts that
Codex has still to carry out (`StartsLate`).

### Planning, Drafts, Interactions, Launcher

* `Planning` - `p.ops` are the `task_plan` operations, `p.turns` what Codex shows of
  each conversation, `p.w` the holder of the one lock and what it read.  Codex ends
  turns, users write in Codex, edit the task, and the scheduler takes it
  (`Take`) unless `planHold` forbids it.  `text` numbers the requirements, and `SetBack` makes them
  what they were before.  `told` is what a turn has been told of them, 0 if nothing, as when the
  message that began its conversation never reached Codex and the user wrote there; it is told late if by a message
  that the board had given up.  `owed` are these messages (`Owing`), turns to start and turns to steer, which Codex
  carries out later or never (`Belated`); a turn that starts so in a conversation that is over is `astray`.
  Requests other than messages are carried out when they are given up or never, here and in `Merge`.
* `Drafts` - `g` is the group with `version`, base commit, subtasks with versions, and
  `edges` of blockers; `draft` the `plan` operations with the `context` they were
  made for.  `found` is what the group really was, a history variable for
  `DraftFits`.  A cycle is excluded with sets instead of paths: a graph is acyclic
  if every nonempty set of nodes has one with no blocker in the set, and
  `Reaches` says that no set closed under blocking separates a task from its new
  blockers, which is what the recursive query finds.
* `Interactions` - `codex` holds the history and the open requests, `link` the
  connection, which drops what happens while it is down, `board` the recorded
  interactions, the history being read, and the queue of the task, which has one place.  What waits in it starts a
  turn that carries the answer (`StartQueued`) or is dropped (`DropQueued`) when that start
  is refused, fails or is given up (`_fail_task` finishes the row), or by a pause; `late` are the
  answers given up that Codex may still get (`Belated`).  `user` are the answers under way.
* `Launcher` - `shell` is the program, `box` the control file, `proc` the sidecars.
  `wish` is a history variable: the windows in which the user has asked for the
  panel and does not see it yet.  What is left of the clicks stands for the time in
  a command's nonce.

## Runs

| Run | Board | Properties | Distinct states |
|---|---|---|---|
| `pair` | managed `a` (scope `src`), local exclusive `b` (scope `src/ui`), both need `port`; nearly every operation on `a`, incl. mode and scope edits | `TypeOK RunningHoldsLease Isolation ScopesDisjoint ResourcesExclusive RunningOwnsResources ReservationsLast DoneByMerge` | 364,613 |
| `group` | group `g` of `a`, `b` (`b` waits for `a`, overlapping scopes, one port), exclusive outsider `c` ranked first; the user may run `a` at any time, also before the group | `RunningHoldsLease ScopesDisjoint RunningOwnsResources GroupReviewComplete ReservationsLast LockSpec` | 468,406 |
| `chain` | parallel `a`, `b`, `c`, each waiting for the one before, budget 1 | `BudgetKept ReworkMarks` | 117,305 |
| `drain` | parallel `a`, exclusive `b`, exclusive `c` waiting for `a`, parallel `g`; fair | `ExclusiveRuns` | 841 |
| `execution` | thirteen scenarios (`Everything` of `MCExecution`), each with a managed and an ordinary task; fair | `TypeOK CreatedOnce LeaseCovers Attributed JournalSpec NoBlindStart PauseConfirmed Settles` | 682,994 |
| `components` | merges of `a` and `b` in nine scenarios (`MergeScenarios`); a plan in five; a draft over three subtasks; two requests or a message of two questions, two users; two sidecars and two windows; fair | `AllTyped DoneIsIntegrated OneRepair OnlyHeldRuns NoCycle AnsweredForReal PublishedOnlyVerified DoneIsIdle Decided AcceptedForText Noticed DraftFits DraftDecided Reconciled OpenHeard` | 312,689 |

`CHECK_DEADLOCK FALSE` is set everywhere: a board whose tasks are done or
canceled, and whose users do nothing more, stops.

The properties:

* `RunningHoldsLease` - no path gives back the lease of a turn that still runs:
  not a failure whose cause is uncertain, an unconfirmed pause, a follow-up, a
  native turn or a settlement.
* `Isolation`, and stronger `LockSpec` - granted executions behave as a
  readers-writer lock of roots, whatever native turns were adopted beside them
  and whatever happens inside a group.
* `ScopesDisjoint`, `ResourcesExclusive`, `RunningOwnsResources` - reservations
  are exclusive in their namespace, at both levels of a group, through edits,
  pauses, continuations and merges, and what runs owns what it declared.
* `ReservationsLast` - a result that waits for review or integration keeps its
  reservations across every status change.
* `DoneByMerge` - a managed task becomes done only out of a merge under way.
* `BudgetKept` - dispatch never takes the repository over its budget, counting
  leases kept by lost connections.
* `ReworkMarks` - taking back an integrated result marks every started consumer.
* `GroupReviewComplete` - no group is reviewed, merged or delivered while a
  subtask of it is being reworked.
* `ExclusiveRuns` - an exclusive task that was asked to run is not overtaken
  for ever.

Of one execution:

* `JournalSpec` - starting turns implements `Journal`: a prompt is recorded before it
  is submitted and starts at most one turn, over lost answers and restarts.
* `NoBlindStart` - no start that the board waits for is carried out before the journal says what became of
  the others; without timeouts, which the journal records like refusals.
* `CreatedOnce` - a managed task gets one worktree and one thread.
* `LeaseCovers` - the board's turns run under the lease, also while their answer is
  outstanding or lost; `Attributed` - an operation is matched with the turn of its
  own prompt; both in the scenarios that `Orderly` admits, which have no timeouts.
* `PauseConfirmed` - when a pause is confirmed nothing runs and nothing starts, unless Codex carries out
  a start that had been given up.
* `Settles` - a task shown as running is settled in the end, whatever was lost, unless the user writes in
  the conversation or Codex starts something late.

Of merges:

* `PublishedOnlyVerified` - every move of the target by the board adds the present,
  approved result of a task, with evidence for exactly that commit and the present
  commands.
* `DoneIsIntegrated` - what is delivered is in the target, for good.
* `DoneIsIdle` - no integration ends a task whose next turn has begun.
* `OneRepair` - the board waits for one conflict repair at a time per repository, and no other runs unless a
  request timed out or a start came late.
* `Decided` - a queued result is integrated or stopped with a reason.

Of the others:

* `AcceptedForText` - a plan is accepted for the requirements the task has then, unless they
  were set back or told late; `OnlyHeldRuns` - a planning turn of the board runs only while its conversation
  holds the task back, unless it is started late; `Noticed` - the end of a planning turn is noticed.
* `NoCycle`, `DraftFits`, `DraftDecided` - dependencies never close a cycle; a draft is
  confirmed into the group it was made for; a draft ends.
* `AnsweredForReal`, `Reconciled` - what is recorded as answered has been, or its answer is in the
  task's queue or was dropped from it; a question answered in Codex does not stay pending.
* `OpenHeard` - a wish to open the panel is fulfilled, whatever the sidecar is doing.

Each property is violated by at least one plausible error in the code it is
about; the altered definitions stand beside the originals in the modules, marked
"Mutant".

### Where the code and its documentation disagree

Six runs end in a violation of what `src/README.md`, a comment or a test says:

* `barrier` - an exclusive task asked to run after a group has started, ranked
  before it, and the group's subtasks wait for each other for ever.  The
  fairness check exempts a task's own root, not a root that already executes.
* `retry` - a follow-up started during a merge leaves `blocked` beside a running
  turn; retrying the merge publishes it and releases the turn's lease.
* `missed` - a native turn on an integrated task that is over when it is first
  seen replaces the result without marking consumers.
* `restarted` - a restart settles an uncertain start without a run; the next start
  is matched with the turn of the one before, which releases its lease while it
  starts.
* `timedout` - a start that the renderer's timer gives up is recorded as refused
  (`parallel_runtime.py:131`), and its lease is given back while its turn runs.
* `detached` - the read of a repair's thread times out during recovery, the operation is blocked
  (`parallel_runtime.py:881`) and no longer holds the repository, and the next merge
  starts a second repair beside the first.

The passing runs exclude exactly what leads there: `pair` has no `merge_retry`,
`chain` no `missed`, and `drain` no group; `Attributed` states `Matched` without
restarts.  `components` does contain the steps of `detached`, and `execution` those of
`timedout`: what they check holds in spite of them, with the exceptions that the
properties state.

Other windows in which the code loses track were met while modelling.  They are
steps of the modules, and the properties or scenarios that leave them out say so:

* `Dispatch`: a consumer that is being started when its blocker is reworked has neither
  thread nor result yet and is not marked (`parallel_db.py:377`); it ends delivered on a
  result that is not.  `ReworkMarks` is about consumers that have one of the two.
* `Execution`, operation `impatient` (a user acts while the board awaits Codex about
  the same task): a continuation enqueued while a pause waits leaves a pending
  row of a task that is being stopped (`parallel_runtime.py:621`).  `PauseConfirmed`
  leaves these scenarios out, and `NoBlindStart` those with follow-ups besides (`Overlapping`): a
  continuation claimed while a follow-up is unanswered puts a second start under way.
* `Execution`, `Orderly`: the lease of a running turn can be lost where a start times out (run `timedout`) or is
  carried out after it was given up, where a user acts
  during a stop or a read, after a restart (run `restarted`), by two look-ups of one
  usage limit (`scheduler.py:1072`), by a follow-up whose answer is lost (`scheduler.py:439`), by a
  missed notification of a follow-up, whose start makes no run that `_adopt_turn` would
  recognise, and by a lost start that is found failed or stopped: `recover` has settled it,
  and the result releases the lease of the retry on its way.  `JournalSpec`, `CreatedOnce` and `Settles` hold in all of them.
* `Merge`, operation `impatient`: a retry or a pause while a repair that hit a usage
  limit is being started again gives two repairs (`parallel_runtime.py:584`, in spite
  of the comment at line 357); a pause during verification leaves `merging`, and a
  retry of the blocked merge may then publish and mark done while a resumed turn
  runs; a crash after publishing or before `merged()`, followed by rework, lets the
  recovery end the running task (`parallel_runtime.py:511`); the recovery of an old
  operation blocks a task that is already elsewhere.  No passing scenario contains it.
* `Merge`, review together with usage limits or lost answers: a repair that meets its
  usage limit waits (`waiting_quota`), its task is reworked, and the recovery that meets the
  limit once more blocks the task (`parallel_runtime.py:882`) whose new turn runs.
  The next recovery sets it to `merging` again (lines 866-868), and `publish_merge`
  publishes the commit whose approval the rework has withdrawn and marks the
  task done.  Without review the same steps end a task whose new turn runs, against `DoneIsIdle`.  It compares the commit with the recorded result, and nothing reads
  `approvedCommit`, which `complete` writes.  No passing scenario has review with `quota` or
  `lost`, or rework with them; the proofs say where they need it (`Steady`).
* `Merge`, restarts together with changed commands, retries and rework: a restart right after the
  publication, commands that are changed so that its evidence does not count, a retry that is
  verified with them and refused because the checkout is dirty, another retry with commands changed
  again, a second restart while they run, rework, and the second commands back: the recovery finds
  a recorded result in the target with evidence, and ends the task whose new turn runs (`parallel_runtime.py:511`), against `DoneIsIdle`.  TLC finds this with six moves and two
  restarts, more than `MergeScenarios` has.
* `Merge`, synchronisation: a completed turn that is settled again while its result is
  verified puts `mergeState` back to `queued` (`scheduler.py:760`); `publish_merge` then
  refuses the result and the integration is blocked although nothing is wrong with it,
  until a user retries it.  The scenario `Settling` of `components` contains this;
  `Decided` counts a blocked result as decided.
* `Merge`, timeouts: a timed-out start of a repair that is resumed after its usage limit
  blocks the operation in the same way as the read of run `detached`, and a start that is
  carried out late runs a repair that nobody waits for.  The second part of `OneRepair` leaves both out, as
  do `Patience` and `Prudent` in the proofs.
* `Planning`, late starts: `send` stops waiting for `turn/start` without withdrawing it
  (`planning.py:179-184`), and `plan_cancel` accepts such a conversation, finds no turn in it and
  releases `planHold` (`planning.py:97-121`).  A start that Codex carries out after that runs a
  turn of the canceled plan beside the task.  `OnlyHeldRuns` excepts it.
* `Planning`, requirements: `observe` and `plan_accept` compare the title and description recorded
  with the conversation with those of the task (`planning.py:254`, `89`), and not what the
  conversation was told.  Requirements that are edited before the conversation is told them and
  set back while it works confirm a plan made for others; so may a message that had been
  given up and reaches Codex late with older requirements than those told since.
  `AcceptedForText` excepts both (`task.back`, `told.late`).
* `Planning`, otherwise: a crash between confirming and releasing `planHold` leaves the task
  held, and an uncertain conversation that has no turn stays uncertain.  In the module a
  confirmation is one step.
* `Interactions`: an asynchronous answer whose confirmation is lost is asked for
  again and sent twice (`scheduler.py:507`), which `AnsweredForReal` allows; a
  request resolved while the connection is down stays pending, so `Reconciled` is
  about messages; an answer that waits in the queue of a task, recorded as given already
  (`scheduler.py:416`, `515`), is dropped when its start fails (`scheduler.py:1123`), by a pause
  and by cancel, and never reaches Codex.  `AnsweredForReal` counts what was dropped apart.  `components` has one message, so a second answer that
  finds the queue occupied is only in the proof of `AnswersReal`: with two messages TLC
  meets millions of states.
* `Launcher`: the watcher of an ended sidecar compares generations and takes the
  child in two steps; a restart in between makes it forget the new one
  (`src/src-tauri/src/main.rs:236`, in spite of the comment at line 306).  A stop that
  arrives before there is an injector is left to the deadline of twelve seconds.

### Bounds

Two roots suffice for every pairwise conflict (leases, scopes, resources); a
group of two subtasks and one outsider is the least board with both namespaces
and both levels of eligibility; three tasks in a row are the least with an
indirect consumer; four roots let an exclusive task stand between two parallel
ones, one of them retried without end.  One repository, one resource and
three paths (one inside another, one apart) cover the comparisons.  There are no
counters: all state of `Dispatch` is finite, and runs explore it without a depth
bound.

`Execution` needs two prompts for one to be taken for the other, two faults for a
fault during the reconciliation of another, and scenarios instead of everything at
once, each with the operations that meet: what is lost with attaching and restarts, stops with
resumption, follow-ups with pauses and with refusals, timeouts with refusals, pauses and
follow-ups, late starts with pauses, restarts and timeouts.  `Merge` has two tasks, the
least for a repair to be in another's way and for a target that moves by the board
itself, and one or two moves of anybody else, each of which forces a new
preparation.  `Planning`'s rooms give each optional event once, the start twice
where a second conversation matters, and the message twice where one is late.  `Drafts` has three subtasks (the least with a
cycle that is not direct), one draft (drafts do not meet but in the group) and three
edits; five edits were explored once, with 375,000 states, and its two invariant
properties are proved without bounds.  Two requests decide whether the run state
waits for the other, and two parts of a message whether answers are combined.  Two sidecars
are an old and a new one; two clicks the least repetition of a command.

The proofs have none of these bounds.

### Fairness

`FairSpec` assumes weak fairness of the loop's dispatch steps (the loop wakes at
every change and at least every five seconds), of the answer to a start
(`turn/start` has a timeout of 30 s), of a group's worktree, of the merge worker
(a coroutine that ends) and of the end of turns, which Codex ends.  Nothing is
assumed of users: a paused task may stay paused, and a result may wait for its
review for ever.  `drain` therefore checks boards without review.

The other components assume weak fairness of each coroutine, thread or worker that
the code has spawned (every request has a timeout), of Codex carrying out,
ending and notifying what it accepted, and of the loop.  Two assumptions are strong:
`Prepare(t)` of `Merge` and `Recover(i)` of `Planning`, because the one worker of a
repository and the one lock are given back and taken again by others for ever, and the loop comes round to
every row in each pass.  Nothing is assumed of users, of faults, of a
closed window, or of the menu.  In `Launcher` only the threads of a sidecar are
fair; an end of the process fulfils no wish, it forgets it.

## Proofs

Every theorem holds for all values of the constants.

| Module | Theorem | Statement |
|---|---|---|
| `DispatchProofs` | `AlwaysSound` | `Spec => []Sound(db)` |
| | `TypeCorrect` | `Spec => []TypeOK` |
| | `IsolationHolds` | `Spec => []Isolation` |
| | `ScopesStayDisjoint` | `Spec => []ScopesDisjoint` |
| | `ResourcesStayExclusive` | `Spec => []ResourcesExclusive` |
| | `AlwaysCoherent` | `Spec => []Coherent(db)` |
| | `RunningIsLeased` | `NoMergeRetry` implies `Spec => []RunningHoldsLease` |
| `DeliveryProofs` | `LockImplemented` | `Spec => LockSpec` |
| | `BudgetIsKept` | `Spec => BudgetKept` |
| | `MergeDelivers` | `Spec => DoneByMerge` |
| | `ReservationsKept` | `Spec => ReservationsLast` |
| | `ReviewIsComplete` | `Regular` implies `Spec => []GroupReviewComplete` |
| | `RunningIsOwner` | `Regular` implies `Spec => []RunningOwnsResources` |
| | `ReworksMark` | `Regular` implies `Spec => ReworkMarks` |
| `ExecutionProofs` | `Journaled` | `Spec => JournalSpec` |
| | `CreatedAtMostOnce` | `Spec => []CreatedOnce` |
| | `Typing` | `Spec => []TypeOK` |
| | `StartsKnowing` | `Spec => NoBlindStart` (of scenarios without timeouts) |
| | `PauseIsConfirmed` | `Spec => PauseConfirmed` |
| `CoverProofs` | `LeaseIsCovered` | `Spec => []LeaseCovers` |
| | `TurnsAttributed` | `Spec => []Attributed` |
| `MergeProofs` | `SoundAlways` | `Spec => []Sound` |
| | `DeliveredIsIntegrated` | `Spec => []DoneIsIntegrated` |
| | `RepairsAlone` | `Scenario \subseteq Scenarios` implies `Spec => []OneRepair` |
| | `PublishesVerified` | `Steady` implies `Spec => PublishedOnlyVerified` |
| | `IdlesWhenDone` | `Named` implies `Spec /\ left \in Prudents => DoneIsIdle` |
| | `MergeTyped` | `Scenario \subseteq Scenarios` implies `Spec => []TypeOK` |
| `PlanningProofs` | `PlanTyped` | `Spec => []TypeOK` |
| | `PlansHeld` | `Spec => []OnlyHeldRuns` |
| | `PlansAccepted` | `Spec => AcceptedForText` |
| `InteractionsProofs` | `AnswersReal` | `Apart` implies `Spec => []AnsweredForReal` |
| | `InteractionsTyped` | `Apart` implies `Spec => []TypeOK` |
| `ComponentProofs` | `NoDependencyCycle` | `Spec => []NoCycle` |
| | `DraftsFit` | `Spec => DraftFits` |
| | `DraftsTyped` | `Spec => []TypeOK` |
| | `ComponentsIntegrate` | `ComponentsSpec => []DoneIsIntegrated` |
| | `ComponentsRepairAlone` | `Scenario \subseteq Scenarios` implies `ComponentsSpec => []OneRepair` |
| | `ComponentsPublishVerified` | `Steady` implies `ComponentsSpec => PublishedOnlyVerified` |
| | `ComponentsIdleWhenDone` | `Named` implies `ComponentsSpec /\ scenario \in Prudents => DoneIsIdle` |
| | `ComponentsHoldRuns` | `ComponentsSpec => []OnlyHeldRuns` |
| | `ComponentsAcceptForText` | `ComponentsSpec => AcceptedForText` |
| | `ComponentsAnswerForReal` | `Apart` implies `ComponentsSpec => []AnsweredForReal` |
| | `ComponentsTyped` | `Scenario \subseteq Scenarios`, `Apart` and `NumberedSidecars` imply `ComponentsSpec => []AllTyped` |

With these every safety property that a passing run checks is proved.

### What is assumed of the constants

* `TaskAssumption`: one level of nesting, subtasks in the repository of their group,
  groups without scopes or resources of their own, which
  `validate_parallel_options` enforces; `CanDoAssumption`: a bound names operations.
* `BudgetAssumption`: the tasks are finitely many and budgets are natural numbers.
  A table is finite, and `update_project` takes integers from 0 to 64 (`db.py:639`).  Only
  the counting of leases in `DeliveryProofs` uses it.
* `DependencyAssumption`: blockers and consumers are subtasks of one group, or
  none of them is a subtask, and nothing is its own consumer, however indirect; this is what
  `replace_dependencies` (`db.py:1070-1127`) refuses to violate and what
  `ComponentProofs` proves of edits.  Only what is said about marks and about complete reviews uses it.
* `NoMergeRetry` and `NoMissed` say that `CanDo` gives no task the operation
  `merge_retry`, or `missed`; `Regular` is both.  They are bounds on the environment and not
  on the board, true of the boards `pair`, `group`, `chain` and `drain`.  They cannot be
  dropped: `RunningHoldsLease` fails with the first operation (run `retry`), `ReworkMarks`
  with the second (run `missed`).
* `Steady` says of `Merge`'s `Scenario` that scenarios with review have neither `lost`, `timeout` nor
  `quota`, which all of `MergeScenarios` obey.  It cannot be dropped: a window of `Merge` above is the
  counterexample.  Numbers of turns, moves and restarts are arbitrary.
* `left \in Prudents` says of a behaviour that its scenario is without `impatient`, `timeout` and `late`, does
  not have `quota` or `lost` together with rework or a pause, nor restarts together with changed
  commands.  All scenarios of `MergeScenarios` but `TimedOut` are of this kind, and TLC checks
  `DoneIsIdle` in `TimedOut` as well.  Each of the parts excludes a window of `Merge` above, or run
  `detached`; it may exclude more than these need.  `Named`
  says that no task has the name of one of the three other authors of changes (`push`, `touch`, `repair`).
* `Patience`, that a scenario is without `impatient`, `timeout` and `late`, is no assumption but
  stands inside `OneRepair` and the invariant of `MergeProofs`.
* `ExecutionAssumption` types the scenarios of `Execution`: which operations may happen, and as
  many prompts, stops, native turns and faults as one likes.
* `Apart` says of `Interactions` that no request is a message: the board creates them with
  different kinds and takes different handlers for them.
* `Scenarios` types the scenarios of `Merge`: operations that may happen, and numbers.
  `NumberedSidecars` says of `Launcher` that `Pids` is `1..n` for some positive `n`, which is
  how the module numbers the sidecars that it starts.

### DispatchProofs

`Sound` is the conjunction of the four invariants, written about tables instead
of the variable, because handlers compose store operations and an intermediate
record of tables is not a state.  None of the four is inductive alone: the disjointness
steps need the types, and a claim needs scopes and leases at once.  The argument:

1. `Narrows(s, n)`: `n` has no lease or reservation that `s` has not.  A well-typed
   `n` that narrows a sound `s` is sound.  Most operations narrow: `Put`, `Release`,
   `ReleaseAll`, `FinishQueue`, `Moved`, marking, pausing.
2. `ReserveScopes`, `Reserve` take reservations that `ScopesFree` and
   `ResourcesFree` allow; the two owners a subtask writes are in different
   namespaces (`OwnersApart`).
3. `GrantIsolated`: a lease that `LeasesAdmit` allows keeps granted roots apart;
   a forced one is outside `Isolation`.
4. Every action is a composition of these, one step of the proof per action.

Its second part begins with what each operation of the store does to one task and leaves alone in the others:
for `Put`, `Release`, `Moved`, `Failed`, `Settled`, `Reserve`, `Claimed`, `Enqueued`, `Marked`,
`Reopened`, `Adopted`, the group operations and the integration, a lemma `...At` gives the row, the queue
state, the lease and the reservations afterwards in terms of those before.
`Only(s, n, t)` is a transaction about one task.  The proofs after these lemmas expand no operation of the
store again.

`Coherent` is `Sound` and, of every row with its queue state and its lease:

* `IdleRow` - a group is never queued, leased or given a turn;
* `ResultRow` - only a managed task with a result and a thread is merged, and what is done is
  not under way (no hypothesis);
* `LeasedRow` (under `NoMergeRetry`) - who starts or runs has a lease and is in progress,
  and a lease never goes with a result that is reviewed, queued, merging or merged;
* `MergedRow` (under `Regular`) - what is merged is closed and does not wait to run.

`RunningHoldsLease` is the first part of `LeasedRow`.  It is not inductive alone: a merge
ends with a release, and that no turn runs then is the fourth part; that no lease
comes to a result under way needs the queue (`MergedRow`), which needs the row of the
status.  The hypotheses stand inside the invariant, so that what holds without them is
proved without them.

### DeliveryProofs

The refinement maps a task to what it holds, `Hold(s, t)`: its lease unless that was
forced.  A step of the board is a `LockStep`: it `Lets` go (each task holds what it
held, or nothing), or one task `Enters` while the others let go, and the entering lease was admitted by
`LeasesAdmit`.  Handlers that first give back and then claim are composed with
`LetsThrough` and `QuietEnters`.  `LockMaps` takes a `LockStep` to a step or a stutter of `RepoLock`,
and `Sound` gives the condition of an upgrade.  `BudgetKept` is the other conjunct of
admission: the leases of the repository are at most those that `LeasesAdmit` counted, and
one.

Each step of the board is described, action by action, by what it does to one task at a
time: reservations of a result under way are `Durable` and a merge is the only way to done;
leases and open groups keep `Owning` their resources; and what was merged and not stale is still
`Valid`, except in a step that `Reworks` one task, which marks every started consumer and
reopens the group.  `DoneByMerge`, `ReservationsLast` and `ReworkMarks` follow
from these descriptions.  The two invariants need an inductive one, `Delivering`:
`Coherent`, every reviewed group is `Integrated` (`Complete`), and every holder and every open
group covers what it declared (`Owned`).  `Complete` alone does not survive a rework of a subtask
whose consumer is in another group; `ConsumersApart` excludes that by
`DependencyAssumption`.  `Owned` needs the open groups, because a subtask is dispatched
against reservations that its group made earlier.

### ExecutionProofs

What makes `JournalSpec` hold is where a prompt is on its way: in the queue, with the worker
or the follow-up that has not asked yet, in the journal, or carried by a request to Codex.  A
prompt must never be in two of the first three places so that both may ask for a turn of it.
The inductive invariant `IInv` says, besides types:

* `Ordered` - a prompt still to be recorded is in no journal entry (`First`), worker
  and follow-up never carry the same one, and what waits in the queue is `Fresh`, or the task is
  `Busy`, so that `Dispatch` cannot claim it.  `Threadless` is about
  the path of `recover` that begins again (`parallel_runtime.py:793`): without a thread nothing has been recorded.
  `Numbered` makes the prompts of users new ones;
* `Underway` - the prompts of turns are in the journal, and a prompt whose request is not yet carried out
  has no turn, whether the board waits for it or has given it up (`codex.late`): this is why a late start is
  still the only one of its prompt;
* `Created` - while a worktree or thread is being made there is none, and what was never asked
  for does not exist.

That `Busy` excuses an old prompt in the queue is what the code relies on in `recover`, where the row
may still be pending beside the worker that has its prompt, and the reason why a
pause that is under way needs a case of its own: it takes the lease back, so the
queue has to be finished first (`Ready`, `Pausing`).

Most of the thirty handlers only write rows and end coroutines: `Calm` says so, operator by operator
(`FailedSane`, `ResultSane`, `RestoredSane`, `SyncedSane`, `RecoveredSane` ...), and calm
writes compose (`SaneThrough`).  `Steady` adds that the worker may go on towards the thread with its
prompt.  What is steady keeps the invariant (`SteadyOrdered`, `SteadyUnderway`); the steps
that do more are those of a prompt itself: it is asked for (`EnqueuedPrepared`), claimed
(`ClaimedPrepared`), taken by a worker (`SpawnPrepared`) or a follow-up
(`FollowingPrepared`), recorded (`SubmitStep`) and started (`CodexStartsStep`).
Each action is shown to `Step`: the invariant is kept and the journal and the
turns move as `Journal` allows (`Moves`).

`NoBlindStart` and `PauseConfirmed` need a second invariant, `GInv`, that uses the first:

* `OneStart` - unless users interfere with an unanswered follow-up (`Solo`), a follow-up is
  under way alone: no prompt waits, no worker has one, and the task is marked as
  starting, which keeps everybody else from claiming it;
* `OthersClosed` - while a start is on its way to Codex, every other entry of the journal
  has its turn or was settled as blocked.  This is kept by timeouts too, but only without them
  does blocked mean refused or stopped by a confirmed pause, and so `NoBlindStart` speaks of those
  scenarios alone.  It holds because whoever claims a task has
  been through `UncertainStart`, and what has a turn keeps it (`Closing`);
* `PauseHolds` - a pause that has begun is not undone and nothing starts during it, also nothing that was
  given up, as Codex starts nothing late in these scenarios; when it is
  applied no turn of the board is active, because all that `StopCheck` accepted has ended and
  Codex runs one turn at a time (`LastActive`).

`PauseHolds` cannot be had without the others: a pause that finds no turn but an
uncertain start waits for it to be settled.  Three windows were found because
these proofs failed, and the statements now name them: `Overlapping`; a watcher that ends does
not take the task off the starting ones, which `Executing` models; and two more
cases that `Orderly` leaves out.

### CoverProofs

That a lease covers what runs relates what the board knows to what Codex does and has not told.
`CInv` says so for the scenarios that `Orderly` admits (`Tidy`, and no turn of the user's own);
each of its parts is needed by a step that could take a lease back or match a turn:

* `Leased` - while a turn runs, or a notification about it is on its way (Codex is not `Over`), the
  task is in progress and holds its lease.  The turn alone would not do: its end releases
  the lease of whoever holds it when the end is heard, which must be nobody else;
* `Eager`, `Halted` - so whoever is about to ask for a turn, and a stop that is applied, act when Codex
  is over; neither begins beside the other;
* `Heard` - every turn but the latest has a run, and the latest is still to be heard of, which
  is how `_adopt_turn` and the loop tell news from what they have handled;
* `Entered` - the latest entry of the journal is about the latest turn, or about the one to come
  (`Tracked`), and the request under way is that entry's (`Asked`);
* `Certain`, `Waiting` - only the latest entry may be uncertain, and a prompt that waits
  cannot be claimed while something may run;
* `Reads` - what the loop has read and not yet applied is still so or is known: `Listed` for
  `_sync_threads`, `Matching` for `recover`.

A lost answer (`Loses`) is the hard case: the worker fails while its turn runs, a retry may already
be on its way when the loop finds the lost turn, and only because that turn can then have
nothing but completed does its result leave the retry's lease alone (`FoundCovers`,
`ResultReviewed`).  This is why `Orderly` keeps lost answers apart from refusals and stops.

What writes the row has one lemma for each kind of write, free of the variables of the module (`ReportedCovers`,
`TakenCovers`, `QueueCovers`, `StartingCovers`, `AnsweredCovers`, `FailedCovers`, `StopsCovers` ...);
an action then shows which of them its write is, and `NextCovered` has one line per action.
That `Dispatch`, `QuotaWait`, `Crash` and `CodexStartsLate` have no line of their own is proved and not assumed
(`DispatchNever`, `QuotaNever`, `CrashNever`, `LateNever`): in these scenarios a waiting prompt is claimed by the
request itself.  TLC has checked `CInv` on scenarios of both kinds,
with lost answers and without.

### MergeProofs

Of the worker, the operations and the tasks an invariant says (`Inv`, no hypothesis):

* `OneCurrent` - at most one operation is in hand or interrupted, and its task is not
  done.  This is why a repair is alone, and it rests on the guard of `merge_task` that
  refuses while another repair may run, on recovery before dispatch, and on `Approve`, which
  ends what may be retried.  It says what the board waits for, whatever runs: the first part of
  `OneRepair` needs nothing else.
* `TaskFits` - a done task is merged, what is merged is in the target, what waits for
  integration has a result; `OpFits` - a recorded result contains the source.

Under `Patience`, `Repairing`: a repair that runs has a thread and a state that holds
the repository, wherever the worker is, and no start is still to come.  After a timeout this is false (run
`detached`), and `Sound` does not say it.  Under `Steady`, `Reviewing`: what is queued or
merging is approved, and so is what is blocked as long as its operation may go on,
because recovery sets it to merging again.  `Good` is the three together.

The handlers are compositions of a few operators, so the proof follows the
calls: `EndsGood` (an operation and its task are written, the worker is done), `MergedGood`,
`PublishGood`, then `SecondPassGood`, `FirstPassGood`, `ContinuedGood`,
`ResolveGood`, `IntegratesGood`.  Each keeps `Good`, and its effect on the target is
described by `Adds`, which becomes `PublishedOnlyVerified`; `Before` carries what was
added through the writes that precede it.  What users and Codex do writes one row or
ends operations (`RowGood`, `CalmGood`).  `SoundStep` has one case for each action.

That no task is ended while its turn runs is about a write that reads nothing of the turn:
`Merged` sets `done` whatever the row says.  So the invariant (`Idling`) says why the worker
cannot come there while a turn runs, and it is about commits:

* `TaskIdle` - a task that waits for its integration, and one that is idle and not done, has a change that
  the target does not have (`Missing`), or a publication that has landed and was
  interrupted (`LandedOf`); a task whose turn runs does not wait for an integration, except blocked.
* `OpIdle` - what goes on is not delivered yet or has landed, and if a turn of its task runs,
  the task has no integration (`Due`), which `StillWanted` reads; a recorded
  publication has evidence and an idle task (`Shown`); a repair that is not completed leaves its worktree
  unclean, and has a thread if it has a turn (`Mended`); a candidate holds no change of a task that its source and its
  target do not have.
* `Placed` - where the worker is, its operation has the thread and the worktree that the step
  needs, and only a recovery that reads has one that has landed.

A turn that ends makes a commit with a change that no commit has (`Past`), so the next integration is missing;
one that is published ends the operation and the missing change of this task, and no other's
(`MergingIdle`).  A failed integration keeps its missing change (`EndingIdle`).  The lemmas follow the calls as
before: `FailsIdle`, `PublishIdle`, `SecondPassIdle`, `FirstPassIdle`, `ContinuedIdle`,
`IntegratesIdle`, then one for each action.  The restart in the middle of a publication
(`CrashPublishingIdle`) and the read that follows it (`ReadLanded`, `ReadMissing`) need the most:
the repository has changed and no row says so.

### PlanningProofs

`Good` says, of the task, its operations, their turns, the lock and the waiting worker:

* `Row` - an operation is over or holds the task back, never both; what it proposes is a
  completed turn with a plan; if requirements are never set back, what the last turn of a conversation was
  told in time is between those recorded of the operation and those that the task has now (`Timely`); and a turn of
  the board runs only if the operation holds the task back;
* `Holds` - who holds the lock for a conversation that is not over is of the
  conversation that holds the task back, whichever call was interrupted; who is about to send
  carries requirements no newer than the task's (`Fresh`);
* `Waits` - the start that waits for the lock is of a conversation without a thread.

The first gives `OnlyHeldRuns`.  It is not inductive alone: the handlers read before the lock
and write after several requests, so that the second part is what a request finds when it ends.
That an accepted plan is for the present requirements needs that those of the last turn are
never newer than the task's and never older than those of the operation, which an edit between the
proposal and its acceptance must not have passed; a version that may be set back has no order, and a message
that comes late may carry any earlier one.  Every request that fails is described by `Unanswered`: carried
out, owed, or neither.  Each action is described by what it changes,
one operation with its turns (`Change`), one conversation added or only the lock, and
`NextFine` has one lemma per action.  No assumption is needed: the bounds of
`Room` are arbitrary.

### InteractionsProofs

`Agreed` says that nobody is ahead of Codex: every reply that the board has recorded is in the history,
every request it calls resolved is closed there, and every question it calls answered has
its replies, waits in the queue, or was dropped from it (`Fits`); the queue has one place
(`QueueOK`); the events under way are true (`Truthful`); and an answer that was sent is an answer (`UserOK`).  The
property is one conjunct and not inductive: an event is recorded long after it was sent, and
an answer when its request returns.  What makes `Agreed` inductive is that Codex
only grows (`Grows`): a closed request is not opened again and a reply is not taken back.

`Hydrate` records a history with a function defined by recursion, of which two
things are needed: that it exists (`RecordedExists`, `HydratedIs`), and that every value
of it agrees with Codex (`HydratedOK`).  Both go by the least counterexample, which `NatMin` takes from
the library's theorem that `<` is well-founded on the naturals.

### ComponentProofs

The proofs about `Drafts` need no assumption: nodes, requests and the number of edits are arbitrary,
infinite sets included.  The inductive invariant `IInv` has three parts: the shape
(`Typed`), `NoCycle`, and for every draft that may still be confirmed (`Fit`): if its
context is the present one, then what it was made for is present too.  `Fit` is not
obvious because edits can be undone: the versions of the group, of the base and of
each subtask only grow, a change of the edges raises the version of the task they lead to, a removed
subtask never returns, and so a context that has once become another never
becomes the same again (`NewVersionFits`, `NewNumberFits`).  `NoCycle` rests on three
lemmas about graphs: fewer edges keep it, edges into one task that does not reach
its new blockers keep it, and a second acyclic graph on other nodes keeps it
(`FewerEdges`, `ReplaceKeepsAcyclic`, `BesideKeepsAcyclic`).
`DraftFits` then follows from the guard of `Confirm` and the invariant.

These theorems and those of the other components are carried over to `ComponentsSpec`: a step
of the composition is a step of one
component and leaves the variables of the others alone, so its behaviours are behaviours of
each (`MergeImplemented`, `PlanningImplemented`, `DraftsImplemented`, `InteractionsImplemented`,
`LauncherImplemented`).

The module also holds the one proof about `Launcher`.  `Launched` says that the program manages
a sidecar that exists or none, that a broken connection of a sidecar is one of its connections, that a wish
is for a window that is open, and that an ended sidecar has no connections.  The step that needs
a proof of its own is the start (`StartsLaunched`), which takes the least number that is free.

### Only model-checked

Liveness (`ExclusiveRuns`, `Settles`, `Decided`, `Noticed`, `DraftDecided`, `Reconciled`,
`OpenHeard`) is out of the proof system's reach, and so is `ENABLED`.

## Plan

Done: the core (`TaskStore`, `Dispatch`, `RepoLock`) with its proofs; one
execution with restarts (`Execution`, `Journal`) and the proof that it keeps its journal; integration (`Merge` with its proofs); plans and
drafts (`Planning`, `Drafts` with their proofs); `Interactions`; `Launcher`.

To model: the waiters of the app-server client in the isolated stdio mode, the
event bus, the delivery of a whole group as commits.

## Not modelled

* The isolated stdio mode: its waiters for turns and answers, and its restart, which
  resumes turns itself.  The diagnostic mode shares the handlers but not the
  connection, and needs a model of its own.
* Steering an active turn, attachments, activity and history paging, settings,
  archiving: no decision about executing, merging or answering depends on them.
* `outside_scopes`, starting branches, worktree ownership: data of Git that the
  commits as sets do not have.
* Request identifiers (`app.py`), the event bus, the reader loop and framing of the
  client.
* The displayed status of the launcher and the DevTools protocol.
* Errors, skill deployment, compatibility probes, platform services, the web
  interface, packaging and scripts: I/O, presentation and tooling that hold no state
  the rest depends on.

## Running

    tlc -workers 2 -config pair.cfg MCDispatch
    tlc -workers 2 -config execution.cfg MCExecution
    tlc -workers 2 -config components.cfg MCComponents
    tlc -workers 2 -config detached.cfg MCMerge
    tlapm DispatchProofs.tla
    tlapm DeliveryProofs.tla
    tlapm ExecutionProofs.tla
    tlapm CoverProofs.tla
    tlapm MergeProofs.tla
    tlapm PlanningProofs.tla
    tlapm InteractionsProofs.tla
    tlapm ComponentProofs.tla

`pair`, `group` and `execution` take about a minute each,
`components` three.  Of the proofs, `ComponentProofs` takes about a minute, `CoverProofs` and
`MergeProofs` ten or more, and the other modules a few minutes each.
