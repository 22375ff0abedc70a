----------------------------- MODULE Interactions -----------------------------
(***************************************************************************)
(* The questions and approvals of one Codex conversation, which its user may    *)
(* answer in Codex as well as on the board, over a desktop connection that       *)
(* drops what happens while it is down.                                            *)
(***************************************************************************)
EXTENDS Integers, Sequences, FiniteSets

CONSTANTS
  Requests, \* requests of the turn that block it: approvals and questions
  Messages, \* asynchronous questions, which do not block the turn
  Parts,    \* the single questions of an asynchronous message
  Users,    \* requests to the board that can be answered at a time
  Casts     \* bound: which items are made in a behaviour, and how many faults happen:
            \* disconnections, restarts of the backend, answers that are lost or dropped,
            \* cancellations

VARIABLES
  codex,  \* the conversation: its history, the requests open and made, the cast
  link,   \* the connection: up, with the conversation registered, the notifications under
          \* way, the requests seen open
  board,  \* the recorded interactions, the run state, the queue and what was dropped from it,
          \* the answers given up that Codex may still get, the history being read
  user,   \* the answers being given on the board
  left    \* the faults that are left
vars == <<codex, link, board, user, left>>

Items == Requests \cup Messages
\* What is recorded of an interaction when its answer begins stands for its version.
NoAnswer == [pc |-> "idle", item |-> 0, seen |-> {}]
Fault == left > 0 /\ left' = left - 1
Free == UNCHANGED left

Init ==
  /\ \E cast \in Casts :
       /\ codex = [history |-> <<>>, open |-> {}, made |-> {}, cast |-> cast.items]
       /\ left = cast.faults
  /\ link = [up |-> TRUE, registered |-> TRUE, events |-> <<>>, known |-> {}]
  /\ board = [row |-> [x \in Items |-> [status |-> "none", given |-> {}]],
              waits |-> FALSE, queued |-> {}, dropped |-> {}, late |-> {}, read |-> 0,
              over |-> FALSE]
  /\ user = [u \in Users |-> NoAnswer]

Event(kind, item, parts) == [kind |-> kind, item |-> item, parts |-> parts]
\* The renderer hands on what it sees, unless the launcher is not attached to it or
\* the backend does not know the conversation.
Tell(event) ==
  link' = IF link.up /\ link.registered THEN [link EXCEPT !.events = Append(@, event)]
          ELSE link
Say(entry) ==
  /\ codex' = [codex EXCEPT !.history = Append(@, entry)]
  /\ Tell(entry)

Replied(history, m) ==
  UNION {history[k].parts : k \in {j \in 1..Len(history) :
                                     history[j].kind = "reply" /\ history[j].item = m}}
Asked(m) == Event("ask", m, {}) \in {codex.history[k] : k \in 1..Len(codex.history)}
Answered(m) == Replied(codex.history, m) = Parts
-----------------------------------------------------------------------------
(* Codex and its user.                                                      *)

Ask(m) ==
  /\ m \in codex.cast /\ ~Asked(m) /\ Say(Event("ask", m, {}))
  /\ UNCHANGED <<board, user>> /\ Free

\* Codex lets its user answer the questions of a message one by one.
NativeReply(m, part) ==
  /\ Asked(m) /\ part \notin Replied(codex.history, m) /\ Say(Event("reply", m, {part}))
  /\ UNCHANGED <<board, user>> /\ Free

Require(r) ==
  /\ r \in codex.cast \ codex.made
  /\ codex' = [codex EXCEPT !.made = @ \cup {r}, !.open = @ \cup {r}]
  /\ Tell(Event("request", r, {}))
  /\ UNCHANGED <<board, user>> /\ Free

NativeResolve(r) ==
  /\ r \in codex.open
  /\ codex' = [codex EXCEPT !.open = @ \ {r}]
  /\ Tell(Event("resolved", r, {}))
  /\ UNCHANGED <<board, user>> /\ Free
-----------------------------------------------------------------------------
(* What the board records.                                                  *)

Pending(b) == {x \in Items : b.row[x].status = "pending"}
\* resolve_interaction and create_interaction of the database.
Close(b, x, status) == [b EXCEPT !.row[x].status = status]
Open(b, x) == IF b.row[x].status = "none" THEN [b EXCEPT !.row[x].status = "pending"] ELSE b
Goes(b) == [b EXCEPT !.waits = @ /\ Pending(b) # {}]

\* Mutant: only what the last message answers is remembered.
CombinedLast(given, parts) == parts
Combined(given, parts) == given \cup parts

\* record_questions, of a question or of a reply to one.
Record(b, event) ==
  LET m == event.item
      given == Combined(b.row[m].given, event.parts)
      known == [b EXCEPT !.row[m].given = given]
  IN IF event.kind = "ask" THEN Open(b, m)
     ELSE IF b.row[m].status # "pending" THEN b
     ELSE IF given = Parts THEN Close(known, m, "resolved")
     ELSE known

\* A notification, through _receive to the handler of the scheduler.
Deliver ==
  LET event == Head(link.events)
      x == event.item
      fresh == x \notin link.known
      rest == [link EXCEPT !.events = Tail(@)]
  IN
  /\ link.events # <<>>
  /\ CASE event.kind = "request" ->
            /\ link' = [rest EXCEPT !.known = @ \cup {x}]
            /\ board' = IF fresh /\ board.row[x].status = "none"
                          THEN [Open(board, x) EXCEPT !.waits = TRUE]
                        ELSE board
       [] event.kind = "resolved" ->
            /\ link' = [rest EXCEPT !.known = @ \ {x}]
            /\ board' = Goes(IF board.row[x].status = "pending"
                               THEN Close(board, x, "resolved") ELSE board)
       [] OTHER -> link' = rest /\ board' = Record(board, event)
  /\ UNCHANGED <<codex, user>> /\ Free

\* hydrate_activity, which _sync_threads repeats: the history is read, and then recorded.
Read ==
  /\ link.up /\ board.read = 0
  /\ link' = [link EXCEPT !.registered = TRUE]
  /\ board' = [board EXCEPT !.read = Len(codex.history)]
  /\ UNCHANGED <<codex, user>> /\ Free

Hydrated(b, history) ==
  LET f[k \in 0..Len(history)] == IF k = 0 THEN b ELSE Record(f[k - 1], history[k])
  IN f[Len(history)]

Hydrate ==
  /\ board.read # 0
  /\ board' = [Hydrated(board, SubSeq(codex.history, 1, board.read)) EXCEPT !.read = 0]
  /\ UNCHANGED <<codex, link, user>> /\ Free
-----------------------------------------------------------------------------
(* Answers on the board.                                                    *)

At(u, pc) == user[u].pc = pc
Turn(u, pc) == user' = [user EXCEPT ![u].pc = pc]
Over(u) == user' = [user EXCEPT ![u] = NoAnswer]
\* Answers to asynchronous questions are given one at a time.
Locked == \E u \in Users : user[u].pc # "idle" /\ user[u].item \in Messages

\* resolve_interaction and _resolve_async_question up to their first await.
Answer(u, x) ==
  /\ At(u, "idle") /\ board.row[x].status = "pending" /\ ~board.over
  /\ IF x \in Requests THEN x \in link.known ELSE ~Locked
  /\ user' = [user EXCEPT ![u] = [pc |-> "send", item |-> x, seen |-> board.row[x].given]]
  /\ UNCHANGED <<codex, link, board>> /\ Free

\* The answer gets to Codex, which ignores it if it has closed the request.
Reach(x) ==
  IF x \in Messages THEN Say(Event("reply", x, Parts))
  ELSE IF x \in codex.open
    THEN codex' = [codex EXCEPT !.open = @ \ {x}] /\ Tell(Event("resolved", x, {}))
  ELSE UNCHANGED <<codex, link>>

Send(u) ==
  /\ At(u, "send") /\ link.up
  /\ Reach(user[u].item) /\ Turn(u, "sent")
  /\ UNCHANGED board /\ Free

\* A follow-up that cannot start yet waits in the queue of the task, which has one place.
Enqueue(u) ==
  /\ At(u, "send") /\ user[u].item \in Messages /\ link.up /\ board.queued = {}
  /\ board' = [board EXCEPT !.queued = {user[u].item}]
  /\ Turn(u, "sent")
  /\ UNCHANGED <<codex, link>> /\ Free

StartQueued(m) ==
  /\ m \in board.queued /\ link.up
  /\ board' = [board EXCEPT !.queued = @ \ {m}]
  /\ Say(Event("reply", m, Parts))
  /\ UNCHANGED user /\ Free

GivenUp(b, x) == [b EXCEPT !.late = @ \cup {x}]

\* The turn of a queued answer is refused, fails or is given up, or the task is paused: the
\* answer is dropped, whatever is recorded of the question.
DropQueued(m) ==
  LET b == [board EXCEPT !.queued = @ \ {m}, !.dropped = @ \cup {m}] IN
  /\ Fault /\ m \in board.queued
  /\ board' \in {b, GivenUp(b, m)}
  /\ UNCHANGED <<codex, link, user>>

\* Mutant: an answer that failed is recorded as given.
FailedRecorded(b, x) == Close(b, x, "resolved")
Failed(b, x) == b

\* Nothing is sent, or not yet, or the confirmation of what was sent is lost.
Fail(u) ==
  LET x == user[u].item
      full == x \in Messages /\ board.queued # {}
  IN
  /\ At(u, "send") /\ Over(u)
  /\ \/ Fault /\ UNCHANGED <<codex, link>> /\ board' = Failed(board, x)
     \/ Fault /\ UNCHANGED <<codex, link>> /\ board' = Failed(GivenUp(board, x), x)
     \/ Fault /\ link.up /\ Reach(x) /\ board' = Failed(board, x)
     \/ Free /\ (~link.up \/ full) /\ UNCHANGED <<codex, link>> /\ board' = Failed(board, x)

\* Codex gets an answer that the board has given up.
Belated(x) ==
  /\ x \in board.late
  /\ board' = [board EXCEPT !.late = @ \ {x}]
  /\ Reach(x)
  /\ UNCHANGED user /\ Free

\* The answer is recorded unless that of Codex is already there.
Return(u) ==
  LET x == user[u].item IN
  /\ At(u, "sent")
  /\ board' = IF board.row[x].status # "pending" \/ board.row[x].given # user[u].seen
                THEN board
              ELSE IF x \in Requests THEN Goes(Close(board, x, "resolved"))
              ELSE Close(board, x, "resolved")
  /\ Over(u)
  /\ UNCHANGED <<codex, link>> /\ Free

Dismiss(m) ==
  /\ ~Locked /\ board.row[m].status = "pending"
  /\ board' = Close(board, m, "canceled")
  /\ Fault /\ UNCHANGED <<codex, link, user>>

CloseAll(b, items, status) ==
  [b EXCEPT !.row = [x \in Items |-> IF x \in items /\ b.row[x].status = "pending"
                                       THEN [b.row[x] EXCEPT !.status = status]
                                     ELSE b.row[x]]]

\* The task is canceled: its requests are, its turn is interrupted, its queue dropped.
Cancel ==
  /\ Fault /\ ~board.over /\ link.up
  /\ board' = [CloseAll(board, Items, "canceled") EXCEPT
                 !.over = TRUE, !.waits = FALSE, !.queued = {}, !.dropped = @ \cup board.queued]
  /\ codex' = [codex EXCEPT !.open = {}]
  /\ UNCHANGED <<link, user>>
-----------------------------------------------------------------------------
(* The connection and the backend.                                          *)

Disconnect ==
  /\ Fault /\ link.up
  /\ link' = [link EXCEPT !.up = FALSE]
  /\ board' = [board EXCEPT !.read = 0]
  /\ UNCHANGED <<codex, user>>

Connect ==
  /\ ~link.up /\ link' = [link EXCEPT !.up = TRUE]
  /\ UNCHANGED <<codex, board, user>> /\ Free

\* _recover closes the requests, which the next process cannot tell from others.
Restart ==
  /\ Fault
  /\ link' = [up |-> FALSE, registered |-> FALSE, events |-> <<>>, known |-> {}]
  /\ board' = [CloseAll(board, Requests, "canceled") EXCEPT !.read = 0]
  /\ user' = [u \in Users |-> NoAnswer]
  /\ UNCHANGED codex

Next ==
  \/ \E m \in Messages : Ask(m) \/ StartQueued(m) \/ DropQueued(m) \/ Dismiss(m)
  \/ \E m \in Messages, part \in Parts : NativeReply(m, part)
  \/ \E r \in Requests : Require(r) \/ NativeResolve(r)
  \/ \E u \in Users : Send(u) \/ Enqueue(u) \/ Fail(u) \/ Return(u)
  \/ \E u \in Users, x \in Items : Answer(u, x)
  \/ \E x \in Items : Belated(x)
  \/ Deliver \/ Read \/ Hydrate \/ Cancel \/ Disconnect \/ Connect \/ Restart

Spec == Init /\ [][Next]_vars

\* The launcher attaches again, the history is read again, and what runs goes on.
Fairness ==
  /\ WF_vars(Connect) /\ WF_vars(Read) /\ WF_vars(Hydrate) /\ WF_vars(Deliver)
-----------------------------------------------------------------------------
TypeOK ==
  /\ codex.open \subseteq codex.made /\ link.known \subseteq codex.made
  /\ board.read \in 0..Len(codex.history) /\ board.queued \subseteq Messages
  /\ (\A m, n \in board.queued : m = n) /\ board.dropped \subseteq Messages
  /\ \A x \in Items : board.row[x].status \in {"none", "pending", "resolved", "canceled"}
  /\ \A x \in Items : board.row[x].given \subseteq Parts

\* What the board calls answered has been answered: the request is closed in Codex, and
\* every question of a message has a reply in the history, or its answer is in the queue of
\* the task, or was there and has been dropped with the turn that it was to start. No answer
\* is lost in another way.
AnsweredForReal ==
  \A x \in Items : board.row[x].status = "resolved" =>
    IF x \in Requests THEN x \in codex.made \ codex.open
    ELSE Answered(x) \/ x \in board.queued \cup board.dropped

\* Answers are reconciled: a question that was answered in its conversation, wherever and
\* whatever notification was lost, is not left pending on the board.
Reconciled == \A m \in Messages :
  Answered(m) ~> board.row[m].status \in {"resolved", "canceled"}
=============================================================================
