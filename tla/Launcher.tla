------------------------------- MODULE Launcher -------------------------------
(***************************************************************************)
(* The menu bar program, the sidecar processes that it starts and stops, and the  *)
(* panels which a sidecar injects into the windows of Codex. The program talks to   *)
(* a sidecar through one file, of which only the last command can be read.           *)
(***************************************************************************)
EXTENDS Integers, FiniteSets

CONSTANTS
  Pids,    \* 1..n: the sidecars that may be started
  Windows, \* renderers of Codex
  Clicks,  \* bound: choices from the menu
  Faults   \* bound: what fails or ends on its own

VARIABLES
  shell, \* the program: the sidecar it manages, its generation, what it is doing
  box,   \* the control file
  proc,  \* the sidecars
  codex, \* the windows that exist
  left   \* what is left of Clicks and Faults
vars == <<shell, box, proc, codex, left>>

Free == UNCHANGED left
Click == left.clicks > 0 /\ left' = [left EXCEPT !.clicks = @ - 1]
Fault == left.faults > 0 /\ left' = [left EXCEPT !.faults = @ - 1]

Blank == [nonce |-> 0, command |-> ""]
\* Mutant: the same command twice is the same text.
MessagePlain(command) == [nonce |-> 0, command |-> command]
\* send_control: what is left of the clicks stands for the time of day.
Message(command) == [nonce |-> left.clicks, command |-> command]

\* wish: the windows that the user wants to show the panel, and that do not yet.
NoProcess == [state |-> "none", gen |-> 0, watch |-> "none", exited |-> FALSE,
              last |-> Blank, watching |-> TRUE, early |-> FALSE, asked |-> FALSE,
              stop |-> FALSE, opening |-> FALSE, conn |-> {}, stale |-> {}, wish |-> {}]

Fresh(gen) == [NoProcess EXCEPT !.state = "starting", !.gen = gen, !.watch = "watching"]

\* The program starts the first sidecar itself, unless that fails.
Init ==
  /\ \E first \in {0, 1} :
       /\ shell = [child |-> first, gen |-> 1, doing |-> "idle", next |-> "none", victim |-> 0]
       /\ proc = [p \in Pids |-> IF p = first THEN Fresh(1) ELSE NoProcess]
  /\ box = Blank
  /\ codex = Windows
  /\ left = [clicks |-> Clicks, faults |-> Faults]

Lives(p) == proc[p].state \in {"starting", "loading", "running"}
Unused == {p \in Pids : proc[p].state = "none"}
-----------------------------------------------------------------------------
(* The menu, which does one thing at a time.                                *)

\* start_sidecar. The empty file is not a command.
Starts(s) ==
  LET p == CHOOSE q \in Unused : \A r \in Unused : q <= r IN
  /\ Unused # {}
  /\ shell' = [s EXCEPT !.child = p, !.gen = @ + 1, !.doing = "idle"]
  /\ box' = Blank
  /\ proc' = [proc EXCEPT ![p] = Fresh(s.gen + 1)]

Open ==
  /\ Click /\ shell.doing = "idle"
  /\ IF shell.child # 0
       THEN /\ box' = Message("open")
            /\ proc' = [proc EXCEPT ![shell.child].wish = IF Lives(shell.child) THEN codex
                                                          ELSE {}]
            /\ UNCHANGED shell
     ELSE Starts(shell)
  /\ UNCHANGED codex

\* stop_sidecar, to restart or to quit.
Stop(next) ==
  LET s == [shell EXCEPT !.gen = @ + 1, !.child = 0] IN
  /\ Click /\ shell.doing = "idle"
  /\ IF shell.child # 0
       THEN /\ shell' = [s EXCEPT !.doing = "stopping", !.victim = shell.child, !.next = next]
            /\ box' = Message("stop") /\ UNCHANGED proc
     ELSE IF next = "start" THEN Starts(s)
     ELSE shell' = [s EXCEPT !.doing = "gone"] /\ UNCHANGED <<box, proc>>
  /\ UNCHANGED codex

Dead(x) == [x EXCEPT !.state = "dead", !.conn = {}, !.stale = {}, !.wish = {}]

\* The deadline has passed.
Kill ==
  /\ shell.doing = "stopping" /\ ~proc[shell.victim].exited /\ Lives(shell.victim)
  /\ proc' = [proc EXCEPT ![shell.victim] = [Dead(@) EXCEPT !.exited = TRUE]]
  /\ UNCHANGED <<shell, box, codex>> /\ Free

Stopped ==
  /\ shell.doing = "stopping" /\ proc[shell.victim].exited
  /\ IF shell.next = "start" THEN Starts(shell)
     ELSE shell' = [shell EXCEPT !.doing = "gone"] /\ UNCHANGED <<box, proc>>
  /\ UNCHANGED codex /\ Free

\* observe_sidecar_events: a process has ended. It is forgotten in a step of its own.
Terminated(p) ==
  /\ proc[p].state = "dead" /\ proc[p].watch = "watching"
  /\ proc' = [proc EXCEPT ![p].exited = TRUE,
                ![p].watch = IF shell.gen = proc[p].gen THEN "forgetting" ELSE "none"]
  /\ UNCHANGED <<shell, box, codex>> /\ Free

Forget(p) ==
  /\ proc[p].watch = "forgetting"
  /\ shell' = [shell EXCEPT !.child = 0]
  /\ proc' = [proc EXCEPT ![p].watch = "none"]
  /\ UNCHANGED <<box, codex>> /\ Free
-----------------------------------------------------------------------------
(* A sidecar.                                                               *)

\* watch_control_file. Before there is an injector only the wish to open is kept.
Heard(x) ==
  LET y == [x EXCEPT !.last = box] IN
  IF box.command = "open"
    THEN IF x.state = "starting" THEN [y EXCEPT !.early = TRUE] ELSE [y EXCEPT !.asked = TRUE]
  ELSE [y EXCEPT !.watching = FALSE, !.stop = x.state # "starting"]

Watch(p) ==
  /\ Lives(p) /\ proc[p].watching
  /\ box.command # "" /\ box # proc[p].last
  /\ proc' = [proc EXCEPT ![p] = Heard(@)]
  /\ UNCHANGED <<shell, box, codex>> /\ Free

Load(p) ==
  /\ proc[p].state = "starting"
  /\ proc' = [proc EXCEPT ![p].state = "loading"]
  /\ UNCHANGED <<shell, box, codex>> /\ Free

Run(p) ==
  /\ proc[p].state = "loading"
  /\ proc' = [proc EXCEPT ![p].state = "running", ![p].asked = @ \/ proc[p].early]
  /\ UNCHANGED <<shell, box, codex>> /\ Free

\* run: what is gone or stale is closed, what was not there before is injected, which
\* opens the panel; then a request to open is taken.
Poll(p) ==
  LET x == proc[p]
      new == codex \ x.conn
  IN
  /\ x.state = "running" /\ ~x.stop /\ ~x.opening
  /\ \E injected \in SUBSET new :
       /\ IF injected = new THEN Free ELSE Fault
       /\ proc' = [proc EXCEPT ![p] = [x EXCEPT
            !.conn = ((@ \cap codex) \ x.stale) \cup injected, !.stale = {},
            !.wish = @ \ injected, !.opening = x.asked, !.asked = FALSE]]
  /\ UNCHANGED <<shell, box, codex>>

\* open_connected_renderers: a connection that fails does not hold the others back.
Show(p) ==
  /\ proc[p].opening /\ proc[p].state = "running"
  /\ proc' = [proc EXCEPT ![p].opening = FALSE,
                ![p].wish = IF proc[p].stop THEN @ ELSE @ \ (proc[p].conn \ proc[p].stale)]
  /\ UNCHANGED <<shell, box, codex>> /\ Free

Halt(p) ==
  /\ proc[p].state = "running" /\ proc[p].stop
  /\ proc' = [proc EXCEPT ![p] = Dead(@)]
  /\ UNCHANGED <<shell, box, codex>> /\ Free

Die(p) ==
  /\ Fault /\ Lives(p)
  /\ proc' = [proc EXCEPT ![p] = Dead(@)]
  /\ UNCHANGED <<shell, box, codex>>
-----------------------------------------------------------------------------
(* Codex.                                                                   *)

Break(p, t) ==
  /\ Fault /\ t \in proc[p].conn \ proc[p].stale
  /\ proc' = [proc EXCEPT ![p].stale = @ \cup {t}]
  /\ UNCHANGED <<shell, box, codex>>

CloseWindow(t) ==
  /\ Fault /\ t \in codex
  /\ codex' = codex \ {t}
  /\ proc' = [p \in Pids |-> [proc[p] EXCEPT !.wish = @ \ {t}]]
  /\ UNCHANGED <<shell, box>>

OpenWindow(t) ==
  /\ t \notin codex /\ codex' = codex \cup {t}
  /\ \A p \in Pids : t \notin proc[p].conn
  /\ UNCHANGED <<shell, box, proc>> /\ Free

Next ==
  \/ Open \/ Stop("start") \/ Stop("exit") \/ Kill \/ Stopped
  \/ \E p \in Pids : \/ Terminated(p) \/ Forget(p) \/ Watch(p) \/ Load(p) \/ Run(p)
                     \/ Poll(p) \/ Show(p) \/ Halt(p) \/ Die(p)
  \/ \E p \in Pids, t \in Windows : Break(p, t)
  \/ \E t \in Windows : CloseWindow(t) \/ OpenWindow(t)

Spec == Init /\ [][Next]_vars

\* The threads of a sidecar go on.
Fairness == \A p \in Pids :
  WF_vars(Watch(p)) /\ WF_vars(Load(p) \/ Run(p)) /\ WF_vars(Poll(p)) /\ WF_vars(Show(p))
-----------------------------------------------------------------------------
TypeOK ==
  /\ shell.child \in Pids \cup {0} /\ codex \subseteq Windows
  /\ \A p \in Pids :
       /\ proc[p].stale \subseteq proc[p].conn /\ proc[p].wish \subseteq codex
       /\ proc[p].state \in {"none", "starting", "loading", "running", "dead"}
       /\ proc[p].state = "dead" => proc[p].conn = {}

\* When the user asks to open the panel, every window of Codex shows it in the end, also
\* while the sidecar still starts, while it serves an earlier request, and when the
\* connection to that window or to another one has just broken.
Wanted == shell.child # 0 /\ proc[shell.child].wish # {}
OpenHeard == Wanted ~> ~Wanted
=============================================================================
