-------------------------------- MODULE Drafts --------------------------------
(***************************************************************************)
(* The children of one task group and the dependencies between them, edited   *)
(* by users and filled from decomposition drafts, which a read-only Codex       *)
(* turn writes while everybody goes on editing.                                  *)
(***************************************************************************)
EXTENDS Integers, FiniteSets

CONSTANTS
  Nodes,    \* identifiers of children, each used once
  Requests, \* identifiers of requests for a draft
  Changes   \* bound: how often the repository, the group or a child is edited

VARIABLES
  g,     \* the group: phase, version, base commit, children with their versions, edges
  draft, \* the operations of the requested drafts
  left   \* what is left of Changes
vars == <<g, draft, left>>

Free == UNCHANGED left
Change == left > 0 /\ left' = left - 1

NoContext == [version |-> 0, base |-> 0, children |-> {}]
NoDraft == [state |-> "none", context |-> NoContext, thread |-> FALSE, turn |-> "none",
            worker |-> FALSE, found |-> {}]

Init ==
  /\ g = [editable |-> TRUE, version |-> 1, base |-> 1, children |-> {}, used |-> {},
          number |-> [n \in Nodes |-> 0], edges |-> {}]
  /\ draft = [r \in Requests |-> NoDraft]
  /\ left = Changes
-----------------------------------------------------------------------------
(* The graph. An edge <<b, t>> says that b blocks t.                        *)

\* Every nonempty set of tasks has one that nothing in the set blocks.
Acyclic(edges, nodes) ==
  \A S \in SUBSET nodes : S = {} \/ \E t \in S : \A b \in S : <<b, t>> \notin edges

\* Mutant: only the direct blockers of the new blockers are looked at.
ReachesDirectly(edges, t, blockers) == \E b \in blockers : b = t \/ <<t, b>> \in edges

\* No set that holds t and all that it blocks stays clear of the blockers.
Reaches(edges, t, blockers) ==
  \A R \in SUBSET Nodes :
    t \in R /\ (\A e \in edges : e[1] \in R => e[2] \in R) => R \cap blockers # {}

Into(edges, t) == {e \in edges : e[2] = t}

\* A proposal that validate_proposal lets pass, for children that are yet to be made.
Valid(nodes, edges) == nodes # {} /\ edges \subseteq nodes \X nodes /\ Acyclic(edges, nodes)
-----------------------------------------------------------------------------
(* Edits by users.                                                          *)

\* create_task of a child: its group changes too.
AddChild(n) ==
  /\ Change /\ g.editable /\ n \in Nodes \ g.used
  /\ g' = [g EXCEPT !.children = @ \cup {n}, !.used = @ \cup {n}, !.number[n] = 1,
                    !.version = @ + 1]
  /\ UNCHANGED draft

RemoveChild(n) ==
  /\ Change /\ g.editable /\ n \in g.children
  /\ g' = [g EXCEPT !.children = @ \ {n}, !.edges = {e \in @ : e[1] # n /\ e[2] # n}]
  /\ UNCHANGED draft

\* Mutant: the version of the task stays.
DependOnUnversioned(x, t, blockers) ==
  [x EXCEPT !.edges = (@ \ Into(@, t)) \cup (blockers \X {t})]

DependOn(x, t, blockers) ==
  [x EXCEPT !.edges = (@ \ Into(@, t)) \cup (blockers \X {t}), !.number[t] = @ + 1]

ReplaceDependencies(t, blockers) ==
  /\ Change /\ g.editable /\ t \in g.children /\ blockers \subseteq g.children \ {t}
  /\ ~Reaches(g.edges \ Into(g.edges, t), t, blockers)
  /\ g' = DependOn(g, t, blockers)
  /\ UNCHANGED draft

EditChild(n) ==
  /\ Change /\ n \in g.children
  /\ g' = [g EXCEPT !.number[n] = @ + 1]
  /\ UNCHANGED draft

EditGroup ==
  /\ Change
  /\ g' = [g EXCEPT !.version = @ + 1]
  /\ UNCHANGED draft

Commit ==
  /\ Change
  /\ g' = [g EXCEPT !.base = @ + 1]
  /\ UNCHANGED draft

Submit ==
  /\ Change /\ g.editable /\ g.children # {}
  /\ g' = [g EXCEPT !.editable = FALSE, !.version = @ + 1]
  /\ UNCHANGED draft

\* A pause stops the turns of the drafts and blocks what is not confirmed.
Pause ==
  /\ ~g.editable
  /\ g' = [g EXCEPT !.editable = TRUE, !.version = @ + 1]
  /\ draft' = [r \in Requests |->
       IF ~draft[r].thread THEN draft[r]
       ELSE [draft[r] EXCEPT !.state = IF @ = "confirmed" THEN @ ELSE "blocked",
                             !.turn = IF @ = "active" THEN "interrupted" ELSE @]]
  /\ Free
-----------------------------------------------------------------------------
(* Drafts.                                                                  *)

Context == [version |-> g.version, base |-> g.base,
            children |-> {<<n, g.number[n]>> : n \in g.children}]
Found == [children |-> g.children, edges |-> g.edges, version |-> g.version, base |-> g.base]
Set(r, state) == draft' = [draft EXCEPT ![r].state = state]
End(r, state) == draft' = [draft EXCEPT ![r].state = state, ![r].worker = FALSE]

\* generate_plan: found is what the group is like, kept to state what a draft promises.
Generate(r) ==
  /\ draft[r].state = "none" /\ g.editable
  /\ draft' = [draft EXCEPT ![r] = [NoDraft EXCEPT !.state = "pending", !.context = Context,
                                      !.worker = TRUE, !.found = {Found}]]
  /\ UNCHANGED <<g, left>>

\* run_plan compares the context, with the version of the group as it was before the
\* connection was awaited, and makes the thread.
ThreadMade(r) ==
  /\ draft[r].worker /\ draft[r].state = "pending"
  /\ \/ draft[r].context # Context /\ End(r, "blocked")
     \/ /\ [draft[r].context EXCEPT !.version = g.version] = Context
        /\ draft' = [draft EXCEPT ![r].thread = TRUE, ![r].state = "uncertain"]
  /\ UNCHANGED <<g, left>>

TurnStarted(r) ==
  /\ draft[r].worker /\ draft[r].thread /\ draft[r].turn = "none"
  /\ draft' = [draft EXCEPT ![r].state = "agent_running", ![r].turn = "active"]
  /\ UNCHANGED <<g, left>>

Lost(r) ==
  /\ Change /\ draft[r].worker
  /\ \/ draft[r].state = "pending" /\ End(r, "blocked")
     \/ /\ draft[r].thread /\ draft[r].turn = "none"
        /\ \E turn \in {"none", "active"} :
             draft' = [draft EXCEPT ![r].worker = FALSE, ![r].turn = turn,
                         ![r].state = IF @ = "uncertain" THEN @ ELSE "blocked"]
  /\ UNCHANGED g

\* finish_plan: the answer has to be a valid proposal.
Finished(turn) == IF turn = "answered" THEN "ready" ELSE "blocked"

TurnOver(r) ==
  /\ draft[r].worker /\ draft[r].turn \notin {"none", "active"}
  /\ End(r, Finished(draft[r].turn))
  /\ UNCHANGED <<g, left>>

TurnEnds(r) ==
  /\ draft[r].turn = "active"
  /\ \E turn \in {"answered", "failed"} : draft' = [draft EXCEPT ![r].turn = turn]
  /\ UNCHANGED <<g, left>>

\* Mutant: a draft whose turn started before a restart is not looked at again.
RecoverablePending == {"pending", "uncertain"}
Recoverable == {"pending", "uncertain", "agent_running"}

Recover(r) ==
  LET d == draft[r] IN
  /\ ~d.worker /\ d.state \in Recoverable
  /\ CASE ~d.thread -> Set(r, "blocked")
       [] d.turn = "active" -> Set(r, "agent_running")
       [] d.turn = "none" -> Set(r, "blocked")
       [] OTHER -> Set(r, Finished(d.turn))
  /\ UNCHANGED <<g, left>>

Crash ==
  /\ Change
  /\ draft' = [r \in Requests |-> [draft[r] EXCEPT !.worker = FALSE]]
  /\ UNCHANGED g

\* confirm_plan: the children of the proposal are made with their dependencies.
Confirmable(r) == g.editable /\ draft[r].state = "ready" /\ draft[r].context = Context

Confirm(r, nodes, edges) ==
  /\ Confirmable(r) /\ nodes \cap g.used = {} /\ Valid(nodes, edges)
  /\ g' = [g EXCEPT !.children = @ \cup nodes, !.used = @ \cup nodes, !.version = @ + 1,
                    !.edges = @ \cup edges,
                    !.number = [n \in Nodes |-> IF n \in nodes THEN 2 ELSE @[n]]]
  /\ Set(r, "confirmed") /\ Free

Draft(r) ==
  \/ Generate(r) \/ ThreadMade(r) \/ TurnStarted(r) \/ Lost(r) \/ TurnOver(r) \/ TurnEnds(r)
  \/ Recover(r)
  \/ /\ Confirmable(r)
     /\ \E nodes \in SUBSET (Nodes \ g.used) :
          \E edges \in SUBSET (nodes \X nodes) : Confirm(r, nodes, edges)

Next ==
  \/ \E n \in Nodes : AddChild(n) \/ RemoveChild(n) \/ EditChild(n)
  \/ \E t \in Nodes, blockers \in SUBSET Nodes : ReplaceDependencies(t, blockers)
  \/ EditGroup \/ Commit \/ Submit \/ Pause \/ Crash
  \/ \E r \in Requests : Draft(r)

Spec == Init /\ [][Next]_vars

\* A worker and the recovery go on; a turn of Codex ends.
Fairness == \A r \in Requests :
  WF_vars(ThreadMade(r) \/ TurnStarted(r) \/ TurnOver(r) \/ TurnEnds(r) \/ Recover(r))
-----------------------------------------------------------------------------
TypeOK ==
  /\ g.edges \subseteq g.children \X g.children
  /\ g.children \subseteq g.used /\ g.used \subseteq Nodes
  /\ \A r \in Requests : draft[r].state \in {"none", "pending", "uncertain", "agent_running",
                                               "ready", "blocked", "confirmed"}

\* Whatever is edited and confirmed in whatever order, the dependencies have no cycle.
NoCycle == Acyclic(g.edges, Nodes)

\* A draft is confirmed only into the group it was made for: the same children with the
\* same dependencies, the same requirements, the same commit.
DraftFits ==
  [][\A r \in Requests : draft[r].state # "confirmed" /\ draft'[r].state = "confirmed" =>
       draft[r].found = {Found}]_vars

\* A requested draft ends as a proposal or with an error.
Undecided(r) == draft[r].state \notin {"none", "ready", "blocked", "confirmed"}
DraftDecided == \A r \in Requests :
  Undecided(r) ~> ~Undecided(r)
=============================================================================
