---------------------------- MODULE ComponentProofs ----------------------------
(* For every set of children and of requests and any number of edits, the       *)
(* dependencies of a group have no cycle, and a draft is confirmed only into    *)
(* the group that it was made for.                                              *)
(*                                                                              *)
(* What is proved of the components one by one holds of their composition as    *)
(* it is checked, where one of them moves and the others stay.                  *)
EXTENDS MCComponents, TLAPS

States == {"none", "pending", "uncertain", "agent_running", "ready", "blocked", "confirmed"}
Contexts == [version : Nat, base : Nat, children : SUBSET (Nodes \X Nat)]
Groups == [editable : BOOLEAN, version : Nat \ {0}, base : Nat, children : SUBSET Nodes,
           used : SUBSET Nodes, number : [Nodes -> Nat], edges : SUBSET (Nodes \X Nodes)]
Founds == [children : SUBSET Nodes, edges : SUBSET (Nodes \X Nodes), version : Nat, base : Nat]
Turns == {"none", "active", "interrupted", "answered", "failed"}
Operations == [state : States, context : Contexts, thread : BOOLEAN, turn : Turns,
               worker : BOOLEAN, found : SUBSET Founds]

\* What the two variables are.
Typed ==
  /\ g \in Groups /\ draft \in [Requests -> Operations]
  /\ g.edges \subseteq g.children \X g.children /\ g.children \subseteq g.used

-----------------------------------------------------------------------------
(* The graph.                                                              *)

\* Fewer edges make no cycle.
LEMMA FewerEdges ==
  ASSUME NEW nodes, NEW edges, NEW fewer \in SUBSET edges, Acyclic(edges, nodes)
  PROVE  Acyclic(fewer, nodes)
BY DEF Acyclic

\* replace_dependencies: new blockers that the task does not reach close no cycle.
LEMMA ReplaceKeepsAcyclic ==
  ASSUME NEW edges \in SUBSET (Nodes \X Nodes), NEW t \in Nodes, NEW blockers \in SUBSET Nodes,
         Acyclic(edges, Nodes), ~Reaches(edges \ Into(edges, t), t, blockers)
  PROVE  Acyclic((edges \ Into(edges, t)) \cup (blockers \X {t}), Nodes)
<1> DEFINE old == edges \ Into(edges, t)
           new == old \cup (blockers \X {t})
<1>1. PICK R \in SUBSET Nodes :
        t \in R /\ (\A e \in old : e[1] \in R => e[2] \in R) /\ R \cap blockers = {}
  BY DEF Reaches
<1>2. SUFFICES ASSUME NEW S \in SUBSET Nodes, S # {}
               PROVE  \E u \in S : \A b \in S : <<b, u>> \notin new
  BY DEF Acyclic
<1>3. CASE S \subseteq R
  <2>1. PICK u \in S : \A b \in S : <<b, u>> \notin edges
    BY <1>2 DEF Acyclic
  <2>2. \A b \in S : <<b, u>> \notin new
    BY <1>1, <1>3, <2>1
  <2> QED
    BY <2>2
<1>4. CASE S \ R # {}
  <2>1. PICK u \in S \ R : \A b \in S \ R : <<b, u>> \notin edges
    <3>1. S \ R \in SUBSET Nodes
      OBVIOUS
    <3> QED
      BY <1>4, <3>1 DEF Acyclic
  <2>2. ASSUME NEW b \in S, <<b, u>> \in new
        PROVE  FALSE
    <3>1. <<b, u>> \in old
      BY <1>1, <2>1, <2>2
    <3>2. b \notin R
      BY <1>1, <2>1, <3>1
    <3> QED
      BY <2>1, <3>1, <3>2
  <2> QED
    BY <2>1, <2>2
<1> QED
  BY <1>3, <1>4

\* confirm_plan: the graph of the new children lies beside the old one.
LEMMA BesideKeepsAcyclic ==
  ASSUME NEW children \in SUBSET Nodes, NEW edges \in SUBSET (children \X children),
         NEW nodes \in SUBSET Nodes, NEW more \in SUBSET (nodes \X nodes),
         nodes \cap children = {}, Acyclic(edges, Nodes), Acyclic(more, nodes)
  PROVE  Acyclic(edges \cup more, Nodes)
<1>1. SUFFICES ASSUME NEW S \in SUBSET Nodes, S # {}
               PROVE  \E u \in S : \A b \in S : <<b, u>> \notin edges \cup more
  BY DEF Acyclic
<1>2. CASE S \cap nodes = {}
  <2>1. PICK u \in S : \A b \in S : <<b, u>> \notin edges
    BY <1>1 DEF Acyclic
  <2> QED
    BY <1>2, <2>1
<1>3. CASE S \cap nodes # {}
  <2>1. PICK u \in S \cap nodes : \A b \in S \cap nodes : <<b, u>> \notin more
    <3>1. S \cap nodes \in SUBSET nodes
      OBVIOUS
    <3> QED
      BY <1>3, <3>1 DEF Acyclic
  <2> QED
    BY <2>1
<1> QED
  BY <1>2, <1>3
-----------------------------------------------------------------------------
(* What a draft knows of its group. The version and the base commit only      *)
(* grow, and so does the version of a child; as long as the version of the      *)
(* group is that of the draft, no child was added. So what the draft was made     *)
(* for, once it has changed, never comes back, removals of children included.      *)

Fit(r) ==
  LET c == draft[r].context IN
  /\ c.version <= g.version /\ c.base <= g.base
  /\ \A n \in Nodes, k \in Nat : <<n, k>> \in c.children => n \in g.used /\ k <= g.number[n]
  /\ c.version = g.version => \A n \in g.children : \E k \in Nat : <<n, k>> \in c.children
  /\ c = Context => draft[r].found = {Found}

IInv == Typed /\ NoCycle /\ \A r \in Requests : Fit(r)

\* A step of a user or of the recovery leaves what the drafts know.
Kept(r) ==
  draft'[r].context = draft[r].context /\ draft'[r].found = draft[r].found

LEMMA InitIInv == Init => IInv
<1> SUFFICES ASSUME Init
             PROVE  IInv
  OBVIOUS
<1>1. NoDraft \in Operations
  <2>1. NoContext \in Contexts /\ {} \in SUBSET Founds
    BY DEF NoContext, Contexts
  <2> QED
    BY <2>1 DEF NoDraft, Operations, States, Turns
<1>2. Typed
  BY <1>1 DEF Init, Typed, Groups
<1>3. NoCycle
  BY DEF Init, NoCycle, Acyclic
<1>4. \A r \in Requests : Fit(r)
  BY DEF Init, Fit, NoDraft, NoContext, Context
<1> QED
  BY <1>2, <1>3, <1>4 DEF IInv

-----------------------------------------------------------------------------
(* Edits of users.                                                         *)

\* A new version of the group is none that a draft has seen.
LEMMA NewVersionFits ==
  ASSUME IInv, g' \in Groups, g'.version = g.version + 1, g'.base = g.base,
         g.used \subseteq g'.used, \A n \in g.used : g'.number[n] = g.number[n],
         \A r \in Requests : Kept(r)
  PROVE  \A r \in Requests : Fit(r)'
<1> SUFFICES ASSUME NEW r \in Requests
             PROVE  Fit(r)'
  OBVIOUS
<1> DEFINE c == draft[r].context
<1>1. /\ c \in Contexts /\ Fit(r) /\ g.version \in Nat /\ g.used \subseteq Nodes
      /\ draft'[r].context = c
  BY DEF IInv, Typed, Groups, Operations, Kept
<1>2. c.version < g'.version /\ c.base <= g'.base
  BY <1>1 DEF Fit, Contexts
<1>3. c # Context'
  BY <1>1, <1>2 DEF Context, Contexts
<1>4. \A n \in Nodes, k \in Nat :
        <<n, k>> \in c.children => n \in g'.used /\ k <= g'.number[n]
  BY <1>1 DEF Fit
<1> HIDE DEF c
<1> QED
  BY <1>1, <1>2, <1>3, <1>4 DEF Fit, Contexts

\* A new version of a child is none that a draft has seen.
LEMMA NewNumberFits ==
  ASSUME IInv, NEW t \in g.children, g' \in Groups, g'.version = g.version,
         g'.base = g.base, g'.children = g.children, g'.used = g.used,
         g'.number = [g.number EXCEPT ![t] = @ + 1], draft' = draft
  PROVE  \A r \in Requests : Fit(r)'
<1> SUFFICES ASSUME NEW r \in Requests
             PROVE  Fit(r)'
  OBVIOUS
<1> DEFINE c == draft[r].context
<1>1. /\ c \in Contexts /\ Fit(r) /\ g.number \in [Nodes -> Nat] /\ t \in Nodes
      /\ draft'[r].context = c /\ g.version \in Nat
  BY DEF IInv, Typed, Groups, Operations
<1>2. g'.number[t] = g.number[t] + 1 /\ \A n \in Nodes \ {t} : g'.number[n] = g.number[n]
  BY <1>1
<1>3. \A n \in Nodes, k \in Nat :
        <<n, k>> \in c.children => n \in g'.used /\ k <= g'.number[n]
  <2> SUFFICES ASSUME NEW n \in Nodes, NEW k \in Nat, <<n, k>> \in c.children
               PROVE  n \in g'.used /\ k <= g'.number[n]
    OBVIOUS
  <2>1. n \in g.used /\ k <= g.number[n] /\ g.number[n] \in Nat
    BY <1>1 DEF Fit
  <2>2. g'.number[n] = g.number[n] \/ g'.number[n] = g.number[n] + 1
    BY <1>2
  <2> QED
    BY <2>1, <2>2
<1>4. c # Context'
  <2>1. <<t, g.number[t] + 1>> \in Context'.children
    BY <1>2 DEF Context
  <2>2. g.number[t] \in Nat /\ g.number[t] + 1 \in Nat
    BY <1>1
  <2>3. <<t, g.number[t] + 1>> \notin c.children
    BY <1>1, <2>2 DEF Fit
  <2> QED
    BY <2>1, <2>3
<1> HIDE DEF c
<1> QED
  BY <1>1, <1>3, <1>4 DEF Fit, c

LEMMA AddChildIInv == IInv /\ (\E n \in Nodes : AddChild(n)) => IInv'
<1> SUFFICES ASSUME IInv, NEW n \in Nodes, AddChild(n)
             PROVE  IInv'
  OBVIOUS
<1>1. g' \in Groups
  <2>1. /\ g.children \cup {n} \in SUBSET Nodes /\ g.used \cup {n} \in SUBSET Nodes
        /\ [g.number EXCEPT ![n] = 1] \in [Nodes -> Nat] /\ g.version + 1 \in Nat \ {0}
    BY DEF IInv, Typed, Groups
  <2> QED
    BY <2>1 DEF IInv, Typed, Groups, AddChild
<1>2. Typed'
  BY <1>1 DEF IInv, Typed, Groups, AddChild
<1>3. NoCycle'
  BY DEF IInv, NoCycle, Typed, Groups, AddChild
<1>4. \A r \in Requests : Fit(r)'
  <2>1. /\ g'.version = g.version + 1 /\ g'.base = g.base /\ g.used \subseteq g'.used
        /\ \A m \in g.used : g'.number[m] = g.number[m]
        /\ \A r \in Requests : Kept(r)
    BY DEF IInv, Typed, Groups, AddChild, Kept
  <2> QED
    BY <1>1, <2>1, NewVersionFits
<1> QED
  BY <1>2, <1>3, <1>4 DEF IInv

\* A child that is removed was in the group of every draft with the present version.
LEMMA RemoveChildIInv == IInv /\ (\E n \in Nodes : RemoveChild(n)) => IInv'
<1> SUFFICES ASSUME IInv, NEW n \in Nodes, RemoveChild(n)
             PROVE  IInv'
  OBVIOUS
<1>1. Typed'
  <2>1. g.children \ {n} \in SUBSET Nodes
        /\ {e \in g.edges : e[1] # n /\ e[2] # n} \in SUBSET (Nodes \X Nodes)
    BY DEF IInv, Typed, Groups
  <2>2. g' \in Groups
    BY <2>1 DEF IInv, Typed, Groups, RemoveChild
  <2>3. g'.edges \subseteq g'.children \X g'.children
    BY DEF IInv, Typed, Groups, RemoveChild
  <2> QED
    BY <2>2, <2>3 DEF IInv, Typed, Groups, RemoveChild
<1>2. NoCycle'
  <2>1. g'.edges \in SUBSET g.edges
    BY DEF IInv, Typed, Groups, RemoveChild
  <2> QED
    BY <2>1, FewerEdges DEF IInv, NoCycle
<1>3. ASSUME NEW r \in Requests
      PROVE  Fit(r)'
  <2> DEFINE c == draft[r].context
  <2>1. /\ c \in Contexts /\ Fit(r) /\ draft' = draft /\ g'.version = g.version
        /\ g'.base = g.base /\ g'.used = g.used /\ g'.number = g.number
        /\ g'.children = g.children \ {n} /\ n \in g.children
    BY DEF IInv, Typed, Groups, Operations, RemoveChild
  <2>2. c # Context'
    <3>1. SUFFICES ASSUME c = Context'
                   PROVE  FALSE
      OBVIOUS
    <3>2. c.version = g.version
      BY <2>1, <3>1 DEF Context
    <3>3. PICK k \in Nat : <<n, k>> \in c.children
      BY <2>1, <3>2 DEF Fit
    <3> QED
      BY <2>1, <3>1, <3>3 DEF Context
  <2> HIDE DEF c
  <2> QED
    BY <2>1, <2>2 DEF Fit, c
<1> QED
  BY <1>1, <1>2, <1>3 DEF IInv

LEMMA ReplaceIInv ==
  IInv /\ (\E t \in Nodes, blockers \in SUBSET Nodes : ReplaceDependencies(t, blockers)) => IInv'
<1> SUFFICES ASSUME IInv, NEW t \in Nodes, NEW blockers \in SUBSET Nodes,
                    ReplaceDependencies(t, blockers)
             PROVE  IInv'
  OBVIOUS
<1>1. /\ t \in g.children /\ blockers \subseteq g.children /\ draft' = draft
      /\ ~Reaches(g.edges \ Into(g.edges, t), t, blockers)
      /\ g' = [g EXCEPT !.edges = (@ \ Into(@, t)) \cup (blockers \X {t}), !.number[t] = @ + 1]
  BY DEF ReplaceDependencies, DependOn
<1>2. /\ g'.edges = (g.edges \ Into(g.edges, t)) \cup (blockers \X {t})
      /\ g'.number = [g.number EXCEPT ![t] = @ + 1] /\ g'.version = g.version
      /\ g'.base = g.base /\ g'.children = g.children /\ g'.used = g.used
  BY <1>1 DEF IInv, Typed, Groups
<1>3. g' \in Groups
  <2>1. /\ (g.edges \ Into(g.edges, t)) \cup (blockers \X {t}) \in SUBSET (Nodes \X Nodes)
        /\ [g.number EXCEPT ![t] = @ + 1] \in [Nodes -> Nat]
    BY <1>1 DEF IInv, Typed, Groups
  <2> QED
    BY <1>1, <2>1 DEF IInv, Typed, Groups
<1>4. Typed'
  BY <1>1, <1>2, <1>3 DEF IInv, Typed
<1>5. NoCycle'
  BY <1>1, <1>2, ReplaceKeepsAcyclic DEF IInv, Typed, Groups, NoCycle
<1>6. \A r \in Requests : Fit(r)'
  BY <1>1, <1>2, <1>3, NewNumberFits
<1> QED
  BY <1>4, <1>5, <1>6 DEF IInv

LEMMA EditChildIInv == IInv /\ (\E n \in Nodes : EditChild(n)) => IInv'
<1> SUFFICES ASSUME IInv, NEW n \in Nodes, EditChild(n)
             PROVE  IInv'
  OBVIOUS
<1>1. /\ n \in g.children /\ draft' = draft /\ g'.edges = g.edges
      /\ g'.number = [g.number EXCEPT ![n] = @ + 1] /\ g'.version = g.version
      /\ g'.base = g.base /\ g'.children = g.children /\ g'.used = g.used
  BY DEF IInv, Typed, Groups, EditChild
<1>2. g' \in Groups
  <2>1. [g.number EXCEPT ![n] = @ + 1] \in [Nodes -> Nat]
    BY DEF IInv, Typed, Groups
  <2> QED
    BY <2>1 DEF IInv, Typed, Groups, EditChild
<1>3. Typed' /\ NoCycle'
  BY <1>1, <1>2 DEF IInv, Typed, NoCycle
<1>4. \A r \in Requests : Fit(r)'
  BY <1>1, <1>2, NewNumberFits
<1> QED
  BY <1>3, <1>4 DEF IInv

\* The other edits of the group, and a pause, which stops the turns of the drafts.
LEMMA GroupIInv == IInv /\ (EditGroup \/ Submit \/ Pause) => IInv'
<1> SUFFICES ASSUME IInv, EditGroup \/ Submit \/ Pause
             PROVE  IInv'
  OBVIOUS
<1>1. /\ g' \in Groups /\ g'.version = g.version + 1 /\ g'.base = g.base
      /\ g'.used = g.used /\ g'.children = g.children /\ g'.number = g.number
      /\ g'.edges = g.edges
  <2>1. CASE EditGroup
    BY <2>1 DEF IInv, Typed, Groups, EditGroup
  <2>2. g.version + 1 \in Nat \ {0}
    BY DEF IInv, Typed, Groups
  <2>3. CASE Submit
    BY <2>2, <2>3 DEF IInv, Typed, Groups, Submit
  <2>4. CASE Pause
    BY <2>2, <2>4 DEF IInv, Typed, Groups, Pause
  <2> QED
    BY <2>1, <2>3, <2>4
<1>2. draft' \in [Requests -> Operations] /\ \A r \in Requests : Kept(r)
  <2>1. CASE EditGroup \/ Submit
    BY <2>1 DEF IInv, Typed, EditGroup, Submit, Kept
  <2>2. CASE Pause
    <3>1. ASSUME NEW r \in Requests
          PROVE  draft'[r] \in Operations /\ Kept(r)
      <4>1. draft[r] \in Operations
        BY DEF IInv, Typed
      <4> QED
        BY <2>2, <4>1 DEF Pause, Operations, States, Turns, Kept
    <3>2. draft' = [r \in Requests |-> draft'[r]]
      BY <2>2 DEF Pause
    <3> QED
      BY <3>1, <3>2
  <2> QED
    BY <1>1, <2>1, <2>2
<1>3. Typed' /\ NoCycle'
  BY <1>1, <1>2 DEF IInv, Typed, NoCycle
<1>4. \A r \in Requests : Fit(r)'
  BY <1>1, <1>2, NewVersionFits
<1> QED
  BY <1>3, <1>4 DEF IInv

LEMMA CommitIInv == IInv /\ Commit => IInv'
<1> SUFFICES ASSUME IInv, Commit
             PROVE  IInv'
  OBVIOUS
<1>1. /\ g' \in Groups /\ g'.base = g.base + 1 /\ g'.version = g.version
      /\ g'.used = g.used /\ g'.children = g.children /\ g'.number = g.number
      /\ g'.edges = g.edges /\ draft' = draft
  BY DEF IInv, Typed, Groups, Commit
<1>2. Typed' /\ NoCycle'
  BY <1>1 DEF IInv, Typed, NoCycle
<1>3. ASSUME NEW r \in Requests
      PROVE  Fit(r)'
  <2> DEFINE c == draft[r].context
  <2>1. c \in Contexts /\ Fit(r) /\ g.base \in Nat
    BY DEF IInv, Typed, Groups, Operations
  <2>2. c.base < g'.base
    BY <1>1, <2>1 DEF Fit, Contexts
  <2>3. c # Context'
    BY <1>1, <2>1, <2>2 DEF Context, Contexts
  <2> HIDE DEF c
  <2> QED
    BY <1>1, <2>1, <2>2, <2>3 DEF Fit, Contexts, c
<1> QED
  BY <1>2, <1>3 DEF IInv

-----------------------------------------------------------------------------
(* Steps of drafts. Only the one that generates a draft changes what it knows,  *)
(* and only the confirmation makes it confirmed.                                  *)

Progress(r) ==
  ThreadMade(r) \/ TurnStarted(r) \/ Lost(r) \/ TurnOver(r) \/ TurnEnds(r) \/ Recover(r)

\* A step of one draft is one of another row: the others stay, it knows what it knew.
LEMMA ProgressOf ==
  ASSUME IInv, NEW r \in Requests, Progress(r)
  PROVE  /\ g' = g /\ draft' \in [Requests -> Operations]
         /\ \A q \in Requests : Kept(q)
         /\ \A q \in Requests : draft'[q].state = "confirmed" => draft[q].state = "confirmed"
<1> DEFINE Moved(d) ==
             /\ d \in Operations /\ d.context = draft[r].context /\ d.found = draft[r].found
             /\ d.state = "confirmed" => draft[r].state = "confirmed"
             /\ draft' = [draft EXCEPT ![r] = d]
<1>1. draft \in [Requests -> Operations] /\ draft[r] \in Operations
  BY DEF IInv, Typed
<1>2. SUFFICES g' = g /\ \E d : Moved(d)
  BY <1>1 DEF Kept
<1>3. CASE ThreadMade(r)
  <2>1. CASE End(r, "blocked")
    <3>1. Moved([draft[r] EXCEPT !.state = "blocked", !.worker = FALSE])
      BY <1>1, <2>1 DEF End, Operations, States
    <3> QED
      BY <1>3, <3>1 DEF ThreadMade
  <2>2. CASE draft' = [draft EXCEPT ![r].thread = TRUE, ![r].state = "uncertain"]
    <3>1. Moved([draft[r] EXCEPT !.thread = TRUE, !.state = "uncertain"])
      BY <1>1, <2>2 DEF Operations, States
    <3> QED
      BY <1>3, <3>1 DEF ThreadMade
  <2> QED
    BY <1>3, <2>1, <2>2 DEF ThreadMade
<1>4. CASE TurnStarted(r)
  <2>1. Moved([draft[r] EXCEPT !.state = "agent_running", !.turn = "active"])
    BY <1>1, <1>4 DEF TurnStarted, Operations, States, Turns
  <2> QED
    BY <1>4, <2>1 DEF TurnStarted
<1>5. CASE Lost(r)
  <2>1. CASE End(r, "blocked")
    <3>1. Moved([draft[r] EXCEPT !.state = "blocked", !.worker = FALSE])
      BY <1>1, <2>1 DEF End, Operations, States
    <3> QED
      BY <1>5, <3>1 DEF Lost
  <2>2. ASSUME NEW turn \in {"none", "active"},
               draft' = [draft EXCEPT ![r].worker = FALSE, ![r].turn = turn,
                           ![r].state = IF @ = "uncertain" THEN @ ELSE "blocked"]
        PROVE  \E d : Moved(d)
    <3>1. Moved([draft[r] EXCEPT !.worker = FALSE, !.turn = turn,
                   !.state = IF @ = "uncertain" THEN @ ELSE "blocked"])
      BY <1>1, <2>2 DEF Operations, States, Turns
    <3> QED
      BY <3>1
  <2> QED
    BY <1>5, <2>1, <2>2 DEF Lost
<1>6. CASE TurnOver(r)
  <2>1. Moved([draft[r] EXCEPT !.state = Finished(draft[r].turn), !.worker = FALSE])
    BY <1>1, <1>6 DEF TurnOver, End, Finished, Operations, States
  <2> QED
    BY <1>6, <2>1 DEF TurnOver
<1>7. CASE TurnEnds(r)
  <2>1. PICK turn \in {"answered", "failed"} : draft' = [draft EXCEPT ![r].turn = turn]
    BY <1>7 DEF TurnEnds
  <2>2. Moved([draft[r] EXCEPT !.turn = turn])
    BY <1>1, <2>1 DEF Operations, Turns
  <2> QED
    BY <1>7, <2>2 DEF TurnEnds
<1>8. CASE Recover(r)
  <2>1. PICK state \in {"blocked", "agent_running", "ready"} : Set(r, state)
    BY <1>8 DEF Recover, Finished
  <2>2. Moved([draft[r] EXCEPT !.state = state])
    BY <1>1, <2>1 DEF Set, Operations, States
  <2> QED
    BY <1>8, <2>2 DEF Recover
<1> QED
  BY <1>3, <1>4, <1>5, <1>6, <1>7, <1>8 DEF Progress

\* A restart leaves what the drafts know, and confirms none.
LEMMA CrashOf ==
  ASSUME IInv, Crash
  PROVE  /\ g' = g /\ draft' \in [Requests -> Operations]
         /\ \A q \in Requests : Kept(q)
         /\ \A q \in Requests : draft'[q].state = "confirmed" => draft[q].state = "confirmed"
BY DEF IInv, Typed, Crash, Operations, Kept

LEMMA SameGroupIInv ==
  ASSUME IInv, g' = g, draft' \in [Requests -> Operations],
         \A q \in Requests : Kept(q)
  PROVE  IInv'
BY DEF IInv, Typed, NoCycle, Fit, Kept, Context, Found

\* A draft is generated with the context of that moment.
LEMMA GenerateIInv == IInv /\ (\E r \in Requests : Generate(r)) => IInv'
<1> SUFFICES ASSUME IInv, NEW r \in Requests, Generate(r)
             PROVE  IInv'
  OBVIOUS
<1> DEFINE d == [NoDraft EXCEPT !.state = "pending", !.context = Context, !.worker = TRUE,
                                !.found = {Found}]
<1>1. g' = g /\ draft' = [draft EXCEPT ![r] = d]
  BY DEF Generate
<1>2. Context \in Contexts /\ {Found} \in SUBSET Founds
  BY DEF IInv, Typed, Groups, Context, Contexts, Found, Founds
<1>3. d \in Operations /\ d.context = Context /\ d.found = {Found}
  BY <1>2 DEF NoDraft, Operations, States, Turns
<1>4. Typed' /\ NoCycle'
  BY <1>1, <1>3 DEF IInv, Typed, NoCycle
<1>5. ASSUME NEW q \in Requests
      PROVE  Fit(q)'
  <2>1. Context' = Context /\ Found' = Found
    BY <1>1 DEF Context, Found
  <2>2. CASE q = r
    <3>1. draft'[q].context = Context /\ draft'[q].found = {Found}
      BY <1>1, <1>3, <2>2 DEF IInv, Typed
    <3>2. /\ Context.version = g.version /\ Context.base = g.base
          /\ Context.children = {<<n, g.number[n]>> : n \in g.children}
          /\ g.version \in Nat /\ g.base \in Nat /\ g.number \in [Nodes -> Nat]
          /\ g.children \subseteq g.used /\ g.children \subseteq Nodes
      BY DEF IInv, Typed, Groups, Context
    <3>3. \A n \in g.children : <<n, g.number[n]>> \in Context.children /\ g.number[n] \in Nat
      BY <3>2
    <3> HIDE DEF d
    <3> QED
      BY <1>1, <2>1, <3>1, <3>2, <3>3 DEF Fit
  <2>3. CASE q # r
    <3>1. draft'[q] = draft[q] /\ Fit(q)
      BY <1>1, <2>3 DEF IInv, Typed
    <3> HIDE DEF d
    <3> QED
      BY <1>1, <2>1, <3>1 DEF Fit
  <2> QED
    BY <2>2, <2>3
<1> QED
  BY <1>4, <1>5 DEF IInv

\* The children that a draft proposes are new, and their dependencies checked.
LEMMA ConfirmIInv ==
  ASSUME IInv, NEW r \in Requests, NEW nodes \in SUBSET (Nodes \ g.used),
         NEW edges \in SUBSET (nodes \X nodes), Confirm(r, nodes, edges)
  PROVE  IInv'
<1>1. /\ g' = [g EXCEPT !.children = @ \cup nodes, !.used = @ \cup nodes, !.version = @ + 1,
                    !.edges = @ \cup edges,
                    !.number = [n \in Nodes |-> IF n \in nodes THEN 2 ELSE @[n]]]
      /\ draft' = [draft EXCEPT ![r].state = "confirmed"] /\ Acyclic(edges, nodes)
  BY DEF Confirm, Set, Valid
<1>2. /\ g.children \cup nodes \in SUBSET Nodes /\ g.used \cup nodes \in SUBSET Nodes
      /\ g.version + 1 \in Nat \ {0} /\ g.edges \cup edges \in SUBSET (Nodes \X Nodes)
      /\ [n \in Nodes |-> IF n \in nodes THEN 2 ELSE g.number[n]] \in [Nodes -> Nat]
  BY DEF IInv, Typed, Groups
<1>3. g' \in Groups
  BY <1>1, <1>2 DEF IInv, Typed, Groups
<1>4. /\ g'.version = g.version + 1 /\ g'.base = g.base /\ g'.used = g.used \cup nodes
      /\ g'.children = g.children \cup nodes /\ g'.edges = g.edges \cup edges
      /\ \A n \in g.used : g'.number[n] = g.number[n]
  BY <1>1 DEF IInv, Typed, Groups
<1>5. draft' \in [Requests -> Operations] /\ \A q \in Requests : Kept(q)
  BY <1>1 DEF IInv, Typed, Operations, States, Kept
<1>6. Typed'
  BY <1>3, <1>4, <1>5 DEF IInv, Typed
<1>7. NoCycle'
  <2>1. nodes \in SUBSET Nodes /\ nodes \cap g.children = {}
    BY DEF IInv, Typed
  <2> QED
    BY <1>1, <1>4, <2>1, BesideKeepsAcyclic DEF IInv, Typed, Groups, NoCycle
<1>8. \A q \in Requests : Fit(q)'
  BY <1>3, <1>4, <1>5, NewVersionFits
<1> QED
  BY <1>6, <1>7, <1>8 DEF IInv

-----------------------------------------------------------------------------
(* The specification.                                                      *)

LEMMA NextIInv == IInv /\ [Next]_vars => IInv'
<1> SUFFICES ASSUME IInv, [Next]_vars
             PROVE  IInv'
  OBVIOUS
<1>1. CASE \E n \in Nodes : AddChild(n) \/ RemoveChild(n) \/ EditChild(n)
  BY <1>1, AddChildIInv, RemoveChildIInv, EditChildIInv
<1>2. CASE \E t \in Nodes, blockers \in SUBSET Nodes : ReplaceDependencies(t, blockers)
  BY <1>2, ReplaceIInv
<1>3. CASE EditGroup \/ Submit \/ Pause
  BY <1>3, GroupIInv
<1>4. CASE Commit
  BY <1>4, CommitIInv
<1>5. CASE Crash
  BY <1>5, CrashOf, SameGroupIInv
<1>6. ASSUME NEW r \in Requests, Draft(r)
      PROVE  IInv'
  <2>1. CASE Generate(r)
    BY <2>1, GenerateIInv
  <2>2. CASE Progress(r)
    BY <2>2, ProgressOf, SameGroupIInv
  <2>3. CASE \E nodes \in SUBSET (Nodes \ g.used) :
               \E edges \in SUBSET (nodes \X nodes) : Confirm(r, nodes, edges)
    BY <2>3, ConfirmIInv
  <2> QED
    BY <1>6, <2>1, <2>2, <2>3 DEF Draft, Progress
<1>7. CASE UNCHANGED vars
  BY <1>7 DEF vars, IInv, Typed, NoCycle, Fit, Context, Found
<1> QED
  BY <1>1, <1>2, <1>3, <1>4, <1>5, <1>6, <1>7 DEF Next

LEMMA Invariant == Spec => []IInv
<1> QED
  BY InitIInv, NextIInv, PTL DEF Spec

\* The dependencies between the children of a group never have a cycle, whatever is
\* edited, removed and confirmed in whatever order: replace_dependencies and
\* validate_proposal each check their own part of the graph.
THEOREM NoDependencyCycle == Spec => []NoCycle
<1>1. IInv => NoCycle
  BY DEF IInv
<1> QED
  BY <1>1, Invariant, PTL

\* A draft is confirmed only into the group that it was made for: the context that
\* confirm_plan compares holds no dependencies, and yet none of them can have changed.
THEOREM DraftsFit == Spec => DraftFits
<1> DEFINE Fits == \A r \in Requests :
             draft[r].state # "confirmed" /\ draft'[r].state = "confirmed" =>
               draft[r].found = {Found}
<1>1. IInv /\ [Next]_vars => [Fits]_vars
  <2> SUFFICES ASSUME IInv, Next, NEW q \in Requests,
                      draft[q].state # "confirmed", draft'[q].state = "confirmed"
               PROVE  draft[q].found = {Found}
    OBVIOUS
  <2>1. CASE \E n \in Nodes : AddChild(n) \/ RemoveChild(n) \/ EditChild(n)
    BY <2>1 DEF AddChild, RemoveChild, EditChild
  <2>2. CASE \E t \in Nodes, blockers \in SUBSET Nodes : ReplaceDependencies(t, blockers)
    BY <2>2 DEF ReplaceDependencies
  <2>3. CASE EditGroup \/ Submit \/ Commit
    BY <2>3 DEF EditGroup, Submit, Commit
  <2>4. CASE Pause
    BY <2>4 DEF Pause, IInv, Typed, Operations
  <2>5. CASE Crash
    BY <2>5, CrashOf
  <2>6. ASSUME NEW r \in Requests, Draft(r)
        PROVE  draft[q].found = {Found}
    <3>1. CASE Generate(r)
      BY <3>1 DEF Generate, NoDraft, IInv, Typed
    <3>2. CASE Progress(r)
      BY <3>2, ProgressOf
    <3>3. CASE \E nodes \in SUBSET (Nodes \ g.used) :
                 \E edges \in SUBSET (nodes \X nodes) : Confirm(r, nodes, edges)
      <4>1. draft' = [draft EXCEPT ![r].state = "confirmed"] /\ draft[r].context = Context
        BY <3>3 DEF Confirm, Confirmable, Set
      <4>2. q = r
        BY <4>1 DEF IInv, Typed
      <4> QED
        BY <4>1, <4>2 DEF IInv, Fit
    <3> QED
      BY <2>6, <3>1, <3>2, <3>3 DEF Draft, Progress
  <2> QED
    BY <2>1, <2>2, <2>3, <2>4, <2>5, <2>6 DEF Next
<1> QED
  BY <1>1, Invariant, PTL DEF Spec, DraftFits

\* Children, dependencies and drafts are always what the code knows of them, and no
\* dependency points outside the group (task_dependencies, state of a draft's operation).
THEOREM DraftsTyped == Spec => []TypeOK
<1>1. IInv => TypeOK
  <2> SUFFICES ASSUME IInv PROVE TypeOK
    OBVIOUS
  <2>1. g.used \subseteq Nodes /\ \A r \in Requests : draft[r].state \in States
    BY DEF IInv, Typed, Groups, Operations
  <2> QED BY <2>1 DEF IInv, Typed, TypeOK, States
<1> QED
  BY <1>1, Invariant, PTL

-----------------------------------------------------------------------------
(* The composition.                                                        *)

\* The composition is a behaviour of the merges of a repository.
LEMMA MergeImplemented == ComponentsSpec => M!Spec
<1>1. PickInit => M!Init
  BY DEF PickInit
<1>2. [Step]_allVars => [M!Next]_(M!vars)
  <2>1. CASE MergeStep
    BY <2>1 DEF MergeStep
  <2>2. CASE PlanningStep \/ DraftsStep \/ InteractionsStep \/ LauncherStep
    BY <2>2 DEF PlanningStep, DraftsStep, InteractionsStep, LauncherStep, mergeVars, M!vars
  <2>3. CASE UNCHANGED allVars
    BY <2>3 DEF allVars, mergeVars, M!vars
  <2> QED BY <2>1, <2>2, <2>3 DEF Step
<1> QED BY <1>1, <1>2, PTL DEF ComponentsSpec, M!Spec

\* A task is done only when its delivery has reached the target, which never loses it
\* (ParallelRuntime.merged and recover_operation).
THEOREM ComponentsIntegrate == ComponentsSpec => []DoneIsIntegrated
<1>1. M!Spec => []M!DoneIsIntegrated
  BY M!DeliveredIsIntegrated
<1>2. M!DoneIsIntegrated => DoneIsIntegrated
  BY DEF DoneIsIntegrated
<1> QED BY <1>1, <1>2, MergeImplemented, PTL

\* The board never waits for two repairs of one repository (merge_task refuses while
\* another may run), and unless a request times out, a start comes late or users touch a
\* task whose repair is being started, a repair that runs is one it waits for.
THEOREM ComponentsRepairAlone ==
  ASSUME Scenario \subseteq M!Scenarios PROVE ComponentsSpec => []OneRepair
<1>1. M!Spec => []M!OneRepair
  BY M!RepairsAlone
<1>2. M!OneRepair => OneRepair
  BY DEF OneRepair
<1> QED BY <1>1, <1>2, MergeImplemented, PTL

\* Only the verified result of one task is added to the target, approved where results
\* are reviewed (publish_merge).
THEOREM ComponentsPublishVerified == ASSUME M!Steady PROVE ComponentsSpec => PublishedOnlyVerified
<1>1. M!Spec => M!PublishedOnlyVerified
  BY M!PublishesVerified
<1>2. M!PublishedOnlyVerified => PublishedOnlyVerified
  BY DEF PublishedOnlyVerified
<1> QED BY <1>1, <1>2, MergeImplemented, PTL

\* No integration ends a task whose next turn has begun (ParallelRuntime.merged,
\* recover_operation), where nobody touches a task whose repair is being started, no request
\* times out and no start comes late, a lost answer or a usage limit does not meet rework or
\* a pause, nor a restart changed commands.
THEOREM ComponentsIdleWhenDone ==
  ASSUME M!Named PROVE ComponentsSpec /\ scenario \in M!Prudents => DoneIsIdle
<1>1. M!Spec /\ scenario \in M!Prudents => M!DoneIsIdle
  BY M!IdlesWhenDone
<1>2. M!DoneIsIdle => DoneIsIdle
  BY DEF DoneIsIdle
<1> QED BY <1>1, <1>2, MergeImplemented, PTL

\* It is a behaviour of the plans of a task.
LEMMA PlanningImplemented == ComponentsSpec => P!Spec
<1>1. PickInit => P!Init
  BY DEF PickInit
<1>2. [Step]_allVars => [P!Next]_(P!vars)
  <2>1. CASE PlanningStep
    BY <2>1 DEF PlanningStep
  <2>2. CASE MergeStep \/ DraftsStep \/ InteractionsStep \/ LauncherStep
    BY <2>2 DEF MergeStep, DraftsStep, InteractionsStep, LauncherStep, planVars, P!vars
  <2>3. CASE UNCHANGED allVars
    BY <2>3 DEF allVars, planVars, P!vars
  <2> QED BY <2>1, <2>2, <2>3 DEF Step
<1> QED BY <1>1, <1>2, PTL DEF ComponentsSpec, P!Spec

\* A turn of the board runs only in the conversation that holds the task back
\* (PlanningService.start, begin_turn and recover), but for a start that Codex carries out
\* after the conversation has been accepted or canceled.
THEOREM ComponentsHoldRuns == ComponentsSpec => []OnlyHeldRuns
<1>1. P!Spec => []P!OnlyHeldRuns
  BY P!PlansHeld
<1>2. P!OnlyHeldRuns => OnlyHeldRuns
  BY DEF OnlyHeldRuns
<1> QED BY <1>1, <1>2, PlanningImplemented, PTL

\* A plan is accepted only for the requirements its task has at that moment
\* (PlanningService.accept), unless its turn was told them by a message given up before,
\* they were set back meanwhile, or the conversation has never been told any.
THEOREM ComponentsAcceptForText == ComponentsSpec => AcceptedForText
<1>1. P!Spec => P!AcceptedForText
  BY P!PlansAccepted
<1>2. P!AcceptedForText => AcceptedForText
  BY DEF AcceptedForText
<1> QED BY <1>1, <1>2, PlanningImplemented, PTL

\* It is a behaviour of the interactions of a conversation.
LEMMA InteractionsImplemented == ComponentsSpec => I!Spec
<1>1. PickInit => I!Init
  BY DEF PickInit
<1>2. [Step]_allVars => [I!Next]_(I!vars)
  <2>1. CASE InteractionsStep
    BY <2>1 DEF InteractionsStep
  <2>2. CASE MergeStep \/ PlanningStep \/ DraftsStep \/ LauncherStep
    BY <2>2 DEF MergeStep, PlanningStep, DraftsStep, LauncherStep, interactionVars, I!vars
  <2>3. CASE UNCHANGED allVars
    BY <2>3 DEF allVars, interactionVars, I!vars
  <2> QED BY <2>1, <2>2, <2>3 DEF Step
<1> QED BY <1>1, <1>2, PTL DEF ComponentsSpec, I!Spec

\* What the board calls answered has been answered in Codex, or its answer is in the queue
\* of the task or was dropped from it (resolve_interaction, record_questions,
\* hydrate_activity), where a request is no message.
THEOREM ComponentsAnswerForReal == ASSUME I!Apart PROVE ComponentsSpec => []AnsweredForReal
<1>1. I!Spec => []I!AnsweredForReal
  BY I!AnswersReal
<1>2. I!AnsweredForReal => AnsweredForReal
  BY DEF AnsweredForReal
<1> QED BY <1>1, <1>2, InteractionsImplemented, PTL

-----------------------------------------------------------------------------
(* The launcher, whose sidecars are numbered from 1.                         *)

NumberedSidecars == \E n \in Nat \ {0} : Pids = 1..n

ShellFields == {"child", "gen", "doing", "next", "victim"}
ProcessFields == {"state", "gen", "watch", "exited", "last", "watching", "early", "asked", "stop",
                  "opening", "conn", "stale", "wish"}

\* What a sidecar is while the windows of Codex are those in open.
Sidecar(x, open) ==
  /\ DOMAIN x = ProcessFields
  /\ x.state \in {"none", "starting", "loading", "running", "dead"}
  /\ x.stale \subseteq x.conn /\ x.wish \subseteq open
  /\ x.state = "dead" => x.conn = {}

Launched ==
  /\ DOMAIN shell = ShellFields /\ shell.child \in Pids \cup {0}
  /\ windows \subseteq Windows
  /\ DOMAIN proc = Pids /\ \A q \in Pids : Sidecar(proc[q], windows)

\* One sidecar is written.
LEMMA SidecarWritten ==
  ASSUME Launched, NEW q, NEW x, q \in Pids => Sidecar(x, windows),
         proc' = [proc EXCEPT ![q] = x], windows' = windows,
         DOMAIN shell' = ShellFields, shell'.child \in Pids \cup {0}
  PROVE  Launched'
BY DEF Launched

\* A sidecar that starts has no windows.
LEMMA SidecarFresh ==
  ASSUME NEW n
  PROVE  Sidecar(L!Fresh(n), windows) /\ Sidecar(L!NoProcess, windows)
<1>1. Sidecar(L!NoProcess, windows)
  BY DEF L!NoProcess, Sidecar, ProcessFields
<1> QED BY <1>1 DEF L!Fresh, Sidecar, L!NoProcess

\* Another sidecar is started: the least number that is free.
LEMMA StartsLaunched ==
  ASSUME NumberedSidecars, Launched, NEW sh, DOMAIN sh = ShellFields, L!Starts(sh), windows' = windows
  PROVE  Launched'
<1>1. Pids \subseteq Nat
  BY DEF NumberedSidecars
<1>2. L!Unused \subseteq Pids /\ L!Unused # {}
  BY DEF L!Unused, L!Starts
<1> DEFINE q == CHOOSE n \in L!Unused : \A m \in L!Unused : n <= m
<1>3. q \in Pids
  <2>1. \E n \in L!Unused : \A m \in L!Unused : n <= m
    BY <1>1, <1>2, I!NatMin
  <2> QED BY <1>2, <2>1
<1>4. /\ shell' = [sh EXCEPT !.child = q, !.gen = @ + 1, !.doing = "idle"]
      /\ proc' = [proc EXCEPT ![q] = L!Fresh(sh.gen + 1)]
  BY DEF L!Starts
<1> HIDE DEF q
<1>5. DOMAIN shell' = ShellFields /\ shell'.child = q
  BY <1>4 DEF ShellFields
<1> QED BY <1>3, <1>4, <1>5, SidecarFresh, SidecarWritten

LEMMA LaunchedInit == ASSUME NumberedSidecars, L!Init PROVE Launched
<1>1. PICK first \in {0, 1} :
        /\ shell = [child |-> first, gen |-> 1, doing |-> "idle", next |-> "none", victim |-> 0]
        /\ proc = [q \in Pids |-> IF q = first THEN L!Fresh(1) ELSE L!NoProcess]
  BY DEF L!Init
<1>2. 1 \in Pids
  BY DEF NumberedSidecars
<1>3. DOMAIN shell = ShellFields /\ shell.child \in Pids \cup {0}
  BY <1>1, <1>2 DEF ShellFields
<1>4. \A q \in Pids : Sidecar(proc[q], windows)
  BY <1>1, SidecarFresh
<1> QED BY <1>1, <1>3, <1>4 DEF L!Init, Launched

\* The menu.
LEMMA MenuLaunched ==
  ASSUME NumberedSidecars, Launched,
         L!Open \/ (\E next \in {"start", "exit"} : L!Stop(next)) \/ L!Kill \/ L!Stopped
  PROVE  Launched'
<1>1. windows' = windows
  BY DEF L!Open, L!Stop, L!Kill, L!Stopped
<1>2. CASE L!Open
  <2>1. CASE shell.child # 0
    <3> DEFINE old == proc[shell.child]
               x == [old EXCEPT !.wish = IF L!Lives(shell.child) THEN windows ELSE {}]
    <3>1. Sidecar(old, windows)
      BY <2>1 DEF Launched
    <3>2. proc' = [proc EXCEPT ![shell.child] = x] /\ shell' = shell
      BY <1>2, <2>1 DEF L!Open
    <3> HIDE DEF old
    <3>3. Sidecar(x, windows)
      BY <3>1 DEF Sidecar, ProcessFields
    <3> HIDE DEF x
    <3> QED BY <1>1, <3>2, <3>3, SidecarWritten DEF Launched
  <2>2. CASE shell.child = 0
    BY <1>1, <1>2, <2>2, StartsLaunched DEF L!Open, Launched
  <2> QED BY <2>1, <2>2
<1>3. CASE \E next \in {"start", "exit"} : L!Stop(next)
  <2>1. PICK next \in {"start", "exit"} : L!Stop(next)
    BY <1>3
  <2> DEFINE sh == [shell EXCEPT !.gen = @ + 1, !.child = 0]
  <2>2. DOMAIN sh = ShellFields /\ sh.child = 0
    BY DEF Launched, ShellFields
  <2>3. \/ shell' = [sh EXCEPT !.doing = "stopping", !.victim = shell.child, !.next = next]
           /\ proc' = proc
        \/ L!Starts(sh)
        \/ shell' = [sh EXCEPT !.doing = "gone"] /\ proc' = proc
    BY <2>1 DEF L!Stop
  <2> HIDE DEF sh
  <2>4. CASE L!Starts(sh)
    BY <1>1, <2>2, <2>4, StartsLaunched
  <2>5. CASE ~L!Starts(sh)
    BY <1>1, <2>2, <2>3, <2>5 DEF Launched, ShellFields
  <2> QED BY <2>4, <2>5
<1>4. CASE L!Kill
  <2> DEFINE old == proc[shell.victim]
             x == [L!Dead(old) EXCEPT !.exited = TRUE]
  <2>1. proc' = [proc EXCEPT ![shell.victim] = x] /\ shell' = shell
    BY <1>4 DEF L!Kill
  <2>2. shell.victim \in Pids => Sidecar(old, windows)
    BY DEF Launched
  <2> HIDE DEF old
  <2>3. shell.victim \in Pids => Sidecar(x, windows)
    BY <2>2 DEF L!Dead, Sidecar, ProcessFields
  <2> HIDE DEF x
  <2> QED BY <1>1, <2>1, <2>3, SidecarWritten DEF Launched
<1>5. CASE L!Stopped
  <2>1. L!Starts(shell) \/ (shell' = [shell EXCEPT !.doing = "gone"] /\ proc' = proc)
    BY <1>5 DEF L!Stopped
  <2>2. CASE L!Starts(shell)
    BY <1>1, <2>2, StartsLaunched DEF Launched
  <2>3. CASE shell' = [shell EXCEPT !.doing = "gone"] /\ proc' = proc
    BY <1>1, <2>3 DEF Launched, ShellFields
  <2> QED BY <2>1, <2>2, <2>3
<1> QED BY <1>2, <1>3, <1>4, <1>5

\* The steps of a sidecar and of the thread that watches it.
LEMMA SidecarLaunched ==
  ASSUME Launched, NEW q \in Pids,
         \/ L!Terminated(q) \/ L!Forget(q) \/ L!Watch(q) \/ L!Load(q) \/ L!Run(q)
         \/ L!Poll(q) \/ L!Show(q) \/ L!Halt(q) \/ L!Die(q)
  PROVE  Launched'
<1> DEFINE old == proc[q]
<1>1. windows' = windows /\ Sidecar(old, windows)
  BY DEF Launched, L!Terminated, L!Forget, L!Watch, L!Load, L!Run, L!Poll, L!Show, L!Halt, L!Die
<1>2. DOMAIN shell' = ShellFields /\ shell'.child \in Pids \cup {0}
  BY DEF Launched, ShellFields, L!Terminated, L!Forget, L!Watch, L!Load, L!Run, L!Poll, L!Show,
         L!Halt, L!Die
<1>3. PICK x : Sidecar(x, windows) /\ proc' = [proc EXCEPT ![q] = x]
  <2>1. CASE L!Terminated(q)
    <3> DEFINE x == [old EXCEPT !.exited = TRUE, !.watch = IF shell.gen = old.gen THEN "forgetting" ELSE "none"]
    <3>1. proc' = [proc EXCEPT ![q] = x]
      BY <2>1 DEF L!Terminated, Launched
    <3> HIDE DEF old
    <3>2. Sidecar(x, windows)
      BY <1>1 DEF Sidecar, ProcessFields
    <3> QED BY <3>1, <3>2
  <2>2. CASE L!Forget(q)
    <3> DEFINE x == [old EXCEPT !.watch = "none"]
    <3>1. proc' = [proc EXCEPT ![q] = x]
      BY <2>2 DEF L!Forget
    <3> HIDE DEF old
    <3>2. Sidecar(x, windows)
      BY <1>1 DEF Sidecar, ProcessFields
    <3> QED BY <3>1, <3>2
  <2>3. CASE L!Watch(q)
    <3> DEFINE x == L!Heard(old)
    <3>1. proc' = [proc EXCEPT ![q] = x]
      BY <2>3 DEF L!Watch
    <3> HIDE DEF old
    <3>2. Sidecar(x, windows)
      BY <1>1 DEF L!Heard, Sidecar, ProcessFields
    <3> QED BY <3>1, <3>2
  <2>4. CASE L!Load(q) \/ L!Run(q)
    <3> DEFINE l == [old EXCEPT !.state = "loading"]
               r == [old EXCEPT !.state = "running", !.asked = @ \/ old.early]
    <3>1. proc' = [proc EXCEPT ![q] = l] \/ proc' = [proc EXCEPT ![q] = r]
      BY <2>4 DEF L!Load, L!Run, Launched
    <3> HIDE DEF old
    <3>2. Sidecar(l, windows) /\ Sidecar(r, windows)
      BY <1>1 DEF Sidecar, ProcessFields
    <3> QED BY <3>1, <3>2
  <2>5. CASE L!Poll(q)
    <3>1. PICK injected \in SUBSET (windows \ old.conn) :
            proc' = [proc EXCEPT ![q] = [old EXCEPT
              !.conn = ((@ \cap windows) \ old.stale) \cup injected, !.stale = {},
              !.wish = @ \ injected, !.opening = old.asked, !.asked = FALSE]]
      BY <2>5 DEF L!Poll
    <3> DEFINE x == [old EXCEPT
              !.conn = ((@ \cap windows) \ old.stale) \cup injected, !.stale = {},
              !.wish = @ \ injected, !.opening = old.asked, !.asked = FALSE]
    <3>2. old.state = "running"
      BY <2>5 DEF L!Poll
    <3>3. proc' = [proc EXCEPT ![q] = x]
      BY <3>1
    <3> HIDE DEF old
    <3>4. Sidecar(x, windows)
      BY <1>1, <3>2 DEF Sidecar, ProcessFields
    <3> QED BY <3>3, <3>4
  <2>6. CASE L!Show(q)
    <3> DEFINE x == [old EXCEPT !.opening = FALSE,
                       !.wish = IF old.stop THEN @ ELSE @ \ (old.conn \ old.stale)]
    <3>1. proc' = [proc EXCEPT ![q] = x]
      BY <2>6 DEF L!Show, Launched
    <3> HIDE DEF old
    <3>2. Sidecar(x, windows)
      BY <1>1 DEF Sidecar, ProcessFields
    <3> QED BY <3>1, <3>2
  <2>7. CASE L!Halt(q) \/ L!Die(q)
    <3> DEFINE x == L!Dead(old)
    <3>1. proc' = [proc EXCEPT ![q] = x]
      BY <2>7 DEF L!Halt, L!Die
    <3> HIDE DEF old
    <3>2. Sidecar(x, windows)
      BY <1>1 DEF L!Dead, Sidecar, ProcessFields
    <3> QED BY <3>1, <3>2
  <2> QED BY <2>1, <2>2, <2>3, <2>4, <2>5, <2>6, <2>7
<1> QED BY <1>1, <1>2, <1>3, SidecarWritten

\* Codex.
LEMMA CodexLaunched ==
  ASSUME Launched,
         \/ \E q \in Pids, t \in Windows : L!Break(q, t)
         \/ \E t \in Windows : L!CloseWindow(t) \/ L!OpenWindow(t)
  PROVE  Launched'
<1>1. CASE \E q \in Pids, t \in Windows : L!Break(q, t)
  <2>1. PICK q \in Pids, t \in Windows : L!Break(q, t)
    BY <1>1
  <2> DEFINE old == proc[q]
             x == [old EXCEPT !.stale = @ \cup {t}]
  <2>2. proc' = [proc EXCEPT ![q] = x] /\ shell' = shell /\ windows' = windows /\ t \in old.conn
    BY <2>1 DEF L!Break
  <2>3. Sidecar(old, windows)
    BY DEF Launched
  <2> HIDE DEF old
  <2>4. Sidecar(x, windows)
    BY <2>2, <2>3 DEF Sidecar, ProcessFields
  <2> HIDE DEF x
  <2> QED BY <2>2, <2>4, SidecarWritten DEF Launched
<1>2. CASE \E t \in Windows : L!CloseWindow(t)
  <2>1. PICK t \in Windows : L!CloseWindow(t)
    BY <1>2
  <2>2. shell' = shell /\ windows' = windows \ {t} /\ DOMAIN proc' = Pids
    BY <2>1 DEF L!CloseWindow
  <2>3. ASSUME NEW q \in Pids PROVE Sidecar(proc'[q], windows \ {t})
    <3> DEFINE old == proc[q]
    <3>1. proc'[q] = [old EXCEPT !.wish = @ \ {t}]
      BY <2>1 DEF L!CloseWindow
    <3>2. Sidecar(old, windows)
      BY DEF Launched
    <3> HIDE DEF old
    <3> QED BY <3>1, <3>2 DEF Sidecar, ProcessFields
  <2> QED BY <2>2, <2>3 DEF Launched
<1>3. CASE \E t \in Windows : L!OpenWindow(t)
  BY <1>3 DEF L!OpenWindow, Launched, Sidecar
<1> QED BY <1>1, <1>2, <1>3

LEMMA LaunchedAlways == ASSUME NumberedSidecars PROVE L!Spec => []Launched
<1>1. L!Init => Launched
  BY LaunchedInit
<1>2. Launched /\ [L!Next]_(L!vars) => Launched'
  <2>1. CASE Launched /\ L!Next
    BY <2>1, MenuLaunched, SidecarLaunched, CodexLaunched DEF L!Next
  <2>2. CASE Launched /\ UNCHANGED L!vars
    BY <2>2 DEF L!vars, Launched, Sidecar
  <2> QED BY <2>1, <2>2
<1> QED BY <1>1, <1>2, PTL DEF L!Spec

\* The composition is a behaviour of the launcher and of the drafts of a group.
LEMMA LauncherImplemented == ComponentsSpec => L!Spec
<1>1. PickInit => L!Init
  BY DEF PickInit
<1>2. [Step]_allVars => [L!Next]_(L!vars)
  <2>1. CASE LauncherStep
    BY <2>1 DEF LauncherStep
  <2>2. CASE MergeStep \/ PlanningStep \/ DraftsStep \/ InteractionsStep
    BY <2>2 DEF MergeStep, PlanningStep, DraftsStep, InteractionsStep, launcherVars, L!vars
  <2>3. CASE UNCHANGED allVars
    BY <2>3 DEF allVars, launcherVars, L!vars
  <2> QED BY <2>1, <2>2, <2>3 DEF Step
<1> QED BY <1>1, <1>2, PTL DEF ComponentsSpec, L!Spec

LEMMA DraftsImplemented == ComponentsSpec => Init /\ [][Next]_vars
<1>1. PickInit => Init
  BY DEF PickInit
<1>2. [Step]_allVars => [Next]_vars
  <2>1. CASE DraftsStep
    BY <2>1 DEF DraftsStep
  <2>2. CASE MergeStep \/ PlanningStep \/ InteractionsStep \/ LauncherStep
    BY <2>2 DEF MergeStep, PlanningStep, InteractionsStep, LauncherStep, vars
  <2>3. CASE UNCHANGED allVars
    BY <2>3 DEF allVars, vars
  <2> QED BY <2>1, <2>2, <2>3 DEF Step
<1> QED BY <1>1, <1>2, PTL DEF ComponentsSpec

\* Rows, operations, sidecars and worker of every component are always in a state the
\* code knows, for scenarios of counted operations, requests that are no messages and
\* sidecars numbered from 1.
THEOREM ComponentsTyped ==
  ASSUME Scenario \subseteq M!Scenarios, I!Apart, NumberedSidecars
  PROVE  ComponentsSpec => []AllTyped
<1>1. M!Spec => []M!TypeOK
  BY M!MergeTyped
<1>2. P!Spec => []P!TypeOK
  BY P!PlanTyped
<1>3. Spec => []TypeOK
  BY DraftsTyped
<1>4. I!Spec => []I!TypeOK
  BY I!InteractionsTyped
<1>5. L!Spec => []Launched
  BY LaunchedAlways
<1>6. Launched => L!TypeOK
  BY DEF Launched, Sidecar, L!TypeOK
<1>7. M!TypeOK /\ P!TypeOK /\ TypeOK /\ I!TypeOK /\ L!TypeOK => AllTyped
  BY DEF AllTyped
<1> QED
  BY <1>1, <1>2, <1>3, <1>4, <1>5, <1>6, <1>7, MergeImplemented, PlanningImplemented,
     DraftsImplemented, InteractionsImplemented, LauncherImplemented, PTL DEF Spec
=============================================================================
