------------------------------ MODULE MCDispatch ------------------------------
(* Small boards for Dispatch.                                               *)
EXTENDS Dispatch, TLC

CONSTANTS a, b, c, g, main

All(ts, v) == [t \in ts |-> v]
Self(ts) == [t \in ts |-> t]
Paths == {<<"src">>, <<"src", "ui">>, <<"docs">>}
Unlimited == All({main}, 0)
One == All({main}, 1)

\* pair: a managed task and a local exclusive one that need the same port.
PairTask == {a, b}
PairRoot == Self(PairTask)
PairRepo == All(PairTask, main)
PairRank == (a :> 1) @@ (b :> 2)
PairBlockers == All(PairTask, {})
PairNeeds == All(PairTask, {"port"})
PairMode == (a :> "parallel") @@ (b :> "exclusive")
PairScopes == (a :> {<<"src">>}) @@ (b :> {<<"src", "ui">>})
PairCanDo ==
  (a :> Operation \ {"feedback", "draft", "merge_retry"}) @@
  (b :> {"run", "finish", "native", "follow_up", "fail", "pause"})

\* chain: a task, its consumer and the consumer of that, on a budget of one.
ChainTask == {a, b, c}
ChainRoot == Self(ChainTask)
ChainRepo == All(ChainTask, main)
ChainRank == (a :> 1) @@ (b :> 2) @@ (c :> 3)
ChainBlockers == (a :> {}) @@ (b :> {a}) @@ (c :> {b})
ChainNeeds == All(ChainTask, {})
ChainMode == All(ChainTask, "parallel")
ChainScopes == All(ChainTask, {<<"docs">>})
ChainCanDo ==
  (a :> {"run", "follow_up", "native", "pause", "resume", "fail", "retry"}) @@
  (b :> {"run", "retry", "lost", "native", "attention", "feedback", "cancel"}) @@
  (c :> {"run", "quota", "draft"})

\* rework: the chain while the user follows up on the delivered blocker.

\* missed: the chain while the user works on the blocker's thread in Codex.
MissedCanDo == (a :> {"run", "missed"}) @@ (b :> {"run"}) @@ (c :> {})

\* retry: one task followed up while its result is being merged.
RetryCanDo == (a :> {"run", "follow_up", "merge_retry"}) @@ (b :> {"run"})

\* group: a group of two subtasks, and an exclusive outsider.
GroupTask == {a, b, c, g}
GroupRoot == (a :> g) @@ (b :> g) @@ (c :> c) @@ (g :> g)
GroupRepo == All(GroupTask, main)
GroupRank == (c :> 1) @@ (g :> 2) @@ (a :> 3) @@ (b :> 4)
GroupBlockers == (a :> {}) @@ (b :> {a}) @@ (c :> {}) @@ (g :> {})
GroupNeeds == (a :> {"port"}) @@ (b :> {"port"}) @@ (c :> {"port"}) @@ (g :> {})
GroupMode == (a :> "parallel") @@ (b :> "parallel") @@ (c :> "exclusive") @@ (g :> "parallel")
GroupScopes == (a :> {<<"src">>}) @@ (b :> {<<"src", "ui">>}) @@ (c :> {}) @@ (g :> {})
GroupCanDo ==
  (a :> {"run", "follow_up"}) @@ (b :> {"native"}) @@ (c :> {"run"}) @@
  (g :> {"group", "pause", "fail"})

\* barrier: the same board with no shared resource and only willing users.
BarrierNeeds == All(GroupTask, {})
BarrierCanDo == (a :> {}) @@ (b :> {}) @@ (c :> {"run"}) @@ (g :> {"group"})

\* drain: exclusive tasks between parallel ones, all of them started by users
\* or by automation and none held back by a user.
DrainTask == {a, b, c, g}
DrainRoot == Self(DrainTask)
DrainRepo == All(DrainTask, main)
DrainRank == (a :> 1) @@ (b :> 2) @@ (c :> 3) @@ (g :> 4)
DrainBlockers == (a :> {}) @@ (b :> {}) @@ (c :> {a}) @@ (g :> {})
DrainNeeds == All(DrainTask, {})
DrainMode == (a :> "parallel") @@ (b :> "exclusive") @@ (c :> "exclusive") @@ (g :> "parallel")
DrainScopes == (a :> {<<"src">>}) @@ (b :> {}) @@ (c :> {}) @@ (g :> {<<"src", "ui">>})
DrainCanDo == (a :> {"run", "fail"}) @@ (b :> {"run"}) @@ (c :> {"run"})
           @@ (g :> {"run", "retry", "fail"})
=============================================================================
