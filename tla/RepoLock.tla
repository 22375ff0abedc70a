------------------------------- MODULE RepoLock -------------------------------
(***************************************************************************)
(* What the execution leases promise: per repository a readers-writer lock  *)
(* whose holders are tasks and whose owners are root tasks.  Executions of  *)
(* one root never exclude each other; an exclusive one excludes every       *)
(* execution of another root.                                              *)
(***************************************************************************)
CONSTANTS Task, RootOf, RepoOf

VARIABLE holds \* the mode a task holds the lock of its repository in

Free == "none"

Compatible(t, m, o) ==
  \/ holds[o] = Free
  \/ RepoOf[o] # RepoOf[t]
  \/ RootOf[o] = RootOf[t]
  \/ m = "parallel" /\ holds[o] = "parallel"

Init == holds = [t \in Task |-> Free]

Enter(t, m) ==
  /\ \A o \in Task \ {t} : Compatible(t, m, o)
  /\ holds' = [holds EXCEPT ![t] = m]

\* Some holders let go.
Leave ==
  /\ holds' \in [Task -> {Free, "exclusive", "parallel"}]
  /\ \A t \in Task : holds'[t] \in {Free, holds[t]}

Next == Leave \/ \E t \in Task, m \in {"exclusive", "parallel"} : Enter(t, m)

Spec == Init /\ [][Next]_holds
=============================================================================
