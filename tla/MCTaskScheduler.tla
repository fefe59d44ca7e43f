-------------------------- MODULE MCTaskScheduler --------------------------
(***************************************************************************)
(* Instances of TaskScheduler for TLC: two pods that share the database and *)
(* Redis, and a task that is run as a script, by injection or on a JID of   *)
(* its own (Init chooses).                                                  *)
(***************************************************************************)
EXTENDS TaskScheduler

CONSTANTS p1, p2,    \* pods
          report,    \* a task
          pid1, pid2

\* In containers of their own both pods may have the same pid.
SamePid == [p \in Pods |-> pid1]
DistinctPids == [p \in Pods |-> IF p = p1 THEN pid1 ELSE pid2]
=============================================================================
