--------------------------- MODULE GraphRunProofs ---------------------------
(***************************************************************************)
(* Theorems about GraphRun, for every graph, every number of loops and     *)
(* every bound.                                                            *)
(***************************************************************************)
EXTENDS GraphRun, TLAPS

USE DEF Gates

-----------------------------------------------------------------------------
(* Types.                                                                  *)

LEMMA OffType == Off \in Loop
  BY BoundsAssumption DEF Off, Loop, State, NoState, Exec, Out, Stages

LEMMA AttemptType ==
  ASSUME NEW k \in 1..MaxAttempts
  PROVE  Attempt(k) \in Exec
  BY BoundsAssumption DEF Attempt, Exec, Stages

\* A pass keeps the types, whatever memory it starts from.
LEMMA PassType ==
  ASSUME NEW l \in Loops, NEW L \in Loop, NEW st \in RunStatus,
         loop \in [Loops -> Loop], Pass(l, L, st)
  PROVE  status' \in RunStatus /\ loop' \in [Loops -> Loop]
<1>1. [L EXCEPT !.phase = "polling"] \in Loop
  BY DEF Loop
<1>2. [L EXCEPT !.phase = "batch",
                !.exec = [n \in Nodes |->
                            IF n \in Batch(L) THEN Attempt(1) ELSE Out]] \in Loop
  <2>1. Attempt(1) \in Exec
    BY AttemptType, BoundsAssumption
  <2>2. Out \in Exec
    BY BoundsAssumption DEF Out, Exec, Stages
  <2>3. [n \in Nodes |-> IF n \in Batch(L) THEN Attempt(1) ELSE Out]
          \in [Nodes -> Exec]
    BY <2>1, <2>2
  <2> QED BY <2>3 DEF Loop
<1> QED BY <1>1, <1>2, OffType DEF Pass, RunStatus

\* So does the merge of a batch.
LEMMA AbsorbedType ==
  ASSUME NEW L \in Loop
  PROVE  Absorbed(L) \in Loop
<1>1. Finished(L) \in SUBSET Nodes
  BY DEF Finished, Handled, BatchOf
<1>2. (L.completed \cup Finished(L)) \ {Upstream[g] : g \in Retried(L)}
        \in SUBSET Nodes
  BY <1>1 DEF Loop
<1>3. L.state.merged \cup Finished(L) \in SUBSET Nodes
  BY <1>1 DEF Loop, State
<1>4. [n \in Nodes |-> IF n \in Finished(L) \cap Branches
                         THEN L.exec[n].choice ELSE L.state.taken[n]]
        \in [Nodes -> Choices \cup {NoChoice}]
  BY DEF Loop, State, Exec
<1>5. [g \in Gates |-> IF g \in Retried(L) THEN L.tries[g] + 1 ELSE L.tries[g]]
        \in [Gates -> 0..GateRetryMax]
  BY BoundsAssumption DEF Loop, Retried, Retries
<1>6. [n \in Nodes |-> Out] \in [Nodes -> Exec]
  BY BoundsAssumption DEF Out, Exec, Stages
<1> QED BY <1>2, <1>3, <1>4, <1>5, <1>6 DEF Absorbed, Loop, State

LEMMA EnterType ==
  ASSUME NEW l \in Loops, NEW completed \in SUBSET Nodes, NEW state \in State,
         loop \in [Loops -> Loop], Enter(l, completed, state)
  PROVE  status' \in RunStatus /\ loop' \in [Loops -> Loop]
<1>1. [Off EXCEPT !.completed = completed, !.state = state] \in Loop
  BY OffType DEF Loop
<1> QED BY <1>1, PassType DEF Enter, RunStatus

LEMMA SetExecType ==
  ASSUME NEW l \in Loops, NEW n \in Nodes, NEW x \in Exec,
         loop \in [Loops -> Loop], SetExec(l, n, x)
  PROVE  loop' \in [Loops -> Loop]
  BY DEF SetExec, Loop

LEMMA TypeInit == Init => TypeOK
  BY OffType, BoundsAssumption DEF Init, TypeOK, RunStatus, State, NoState

\* Every step of a loop keeps the types.
LEMMA LoopTypeStep ==
  ASSUME NEW l \in Loops, TypeOK, LoopStep(l)
  PROVE  TypeOK'
<1> USE DEF TypeOK
<1>1. \A n \in Nodes : loop[l].exec[n] \in Exec
  BY DEF Loop
<1>2. ASSUME NEW n \in Nodes, NodeCompletes(l, n)
      PROVE  TypeOK'
  <2>1. PICK ch \in IF n \in Branches THEN Choices ELSE {NoChoice} :
          SetExec(l, n, [loop[l].exec[n] EXCEPT !.at = "completed",
                                                !.choice = ch])
    BY <1>2 DEF NodeCompletes
  <2>2. [loop[l].exec[n] EXCEPT !.at = "completed", !.choice = ch] \in Exec
    BY <1>1 DEF Exec, Stages
  <2> QED BY <1>2, <2>1, <2>2, SetExecType DEF NodeCompletes
<1>3. ASSUME NEW n \in Nodes, NodeFails(l, n)
      PROVE  TypeOK'
  <2> DEFINE x == loop[l].exec[n]
             y == [x EXCEPT !.at = IF x.attempt < MaxAttempts
                                     THEN "backoff" ELSE "failed"]
  <2>1. y \in Exec
    BY <1>1 DEF Exec, Stages
  <2>2. SetExec(l, n, y)
    BY <1>3 DEF NodeFails
  <2> QED BY <1>3, <2>1, <2>2, SetExecType DEF NodeFails
<1>4. ASSUME NEW n \in Nodes, HumanParks(l, n)
      PROVE  TypeOK'
  <2>1. [loop[l].exec[n] EXCEPT !.at = "paused"] \in Exec
    BY <1>1 DEF Exec, Stages
  <2>2. parked' \in [Humans -> Nat]
    BY <1>4, BoundsAssumption DEF HumanParks
  <2> QED BY <1>4, <2>1, <2>2, SetExecType DEF HumanParks
<1>5. ASSUME NEW n \in Nodes, RetryNode(l, n)
      PROVE  TypeOK'
  <2> DEFINE x == loop[l].exec[n]
             y == IF status = "cancelled" THEN [x EXCEPT !.at = "skipped"]
                  ELSE IF status = "paused" THEN [x EXCEPT !.at = "paused"]
                  ELSE Attempt(x.attempt + 1)
  <2>1. SetExec(l, n, y)
    BY <1>5 DEF RetryNode
  <2>2. [x EXCEPT !.at = "skipped"] \in Exec /\ [x EXCEPT !.at = "paused"] \in Exec
    BY <1>1 DEF Exec, Stages
  <2>3. x.attempt + 1 \in 1..MaxAttempts
    <3>1. x.at = "backoff"
      BY <1>5 DEF RetryNode
    <3>2. x.attempt \in 0..MaxAttempts /\ x.attempt < MaxAttempts
      BY <1>1, <3>1 DEF Exec
    <3> QED BY <3>2, BoundsAssumption
  <2>4. y \in Exec
    BY <2>2, <2>3, AttemptType
  <2> QED BY <1>5, <2>1, <2>4, SetExecType DEF RetryNode
<1>6. ASSUME Settle(l)
      PROVE  TypeOK'
  <2>1. Absorbed(loop[l]) \in Loop
    BY AbsorbedType
  <2>2. saved' \in State
    BY <1>6, <2>1 DEF Settle, Loop
  <2>3. status' \in RunStatus /\ loop' \in [Loops -> Loop]
    BY <1>6, <2>1, PassType, OffType DEF Settle, RunStatus
  <2> QED BY <1>6, <2>2, <2>3 DEF Settle
<1>7. ASSUME Poll(l)
      PROVE  TypeOK'
  <2>1. loop[l] \in Loop
    OBVIOUS
  <2>2. saved' \in State
    BY <1>7, <2>1 DEF Poll, Loop
  <2>3. status' \in RunStatus /\ loop' \in [Loops -> Loop]
    BY <1>7, <2>1, PassType DEF Poll
  <2> QED BY <1>7, <2>2, <2>3 DEF Poll
<1> QED BY <1>2, <1>3, <1>4, <1>5, <1>6, <1>7 DEF LoopStep

\* Every step of the run keeps the types.
LEMMA TypeStep ==
  ASSUME TypeOK, [Next]_vars
  PROVE  TypeOK'
<1>1. ASSUME NEW l \in Loops, Start(l)
      PROVE  TypeOK'
  BY <1>1, EnterType DEF Start, TypeOK
<1>2. ASSUME NEW l \in Loops, LoopStep(l)
      PROVE  TypeOK'
  BY <1>2, LoopTypeStep
<1>3. ASSUME Pause \/ Cancel
      PROVE  TypeOK'
  BY <1>3 DEF Pause, Cancel, TypeOK, RunStatus
<1>4. ASSUME NEW l \in Loops, Resume(l)
      PROVE  TypeOK'
  BY <1>4, EnterType DEF Resume, TypeOK
<1>5. ASSUME NEW l \in Loops, NEW h \in Humans, Approve(l, h)
      PROVE  TypeOK'
  <2> DEFINE with == [saved EXCEPT !.merged = @ \cup {h}]
  <2>1. h \in Nodes
    BY GraphAssumption
  <2>2. with \in State /\ done \cup {h} \in SUBSET Nodes
    BY <2>1 DEF TypeOK, State
  <2>3. parked' \in [Humans -> Nat]
    BY <1>5, BoundsAssumption DEF Approve, TypeOK
  <2>4. Enter(l, done \cup {h}, with)
    BY <1>5 DEF Approve
  <2>5. status' \in RunStatus /\ loop' \in [Loops -> Loop]
    BY <2>2, <2>4, EnterType DEF TypeOK
  <2> QED BY <1>5, <2>2, <2>3, <2>5 DEF Approve, TypeOK
<1>6. ASSUME NEW l \in Loops, NEW n \in Nodes, Rerun(l, n)
      PROVE  TypeOK'
  <2>1. done \ {n} \in SUBSET Nodes
    BY DEF TypeOK
  <2>2. parked' \in [Humans -> Nat]
    BY <1>6, BoundsAssumption DEF Rerun, TypeOK
  <2>3. status' \in RunStatus /\ loop' \in [Loops -> Loop]
    BY <1>6, <2>1, EnterType DEF Rerun, TypeOK
  <2> QED BY <1>6, <2>1, <2>2, <2>3 DEF Rerun, TypeOK
<1>7. ASSUME Restart
      PROVE  TypeOK'
  <2>1. loop' \in [Loops -> Loop]
    BY <1>7, OffType DEF Restart
  <2>2. orphans' \in SUBSET Nodes
    BY <1>7 DEF Restart, TypeOK, Executing
  <2> QED BY <1>7, <2>1, <2>2 DEF Restart, TypeOK, RunStatus
<1>8. ASSUME UNCHANGED vars
      PROVE  TypeOK'
  BY <1>8 DEF vars, TypeOK
<1> QED BY <1>1, <1>2, <1>3, <1>4, <1>5, <1>6, <1>7, <1>8
    DEF Next, BusyNext, CalmNext, KeptNext, Engine, Restarting

\* The types of the model hold in every state: among them that a gate is
\* retried below GateRetryMax and a node attempted at most MaxAttempts times.
THEOREM GraphTypeCorrect == Spec => []TypeOK
<1>1. Init => TypeOK
  BY TypeInit
<1>2. TypeOK /\ [Next]_vars => TypeOK'
  BY TypeStep
<1> QED BY <1>1, <1>2, PTL DEF Spec

-----------------------------------------------------------------------------
(* A running run has a loop.                                               *)

\* A pass that leaves the run 'running' leaves its loop on.
LEMMA PassRuns ==
  ASSUME NEW l \in Loops, NEW L \in Loop, NEW st,
         loop \in [Loops -> Loop], Pass(l, L, st), status' = "running"
  PROVE  loop'[l].phase # "off"
<1>1. [L EXCEPT !.phase = "polling"].phase = "polling"
  BY DEF Loop
<1>2. \A x : [L EXCEPT !.phase = "batch", !.exec = x].phase = "batch"
  BY DEF Loop
<1>3. \/ loop' = [loop EXCEPT ![l] = [L EXCEPT !.phase = "polling"]]
      \/ \E x : loop' = [loop EXCEPT ![l] = [L EXCEPT !.phase = "batch",
                                                      !.exec = x]]
  BY DEF Pass
<1> QED BY <1>1, <1>2, <1>3

LEMMA EnterRuns ==
  ASSUME NEW l \in Loops, NEW completed \in SUBSET Nodes, NEW state \in State,
         loop \in [Loops -> Loop], Enter(l, completed, state), status' = "running"
  PROVE  loop'[l].phase # "off"
<1>1. [Off EXCEPT !.completed = completed, !.state = state] \in Loop
  BY OffType DEF Loop
<1> QED BY <1>1, PassRuns DEF Enter

\* The steps of a node leave every loop on that was on.
LEMMA SetExecPhase ==
  ASSUME NEW l \in Loops, NEW n \in Nodes, NEW x,
         loop \in [Loops -> Loop], SetExec(l, n, x)
  PROVE  \A k \in Loops : loop'[k].phase = loop[k].phase
  BY DEF SetExec, Loop

LEMMA RunningHasLoopStep ==
  ASSUME TypeOK, RunningHasLoop, [Next]_vars
  PROVE  RunningHasLoop'
<1> SUFFICES ASSUME status' = "running"
             PROVE  \E l \in Loops : loop'[l].phase # "off"
  BY DEF RunningHasLoop
<1> USE DEF TypeOK
<1>1. ASSUME NEW l \in Loops, Start(l)
      PROVE  loop'[l].phase # "off"
  BY <1>1, EnterRuns DEF Start
<1>2. ASSUME NEW l \in Loops, NEW n \in Nodes,
             NodeCompletes(l, n) \/ NodeFails(l, n) \/ HumanParks(l, n)
               \/ RetryNode(l, n)
      PROVE  \E k \in Loops : loop'[k].phase # "off"
  <2>1. status = "running" /\ \E x : SetExec(l, n, x)
    BY <1>2 DEF NodeCompletes, NodeFails, HumanParks, RetryNode
  <2> QED BY <2>1, SetExecPhase DEF RunningHasLoop
<1>3. ASSUME NEW l \in Loops, Settle(l)
      PROVE  loop'[l].phase # "off"
  <2>1. Absorbed(loop[l]) \in Loop
    BY AbsorbedType
  <2>2. Pass(l, Absorbed(loop[l]), status)
    BY <1>3 DEF Settle
  <2> QED BY <2>1, <2>2, PassRuns
<1>4. ASSUME NEW l \in Loops, Poll(l)
      PROVE  loop'[l].phase # "off"
  <2>1. loop[l] \in Loop
    OBVIOUS
  <2> QED BY <1>4, <2>1, PassRuns DEF Poll
<1>5. ASSUME NEW l \in Loops, Resume(l)
      PROVE  loop'[l].phase # "off"
  BY <1>5, EnterRuns DEF Resume
<1>6. ASSUME NEW l \in Loops, NEW h \in Humans, Approve(l, h)
      PROVE  loop'[l].phase # "off"
  <2> DEFINE with == [saved EXCEPT !.merged = @ \cup {h}]
  <2>1. with \in State /\ done \cup {h} \in SUBSET Nodes
    BY GraphAssumption DEF State
  <2>2. Enter(l, done \cup {h}, with)
    BY <1>6 DEF Approve
  <2> QED BY <2>1, <2>2, EnterRuns
<1>7. ASSUME NEW l \in Loops, NEW n \in Nodes, Rerun(l, n)
      PROVE  loop'[l].phase # "off"
  <2>1. done \ {n} \in SUBSET Nodes
    OBVIOUS
  <2> QED BY <1>7, <2>1, EnterRuns DEF Rerun
<1>8. ~Pause /\ ~Cancel /\ ~Restart
  BY DEF Pause, Cancel, Restart
<1>9. CASE UNCHANGED vars
  BY <1>9 DEF vars, RunningHasLoop
<1> QED BY <1>1, <1>2, <1>3, <1>4, <1>5, <1>6, <1>7, <1>8, <1>9
    DEF Next, BusyNext, CalmNext, KeptNext, Engine, LoopStep, Restarting

\* A run never says 'running' without a loop, whatever the user requests and
\* whenever the process is restarted.
THEOREM RunningRunHasLoop == Spec => []RunningHasLoop
<1>1. Init => RunningHasLoop
  BY DEF Init, RunningHasLoop
<1>2. TypeOK /\ RunningHasLoop /\ [Next]_vars => RunningHasLoop'
  BY RunningHasLoopStep
<1> QED BY <1>1, <1>2, GraphTypeCorrect, PTL DEF Spec

-----------------------------------------------------------------------------
(* Without single reruns: what the loops know is in the database, and what *)
(* executes, waits or is done has its predecessors done.                   *)

Before(n) == Order!Predecessors(n)

\* The memory L of a loop, when the rows say that the nodes of rows are done.
Known(L, rows) ==
  /\ L.completed \subseteq rows
  /\ \A n \in Nodes : L.exec[n].at = "completed" => n \in rows
  /\ \A n \in Nodes : L.exec[n].at # "out" => Before(n) \subseteq rows

OrderInv ==
  /\ \A l \in Loops : Known(loop[l], done)
  /\ \A h \in Humans : parked[h] > 0 => Before(h) \subseteq done
  /\ CompletedMeansAllNodes

LEMMA KnownOff ==
  ASSUME NEW rows
  PROVE  Known(Off, rows)
  BY DEF Known, Off, Out

LEMMA KnownGrows ==
  ASSUME NEW L, NEW rows, NEW more, rows \subseteq more, Known(L, rows)
  PROVE  Known(L, more)
  BY DEF Known

\* A node is ready when its predecessors are completed.
LEMMA ReadyAfterPredecessors ==
  ASSUME NEW L, NEW n \in Batch(L)
  PROVE  Before(n) \subseteq L.completed
  BY DEF Batch, Ready, EdgeActive, Before, Order!Predecessors

\* The merge of a batch learns of no node without a completed row.
LEMMA KnownAbsorbed ==
  ASSUME NEW L \in Loop, NEW rows, Known(L, rows)
  PROVE  Known(Absorbed(L), rows)
<1>1. Finished(L) \subseteq rows
  BY DEF Finished, Handled, BatchOf, Known
<1>2. Absorbed(L).completed \subseteq rows
  BY <1>1 DEF Absorbed, Known
<1>3. \A n \in Nodes : Absorbed(L).exec[n].at = "out"
  BY DEF Absorbed, Out
<1> QED BY <1>2, <1>3 DEF Known

\* A pass keeps what the loops know, and completes the run only when every
\* node is done.
LEMMA PassKnown ==
  ASSUME NEW l \in Loops, NEW L \in Loop, NEW st, NEW rows \in SUBSET Nodes,
         loop \in [Loops -> Loop], Pass(l, L, st),
         \A k \in Loops : Known(loop[k], rows), Known(L, rows),
         st = "completed" => rows = Nodes
  PROVE  /\ \A k \in Loops : Known(loop'[k], rows)
         /\ status' = "completed" => rows = Nodes
<1> DEFINE polling == [L EXCEPT !.phase = "polling"]
           batch == [n \in Nodes |-> IF n \in Batch(L) THEN Attempt(1) ELSE Out]
           running == [L EXCEPT !.phase = "batch", !.exec = batch]
<1>1. Known(polling, rows)
  BY DEF Known, Loop
<1>2. Known(running, rows)
  <2>1. running.completed = L.completed /\ running.exec = batch
    BY DEF Loop
  <2>2. \A n \in Nodes : /\ batch[n].at # "completed"
                         /\ batch[n].at # "out" => n \in Batch(L)
    BY DEF Attempt, Out
  <2>3. \A n \in Batch(L) : Before(n) \subseteq rows
    BY ReadyAfterPredecessors DEF Known
  <2> HIDE DEF batch
  <2> QED BY <2>1, <2>2, <2>3 DEF Known
<1>3. \/ loop' = [loop EXCEPT ![l] = Off]
      \/ loop' = [loop EXCEPT ![l] = polling]
      \/ loop' = [loop EXCEPT ![l] = running]
  BY DEF Pass
<1>4. status' = "completed" => rows = Nodes
  <2>1. status' = "completed" => AllCompleted(L) \/ st = "completed"
    BY DEF Pass
  <2> QED BY <2>1 DEF AllCompleted, Known
<1> HIDE DEF polling, running
<1> QED BY <1>1, <1>2, <1>3, <1>4, KnownOff

LEMMA EnterKnown ==
  ASSUME NEW l \in Loops, NEW completed \in SUBSET Nodes, NEW state \in State,
         loop \in [Loops -> Loop], Enter(l, completed, state),
         \A k \in Loops : Known(loop[k], completed)
  PROVE  /\ \A k \in Loops : Known(loop'[k], completed)
         /\ status' = "completed" => completed = Nodes
<1> DEFINE L == [Off EXCEPT !.completed = completed, !.state = state]
<1>1. L \in Loop
  BY OffType DEF Loop
<1>2. Known(L, completed)
  BY DEF Known, Off, Out
<1>3. Pass(l, L, "running")
  BY DEF Enter
<1> HIDE DEF L
<1> QED BY <1>1, <1>2, <1>3, PassKnown

\* A node whose predecessors are done changes its stage: the loops' knowledge
\* stays right.
LEMMA SetExecKnown ==
  ASSUME NEW l \in Loops, NEW n \in Nodes, NEW x, NEW rows,
         loop \in [Loops -> Loop], SetExec(l, n, x),
         \A k \in Loops : Known(loop[k], rows),
         Before(n) \subseteq rows, x.at = "completed" => n \in rows
  PROVE  \A k \in Loops : Known(loop'[k], rows)
<1>1. \A k \in Loops : k # l => loop'[k] = loop[k]
  BY DEF SetExec
<1>2. /\ loop'[l].completed = loop[l].completed
      /\ loop'[l].exec[n] = x
      /\ \A m \in Nodes : m # n => loop'[l].exec[m] = loop[l].exec[m]
  BY DEF SetExec, Loop
<1>3. Known(loop'[l], rows)
  BY <1>2 DEF Known
<1> QED BY <1>1, <1>3

\* An execution goes on only after its predecessors.
LEMMA ExecutingAfterPredecessors ==
  ASSUME OrderInv, NEW l \in Loops, NEW n \in Nodes, loop[l].exec[n].at # "out"
  PROVE  Before(n) \subseteq done
  BY DEF OrderInv, Known

\* A step of a loop keeps the invariant.
LEMMA LoopOrderStep ==
  ASSUME NEW l \in Loops, TypeOK, OrderInv, LoopStep(l)
  PROVE  OrderInv'
<1> USE DEF TypeOK
<1>1. ASSUME NEW n \in Nodes, NodeCompletes(l, n)
      PROVE  OrderInv'
  <2>1. done' = done \cup {n} /\ UNCHANGED <<status, parked>>
    BY <1>1 DEF NodeCompletes
  <2>2. PICK ch \in IF n \in Branches THEN Choices ELSE {NoChoice} :
          SetExec(l, n, [loop[l].exec[n] EXCEPT !.at = "completed",
                                                !.choice = ch])
    BY <1>1 DEF NodeCompletes
  <2>3. Before(n) \subseteq done
    BY <1>1, ExecutingAfterPredecessors DEF NodeCompletes
  <2>4. \A k \in Loops : Known(loop[k], done \cup {n})
    BY KnownGrows DEF OrderInv
  <2>5. \A k \in Loops : Known(loop'[k], done')
    BY <2>1, <2>2, <2>3, <2>4, SetExecKnown
  <2> QED BY <2>1, <2>5 DEF OrderInv, CompletedMeansAllNodes
<1>2. ASSUME NEW n \in Nodes, NEW x, SetExec(l, n, x), x.at # "completed",
             loop[l].exec[n].at # "out", UNCHANGED <<status, done>>
      PROVE  \A k \in Loops : Known(loop'[k], done)
  <2>1. Before(n) \subseteq done
    BY <1>2, ExecutingAfterPredecessors
  <2> QED BY <1>2, <2>1, SetExecKnown DEF OrderInv
<1>3. ASSUME NEW n \in Nodes, NodeFails(l, n)
      PROVE  OrderInv'
  <2> DEFINE x == loop[l].exec[n]
             y == [x EXCEPT !.at = IF x.attempt < MaxAttempts
                                     THEN "backoff" ELSE "failed"]
  <2>1. /\ SetExec(l, n, y) /\ x.at # "out"
        /\ UNCHANGED <<status, done, parked>>
    BY <1>3 DEF NodeFails
  <2>2. x \in Exec
    BY DEF Loop
  <2>3. y.at # "completed"
    BY <2>2 DEF Exec
  <2> HIDE DEF y
  <2>4. \A k \in Loops : Known(loop'[k], done)
    BY <2>1, <2>3, <1>2
  <2> QED BY <2>1, <2>4 DEF OrderInv, CompletedMeansAllNodes
<1>4. ASSUME NEW n \in Nodes, HumanParks(l, n)
      PROVE  OrderInv'
  <2> DEFINE x == loop[l].exec[n]
             y == [x EXCEPT !.at = "paused"]
  <2>1. /\ SetExec(l, n, y) /\ x.at # "out" /\ n \in Humans
        /\ parked' = [parked EXCEPT ![n] = @ + 1] /\ UNCHANGED <<status, done>>
    BY <1>4 DEF HumanParks
  <2>2. x \in Exec
    BY DEF Loop
  <2>3. y.at # "completed"
    BY <2>2 DEF Exec
  <2> HIDE DEF y
  <2>4. \A k \in Loops : Known(loop'[k], done)
    BY <2>1, <2>3, <1>2
  <2>5. \A h \in Humans : parked'[h] > 0 => Before(h) \subseteq done
    BY <2>1, ExecutingAfterPredecessors DEF OrderInv
  <2> QED BY <2>1, <2>4, <2>5 DEF OrderInv, CompletedMeansAllNodes
<1>5. ASSUME NEW n \in Nodes, RetryNode(l, n)
      PROVE  OrderInv'
  <2> DEFINE x == loop[l].exec[n]
             y == IF status = "cancelled" THEN [x EXCEPT !.at = "skipped"]
                  ELSE IF status = "paused" THEN [x EXCEPT !.at = "paused"]
                  ELSE Attempt(x.attempt + 1)
  <2>1. /\ SetExec(l, n, y) /\ x.at # "out"
        /\ UNCHANGED <<status, done, parked>>
    BY <1>5 DEF RetryNode
  <2>2. x \in Exec
    BY DEF Loop
  <2>3. y.at # "completed"
    BY <2>2 DEF Exec, Attempt
  <2> HIDE DEF y
  <2>4. \A k \in Loops : Known(loop'[k], done)
    BY <2>1, <2>3, <1>2
  <2> QED BY <2>1, <2>4 DEF OrderInv, CompletedMeansAllNodes
<1>6. ASSUME Settle(l)
      PROVE  OrderInv'
  <2>1. Absorbed(loop[l]) \in Loop /\ Known(Absorbed(loop[l]), done)
    BY AbsorbedType, KnownAbsorbed DEF OrderInv
  <2>2. UNCHANGED <<done, parked>>
    BY <1>6 DEF Settle
  <2>3. CASE loop' = [loop EXCEPT ![l] = Off] /\ status' # "completed"
    BY <2>2, <2>3, KnownOff DEF OrderInv, CompletedMeansAllNodes
  <2>4. CASE Pass(l, Absorbed(loop[l]), status)
    <3>1. /\ \A k \in Loops : Known(loop'[k], done)
          /\ status' = "completed" => done = Nodes
      BY <2>1, <2>4, PassKnown DEF OrderInv, CompletedMeansAllNodes
    <3> QED BY <2>2, <3>1 DEF OrderInv, CompletedMeansAllNodes
  <2> QED BY <1>6, <2>3, <2>4 DEF Settle
<1>7. ASSUME Poll(l)
      PROVE  OrderInv'
  <2>1. loop[l] \in Loop /\ Pass(l, loop[l], status) /\ UNCHANGED <<done, parked>>
    BY <1>7 DEF Poll
  <2>2. /\ \A k \in Loops : Known(loop'[k], done)
        /\ status' = "completed" => done = Nodes
    BY <2>1, PassKnown DEF OrderInv, CompletedMeansAllNodes
  <2> QED BY <2>1, <2>2 DEF OrderInv, CompletedMeansAllNodes
<1> QED BY <1>1, <1>3, <1>4, <1>5, <1>6, <1>7 DEF LoopStep

\* So does every other step but a rerun.
LEMMA OrderStep ==
  ASSUME TypeOK, OrderInv, [BusyNext]_vars
  PROVE  OrderInv'
<1> USE DEF TypeOK
<1>1. ASSUME NEW l \in Loops, Enter(l, done, saved), UNCHANGED <<done, parked>>
      PROVE  OrderInv'
  <2>1. /\ \A k \in Loops : Known(loop'[k], done)
        /\ status' = "completed" => done = Nodes
    BY <1>1, EnterKnown DEF OrderInv
  <2> QED BY <1>1, <2>1 DEF OrderInv, CompletedMeansAllNodes
<1>2. ASSUME NEW l \in Loops, Start(l) \/ Resume(l)
      PROVE  OrderInv'
  BY <1>1, <1>2 DEF Start, Resume
<1>3. ASSUME NEW l \in Loops, NEW h \in Humans, Approve(l, h)
      PROVE  OrderInv'
  <2> DEFINE with == [saved EXCEPT !.merged = @ \cup {h}]
             more == done \cup {h}
  <2>1. with \in State /\ more \in SUBSET Nodes
    BY GraphAssumption DEF State
  <2>2. Enter(l, more, with) /\ done' = more
    BY <1>3 DEF Approve
  <2>3. parked' = [parked EXCEPT ![h] = @ - 1]
    BY <1>3 DEF Approve
  <2>4. \A k \in Loops : Known(loop[k], more)
    BY KnownGrows DEF OrderInv
  <2>5. /\ \A k \in Loops : Known(loop'[k], more)
        /\ status' = "completed" => more = Nodes
    BY <2>1, <2>2, <2>4, EnterKnown
  <2>6. \A g \in Humans : parked'[g] > 0 => parked[g] > 0
    BY <2>3
  <2>7. \A g \in Humans : parked'[g] > 0 => Before(g) \subseteq more
    BY <2>6 DEF OrderInv
  <2> HIDE DEF more
  <2> QED BY <2>2, <2>5, <2>7 DEF OrderInv, CompletedMeansAllNodes
<1>4. ASSUME NEW l \in Loops, LoopStep(l)
      PROVE  OrderInv'
  BY <1>4, LoopOrderStep
<1>5. ASSUME Pause \/ Cancel
      PROVE  OrderInv'
  BY <1>5 DEF Pause, Cancel, OrderInv, CompletedMeansAllNodes
<1>6. ASSUME Restart
      PROVE  OrderInv'
  <2>1. \A k \in Loops : loop'[k] = Off
    BY <1>6 DEF Restart
  <2>2. UNCHANGED <<done, parked>> /\ (status' = "completed" => status = "completed")
    BY <1>6 DEF Restart
  <2> QED BY <2>1, <2>2, KnownOff DEF OrderInv, CompletedMeansAllNodes
<1>7. CASE UNCHANGED vars
  BY <1>7 DEF vars, OrderInv, CompletedMeansAllNodes
<1> QED BY <1>2, <1>3, <1>4, <1>5, <1>6, <1>7
    DEF BusyNext, CalmNext, KeptNext, Engine, Restarting

LEMMA OrderInvariant == BusySpec => [](TypeOK /\ OrderInv)
<1>1. Init => TypeOK /\ OrderInv
  BY TypeInit, KnownOff DEF Init, OrderInv, CompletedMeansAllNodes
<1>2. TypeOK /\ OrderInv /\ [BusyNext]_vars => (TypeOK /\ OrderInv)'
  BY TypeStep, OrderStep DEF Next
<1> QED BY <1>1, <1>2, PTL DEF BusySpec

\* A run that reports 'completed' has a completed row for every node, even
\* when several loops work on it.
THEOREM CompletedRunIsComplete == BusySpec => []CompletedMeansAllNodes
<1>1. OrderInv => CompletedMeansAllNodes
  BY DEF OrderInv
<1> QED BY <1>1, OrderInvariant, PTL

\* Nodes finish after their predecessors and stay finished: over any number of
\* loops, restarts and gate retries the run implements OrderedRun.
THEOREM RunImplementsOrder == BusySpec => OrderSpec
<1>1. Init => Order!Init
  BY DEF Init, Order!Init
<1>2. ASSUME TypeOK, OrderInv, [BusyNext]_vars
      PROVE  [Order!Next]_done
  <2>1. ASSUME NEW n \in Nodes, done' = done \cup {n}, Before(n) \subseteq done
        PROVE  [Order!Next]_done
    BY <2>1 DEF Order!Next, Order!Finish, Before
  <2>2. ASSUME NEW l \in Loops, NEW n \in Nodes, NodeCompletes(l, n)
        PROVE  [Order!Next]_done
    BY <1>2, <2>1, <2>2, ExecutingAfterPredecessors DEF NodeCompletes
  <2>3. ASSUME NEW l \in Loops, NEW h \in Humans, Approve(l, h)
        PROVE  [Order!Next]_done
    BY <1>2, <2>1, <2>3, GraphAssumption DEF Approve, OrderInv
  <2>4. ASSUME NEW l \in Loops, LoopStep(l)
        PROVE  [Order!Next]_done
    BY <2>2, <2>4
       DEF LoopStep, NodeFails, HumanParks, RetryNode, Settle, Poll
  <2>5. ASSUME NEW l \in Loops, Start(l) \/ Resume(l)
        PROVE  [Order!Next]_done
    BY <2>5 DEF Start, Resume
  <2>6. Pause \/ Cancel \/ Restart \/ UNCHANGED vars => [Order!Next]_done
    BY DEF Pause, Cancel, Restart, vars
  <2> QED BY <1>2, <2>3, <2>4, <2>5, <2>6
      DEF BusyNext, CalmNext, KeptNext, Engine, Restarting
<1> QED BY <1>1, <1>2, OrderInvariant, PTL DEF BusySpec, OrderSpec, Order!Spec

-----------------------------------------------------------------------------
(* A stopped run starts nothing.                                           *)

LEMMA OffExecutes == Off.phase = "off" /\ \A n \in Nodes : Off.exec[n].at = "out"
  BY DEF Off, Out

\* A pass that finds or leaves the run stopped ends its loop.
LEMMA StoppedPass ==
  ASSUME NEW l \in Loops, NEW L, NEW st,
         loop \in [Loops -> Loop], Pass(l, L, st),
         status' \in {"paused", "cancelled"}
  PROVE  /\ st \in {"paused", "cancelled"}
         /\ \A k \in Loops : loop'[k] = IF k = l THEN Off ELSE loop[k]
  BY DEF Pass

LEMMA StartsNothing ==
  ASSUME TypeOK, [Next]_vars, status \in {"paused", "cancelled"}, status' = status
  PROVE  \A k \in Loops : (Executing(k))' \subseteq Executing(k)
<1> USE DEF TypeOK
<1>1. ASSUME NEW l \in Loops,
             \A k \in Loops : loop'[k] = IF k = l THEN Off ELSE loop[k]
      PROVE  \A k \in Loops : (Executing(k))' \subseteq Executing(k)
  BY <1>1, OffExecutes DEF Executing
<1>2. ASSUME NEW l \in Loops, NEW n \in Nodes, NEW x, SetExec(l, n, x),
             x.at # "running"
      PROVE  \A k \in Loops : (Executing(k))' \subseteq Executing(k)
  <2>1. \A k \in Loops, m \in Nodes :
          loop'[k].exec[m] = IF k = l /\ m = n THEN x ELSE loop[k].exec[m]
    BY <1>2 DEF SetExec, Loop
  <2> QED BY <1>2, <2>1 DEF Executing
<1>3. ASSUME NEW l \in Loops, LoopStep(l)
      PROVE  \A k \in Loops : (Executing(k))' \subseteq Executing(k)
  <2>1. \A n \in Nodes : loop[l].exec[n] \in Exec
    BY DEF Loop
  <2>2. ASSUME NEW n \in Nodes, NodeCompletes(l, n)
        PROVE  \A k \in Loops : (Executing(k))' \subseteq Executing(k)
    <3>1. PICK ch : SetExec(l, n, [loop[l].exec[n] EXCEPT !.at = "completed",
                                                          !.choice = ch])
      BY <2>2 DEF NodeCompletes
    <3>2. [loop[l].exec[n] EXCEPT !.at = "completed", !.choice = ch].at
            # "running"
      BY <2>1 DEF Exec
    <3> QED BY <1>2, <3>1, <3>2
  <2>3. ASSUME NEW n \in Nodes, NodeFails(l, n)
        PROVE  \A k \in Loops : (Executing(k))' \subseteq Executing(k)
    <3> DEFINE x == loop[l].exec[n]
               y == [x EXCEPT !.at = IF x.attempt < MaxAttempts
                                       THEN "backoff" ELSE "failed"]
    <3>1. SetExec(l, n, y) /\ y.at # "running"
      BY <2>1, <2>3 DEF NodeFails, Exec
    <3> HIDE DEF y
    <3> QED BY <1>2, <3>1
  <2>4. ASSUME NEW n \in Nodes, HumanParks(l, n)
        PROVE  \A k \in Loops : (Executing(k))' \subseteq Executing(k)
    <3> DEFINE y == [loop[l].exec[n] EXCEPT !.at = "paused"]
    <3>1. SetExec(l, n, y) /\ y.at # "running"
      BY <2>1, <2>4 DEF HumanParks, Exec
    <3> HIDE DEF y
    <3> QED BY <1>2, <3>1
  <2>5. ASSUME NEW n \in Nodes, RetryNode(l, n)
        PROVE  \A k \in Loops : (Executing(k))' \subseteq Executing(k)
    <3> DEFINE x == loop[l].exec[n]
               y == IF status = "cancelled" THEN [x EXCEPT !.at = "skipped"]
                    ELSE IF status = "paused" THEN [x EXCEPT !.at = "paused"]
                    ELSE Attempt(x.attempt + 1)
    <3>1. SetExec(l, n, y)
      BY <2>5 DEF RetryNode
    <3>2. y.at # "running"
      BY <2>1 DEF Exec
    <3> HIDE DEF y
    <3> QED BY <1>2, <3>1, <3>2
  <2>6. ASSUME Settle(l) \/ Poll(l)
        PROVE  \A k \in Loops : loop'[k] = IF k = l THEN Off ELSE loop[k]
    BY <2>6, StoppedPass DEF Settle, Poll
  <2> QED BY <1>1, <1>3, <2>2, <2>3, <2>4, <2>5, <2>6 DEF LoopStep
<1>4. ASSUME NEW l \in Loops, NEW completed, NEW state, Enter(l, completed, state)
      PROVE  FALSE
  BY <1>4, StoppedPass DEF Enter
<1>5. ASSUME NEW l \in Loops
      PROVE  /\ ~Start(l) /\ ~Resume(l)
             /\ \A h \in Humans : ~Approve(l, h)
             /\ \A n \in Nodes : ~Rerun(l, n)
  BY <1>4 DEF Start, Resume, Approve, Rerun
<1>6. ASSUME Pause \/ Cancel \/ UNCHANGED vars
      PROVE  \A k \in Loops : (Executing(k))' \subseteq Executing(k)
  BY <1>6 DEF Pause, Cancel, vars, Executing
<1>7. ASSUME Restart
      PROVE  \A k \in Loops : (Executing(k))' \subseteq Executing(k)
  BY <1>7, OffExecutes DEF Restart, Executing
<1> QED BY <1>3, <1>5, <1>6, <1>7
    DEF Next, BusyNext, CalmNext, KeptNext, Engine, Restarting

\* As long as a run stays paused or cancelled no step starts a node: neither
\* the next batch of a loop that has read the status before, nor the next
\* attempt of a node that slept through the request.
THEOREM StoppedRunStartsNothing == Spec => NoStartWhileStopped
<1>1. ASSUME TypeOK, [Next]_vars
      PROVE  [(status \in {"paused", "cancelled"} /\ status' = status)
                => (\A l \in Loops : (Executing(l))' \subseteq Executing(l))]_vars
  BY <1>1, StartsNothing
<1> QED BY <1>1, GraphTypeCorrect, PTL DEF Spec, NoStartWhileStopped

-----------------------------------------------------------------------------
(* When a run is resumed only at rest: the loop's state is the one in the  *)
(* database.                                                               *)

\* The memory L of a loop, when state_json holds s.
Fits(L, s) ==
  /\ L.phase = "off" => L = Off
  /\ L.phase # "off" => L.state = s
  /\ \A n \in Nodes : L.exec[n].at # "out" => n \notin L.completed

KeptInv ==
  /\ \A k, l \in Loops : loop[k].phase # "off" /\ loop[l].phase # "off" => k = l
  /\ status = "pending" => AtRest
  /\ \A l \in Loops : Fits(loop[l], saved)
  /\ ApprovalRemembered

\* Only loop l may be on.
Lone(l) == \A k \in Loops \ {l} : loop[k] = Off

LEMMA FitsOff ==
  ASSUME NEW s
  PROVE  Fits(Off, s)
  BY DEF Fits, Off, Out

LEMMA LoneAtRest ==
  ASSUME KeptInv, AtRest, NEW l \in Loops
  PROVE  Lone(l)
  BY DEF KeptInv, AtRest, Lone, Fits

\* A loop that takes a step is on, and the only one.
LEMMA LoneAtWork ==
  ASSUME KeptInv, NEW l \in Loops, LoopStep(l)
  PROVE  loop[l].phase # "off" /\ Lone(l)
<1>1. loop[l] # Off
  <2>1. \A n \in Nodes : Off.exec[n].at = "out"
    BY OffExecutes
  <2>2. Off.phase = "off"
    BY DEF Off
  <2> QED BY <2>1, <2>2
      DEF LoopStep, NodeCompletes, NodeFails, HumanParks, RetryNode, Settle, Poll
<1> QED BY <1>1 DEF KeptInv, Fits, Lone

\* What a pass does to its loop: it ends, or goes on with the same memory, and
\* what it dispatches is a batch.
PassedOn(M, L) ==
  /\ M.phase # "off" => M.completed = L.completed /\ M.state = L.state
  /\ M.phase = "off" => M = Off
  /\ \A n \in Nodes : M.exec[n].at # "out" => n \in Batch(L) \/ M.exec = L.exec

LEMMA PassGoesOn ==
  ASSUME NEW l \in Loops, NEW L \in Loop, NEW st,
         loop \in [Loops -> Loop], Pass(l, L, st)
  PROVE  /\ \A k \in Loops \ {l} : loop'[k] = loop[k]
         /\ PassedOn(loop'[l], L)
         /\ status' = "pending" => st = "pending"
<1> DEFINE polling == [L EXCEPT !.phase = "polling"]
           batch == [n \in Nodes |-> IF n \in Batch(L) THEN Attempt(1) ELSE Out]
           running == [L EXCEPT !.phase = "batch", !.exec = batch]
<1>1. PassedOn(polling, L)
  BY DEF PassedOn, Loop
<1>2. PassedOn(running, L)
  <2>1. /\ running.phase = "batch" /\ running.completed = L.completed
        /\ running.state = L.state /\ running.exec = batch
    BY DEF Loop
  <2>2. \A n \in Nodes : batch[n].at # "out" => n \in Batch(L)
    BY DEF Out
  <2> HIDE DEF batch, running
  <2> QED BY <2>1, <2>2 DEF PassedOn
<1>3. PassedOn(Off, L)
  BY OffExecutes DEF PassedOn
<1>4. \E M \in {Off, polling, running} : loop' = [loop EXCEPT ![l] = M]
  BY DEF Pass
<1>5. status' = "pending" => st = "pending"
  BY DEF Pass
<1> HIDE DEF polling, running
<1> QED BY <1>1, <1>2, <1>3, <1>4, <1>5

\* A pass from a memory that agrees with the database.
LEMMA PassFits ==
  ASSUME TypeOK, NEW l \in Loops, NEW L \in Loop, NEW st, NEW s,
         Pass(l, L, st), Lone(l), L.state = s, st # "pending",
         \A n \in Nodes : L.exec[n].at # "out" => n \notin L.completed
  PROVE  /\ \A j, k \in Loops :
              loop'[j].phase # "off" /\ loop'[k].phase # "off" => j = k
         /\ \A k \in Loops : Fits(loop'[k], s)
         /\ status' # "pending"
<1>1. /\ \A k \in Loops \ {l} : loop'[k] = Off
      /\ PassedOn(loop'[l], L) /\ status' # "pending"
  BY PassGoesOn DEF TypeOK, Lone
<1>2. \A k \in Loops \ {l} : loop'[k].phase = "off" /\ Fits(loop'[k], s)
  BY <1>1, FitsOff, OffExecutes
<1>3. Fits(loop'[l], s)
  <2>1. CASE loop'[l].phase = "off"
    BY <1>1, <2>1, FitsOff DEF PassedOn
  <2>2. CASE loop'[l].phase # "off"
    <3>1. \A n \in Batch(L) : n \notin L.completed
      BY DEF Batch, Ready
    <3> QED BY <1>1, <2>2, <3>1 DEF PassedOn, Fits
  <2> QED BY <2>1, <2>2
<1> QED BY <1>1, <1>2, <1>3

\* Entering executeGraph at rest.
LEMMA EnterFits ==
  ASSUME TypeOK, NEW l \in Loops, NEW completed \in SUBSET Nodes,
         NEW s \in State, Enter(l, completed, s), Lone(l)
  PROVE  /\ \A j, k \in Loops :
              loop'[j].phase # "off" /\ loop'[k].phase # "off" => j = k
         /\ \A k \in Loops : Fits(loop'[k], s)
         /\ status' # "pending"
<1> DEFINE L == [Off EXCEPT !.completed = completed, !.state = s]
<1>1. L \in Loop
  BY OffType DEF Loop
<1>2. L.state = s /\ \A n \in Nodes : L.exec[n].at = "out"
  BY OffExecutes DEF Off, Out
<1>3. Pass(l, L, "running")
  BY DEF Enter
<1> HIDE DEF L
<1> QED BY <1>1, <1>2, <1>3, PassFits

\* A node of the only loop changes its stage.
LEMMA SetExecFits ==
  ASSUME TypeOK, KeptInv, NEW l \in Loops, NEW n \in Nodes, NEW x,
         SetExec(l, n, x), loop[l].exec[n].at # "out"
  PROVE  /\ \A k \in Loops : loop'[k].phase = loop[k].phase
         /\ \A k \in Loops : Fits(loop'[k], saved)
<1>1. \A k \in Loops \ {l} : loop'[k] = loop[k]
  BY DEF SetExec, TypeOK
<1>2. /\ loop'[l].phase = loop[l].phase /\ loop'[l].state = loop[l].state
      /\ loop'[l].completed = loop[l].completed
      /\ \A m \in Nodes : m # n => loop'[l].exec[m] = loop[l].exec[m]
  BY DEF SetExec, TypeOK, Loop
<1>3. loop[l].phase # "off"
  BY OffExecutes DEF KeptInv, Fits
<1>4. Fits(loop'[l], saved)
  BY <1>2, <1>3 DEF KeptInv, Fits
<1> QED BY <1>1, <1>2, <1>4 DEF KeptInv

LEMMA KeptStep ==
  ASSUME TypeOK, KeptInv, [KeptNext]_vars
  PROVE  KeptInv'
<1> USE DEF TypeOK
<1>1. ASSUME NEW l \in Loops, Start(l) \/ (AtRest /\ Resume(l))
      PROVE  KeptInv'
  <2>1. Enter(l, done, saved) /\ UNCHANGED <<saved, done>> /\ AtRest
    BY <1>1 DEF Start, Resume, KeptInv
  <2>2. Lone(l)
    BY <2>1, LoneAtRest
  <2>3. /\ \A j, k \in Loops :
             loop'[j].phase # "off" /\ loop'[k].phase # "off" => j = k
        /\ \A k \in Loops : Fits(loop'[k], saved)
        /\ status' # "pending"
    BY <2>1, <2>2, EnterFits
  <2> QED BY <2>1, <2>3 DEF KeptInv, ApprovalRemembered
<1>2. ASSUME NEW l \in Loops, NEW h \in Humans, AtRest, Approve(l, h)
      PROVE  KeptInv'
  <2> DEFINE with == [saved EXCEPT !.merged = @ \cup {h}]
  <2>1. with \in State /\ done \cup {h} \in SUBSET Nodes
    BY GraphAssumption DEF State
  <2>2. Enter(l, done \cup {h}, with) /\ saved' = with /\ done' = done \cup {h}
    BY <1>2 DEF Approve
  <2>3. Lone(l)
    BY <1>2, LoneAtRest
  <2>4. /\ \A j, k \in Loops :
             loop'[j].phase # "off" /\ loop'[k].phase # "off" => j = k
        /\ \A k \in Loops : Fits(loop'[k], with)
        /\ status' # "pending"
    BY <2>1, <2>2, <2>3, EnterFits
  <2>5. with.merged = saved.merged \cup {h}
    BY DEF State
  <2>6. ApprovalRemembered'
    BY <2>2, <2>5 DEF KeptInv, ApprovalRemembered
  <2> HIDE DEF with
  <2> QED BY <2>2, <2>4, <2>6 DEF KeptInv
<1>3. ASSUME NEW l \in Loops, NEW n \in Nodes, NEW x, SetExec(l, n, x),
             loop[l].exec[n].at # "out", UNCHANGED <<status, saved>>,
             \A h \in Humans : h \in done' => h \in done
      PROVE  KeptInv'
  <2>1. /\ \A k \in Loops : loop'[k].phase = loop[k].phase
        /\ \A k \in Loops : Fits(loop'[k], saved)
    BY <1>3, SetExecFits
  <2> QED BY <1>3, <2>1 DEF KeptInv, ApprovalRemembered, AtRest
<1>4. ASSUME NEW l \in Loops, NEW n \in Nodes, NodeCompletes(l, n)
      PROVE  KeptInv'
  BY <1>3, <1>4 DEF NodeCompletes
<1>5. ASSUME NEW l \in Loops, NEW n \in Nodes, NodeFails(l, n) \/ HumanParks(l, n)
      PROVE  KeptInv'
  BY <1>3, <1>5 DEF NodeFails, HumanParks
<1>6. ASSUME NEW l \in Loops, NEW n \in Nodes, RetryNode(l, n)
      PROVE  KeptInv'
  BY <1>3, <1>6 DEF RetryNode
<1>7. ASSUME NEW l \in Loops, Settle(l) \/ Poll(l)
      PROVE  KeptInv'
  <2>1. loop[l].phase # "off" /\ Lone(l)
    BY <1>7, LoneAtWork DEF LoopStep
  <2>2. loop[l].state = saved /\ status # "pending"
    BY <2>1 DEF KeptInv, Fits, AtRest
  <2>3. ASSUME \A k \in Loops : loop'[k] = Off, status' # "pending"
        PROVE  /\ \A j, k \in Loops :
                    loop'[j].phase # "off" /\ loop'[k].phase # "off" => j = k
               /\ \A k \in Loops : Fits(loop'[k], saved')
    BY <2>3, FitsOff, OffExecutes DEF Off
  <2>4. CASE Poll(l)
    <3>1. Pass(l, loop[l], status) /\ loop[l] \in Loop /\ saved' = saved
          /\ done' = done
      BY <2>2, <2>4 DEF Poll
    <3>2. \A n \in Nodes : loop[l].exec[n].at # "out" => n \notin loop[l].completed
      BY DEF KeptInv, Fits
    <3>3. /\ \A j, k \in Loops :
               loop'[j].phase # "off" /\ loop'[k].phase # "off" => j = k
          /\ \A k \in Loops : Fits(loop'[k], saved)
          /\ status' # "pending"
      BY <2>1, <2>2, <3>1, <3>2, PassFits
    <3> QED BY <3>1, <3>3 DEF KeptInv, ApprovalRemembered
  <2>5. CASE Settle(l)
    <3> DEFINE A == Absorbed(loop[l])
    <3>1. A \in Loop /\ saved' = A.state /\ done' = done
      BY <2>5, AbsorbedType DEF Settle
    <3>2. A.state.merged = saved.merged \cup Finished(loop[l])
      BY <2>2 DEF Absorbed
    <3>3. ApprovalRemembered'
      BY <3>1, <3>2 DEF KeptInv, ApprovalRemembered
    <3>4. \A n \in Nodes : A.exec[n].at = "out"
      BY DEF Absorbed, Out
    <3> HIDE DEF A
    <3>5. CASE Pass(l, A, status)
      <4>1. /\ \A j, k \in Loops :
                 loop'[j].phase # "off" /\ loop'[k].phase # "off" => j = k
            /\ \A k \in Loops : Fits(loop'[k], saved')
            /\ status' # "pending"
        BY <2>1, <2>2, <3>1, <3>4, <3>5, PassFits
      <4> QED BY <3>3, <4>1 DEF KeptInv
    <3>6. CASE loop' = [loop EXCEPT ![l] = Off] /\ status' # "pending"
      <4>1. \A k \in Loops : loop'[k] = Off
        BY <2>1, <3>6 DEF Lone
      <4> QED BY <2>3, <3>3, <3>6, <4>1 DEF KeptInv
    <3> QED BY <2>5, <3>5, <3>6 DEF Settle, A
  <2> QED BY <1>7, <2>4, <2>5
<1>8. ASSUME Restart
      PROVE  KeptInv'
  <2>1. \A k \in Loops : loop'[k] = Off /\ loop'[k].phase = "off"
    BY <1>8 DEF Restart, Off
  <2>2. UNCHANGED <<saved, done>>
    BY <1>8 DEF Restart
  <2> QED BY <2>1, <2>2, FitsOff DEF KeptInv, AtRest, ApprovalRemembered
<1>9. ASSUME Pause \/ UNCHANGED vars
      PROVE  KeptInv'
  BY <1>9 DEF Pause, vars, KeptInv, AtRest, ApprovalRemembered
<1> QED BY <1>1, <1>2, <1>4, <1>5, <1>6, <1>7, <1>8, <1>9
    DEF KeptNext, Engine, LoopStep, Restarting

LEMMA KeptInvariant == KeptSpec => [](TypeOK /\ KeptInv)
<1>1. Init => TypeOK /\ KeptInv
  BY TypeInit, FitsOff, OffExecutes
     DEF Init, KeptInv, AtRest, ApprovalRemembered
<1>2. TypeOK /\ KeptInv /\ [KeptNext]_vars => (TypeOK /\ KeptInv)'
  BY TypeStep, KeptStep DEF Next, BusyNext, CalmNext
<1> QED BY <1>1, <1>2, PTL DEF KeptSpec

\* The decision of an approved human node stays in the shared state, whatever
\* the loops that ran before and after it write back.
THEOREM ApprovalIsKept == KeptSpec => []ApprovalRemembered
<1>1. KeptInv => ApprovalRemembered
  BY DEF KeptInv
<1> QED BY <1>1, KeptInvariant, PTL

-----------------------------------------------------------------------------
(* What a branch decided before one of its arms was started still stands.  *)

Picks(e, s) ==
  \/ e.when = Always
  \/ e.when \in Choices /\ s.taken[e.from] = e.when

\* The state s chooses edge e.
Chosen(e, s) ==
  \/ Picks(e, s)
  \/ /\ e.when = Otherwise
     /\ \A f \in Edges : f.from = e.from /\ f.when # Otherwise => ~Picks(f, s)

\* The edges of branches that no gate sends back.
Arms == {e \in Edges : e.from \in Branches \ SentBack}

Waits(n, paused) == n \in Humans /\ paused[n] > 0

\* A node was started: it is done, waits for approval, or a loop has it in its
\* batch.
Reached(n, rows, paused, loops) ==
  \/ n \in rows \/ Waits(n, paused)
  \/ \E l \in Loops : loops[l].exec[n].at # "out"

\* The branch of e is done for good, and its decision for e is in the state.
Stands(e, rows, s, loops) ==
  /\ e.from \in rows /\ Chosen(e, s)
  /\ \A l \in Loops : loops[l].phase # "off" => e.from \in loops[l].completed

BranchInv ==
  \A e \in Arms : Reached(e.to, done, parked, loop) => Stands(e, done, saved, loop)

LEMMA ActiveIsChosen ==
  ASSUME NEW L, NEW e \in Edges, EdgeActive(e, L)
  PROVE  e.from \in L.completed /\ Chosen(e, L.state)
  BY DEF EdgeActive, Matches, Chosen, Picks

\* A choice depends on nothing but the decision of its branch.
LEMMA ChosenSame ==
  ASSUME NEW e \in Edges, NEW s, NEW t, s.taken[e.from] = t.taken[e.from],
         Chosen(e, s)
  PROVE  Chosen(e, t)
  BY DEF Chosen, Picks

\* Two conditions of one branch are not both met.
LEMMA ChosenOnce ==
  ASSUME NEW e \in Edges, NEW f \in Edges, NEW s, f.from = e.from,
         e.when # f.when, e.when # Always, f.when # Always,
         Chosen(e, s), Chosen(f, s)
  PROVE  FALSE
<1>1. e.when \in Choices \cup {Otherwise} /\ f.when \in Choices \cup {Otherwise}
  BY GraphAssumption
<1> QED BY <1>1, ValuesAssumption DEF Chosen, Picks

\* A pass of the only loop dispatches what its memory chooses.
LEMMA PassStands ==
  ASSUME TypeOK, NEW l \in Loops, NEW L \in Loop, NEW st, Pass(l, L, st), Lone(l),
         NEW rows, NEW paused, L.completed \subseteq rows,
         NEW e \in Edges, Reached(e.to, rows, paused, loop'),
         e.to \in rows \/ Waits(e.to, paused) \/ L.exec[e.to].at # "out"
           => e.from \in L.completed /\ Chosen(e, L.state)
  PROVE  Stands(e, rows, L.state, loop')
<1>1. /\ \A k \in Loops \ {l} : loop'[k] = Off
      /\ PassedOn(loop'[l], L)
  BY PassGoesOn DEF TypeOK, Lone
<1>2. e.to \in Nodes
  BY GraphAssumption
<1>3. e.from \in L.completed /\ Chosen(e, L.state)
  <2>1. CASE e.to \in Batch(L)
    <3>1. EdgeActive(e, L)
      BY <2>1 DEF Batch, Ready
    <3> QED BY <3>1, ActiveIsChosen
  <2>2. CASE e.to \notin Batch(L)
    <3>1. \A k \in Loops : loop'[k].exec[e.to].at # "out" => L.exec[e.to].at # "out"
      BY <1>1, <1>2, <2>2, OffExecutes DEF PassedOn
    <3> QED BY <3>1 DEF Reached
  <2> QED BY <2>1, <2>2
<1>4. \A k \in Loops : loop'[k].phase # "off" => e.from \in loop'[k].completed
  BY <1>1, <1>3, OffExecutes DEF PassedOn
<1> QED BY <1>3, <1>4 DEF Stands

\* Entering at rest, with everything that is done completed.
LEMMA EnterStands ==
  ASSUME TypeOK, NEW l \in Loops, NEW rows \in SUBSET Nodes, NEW s \in State,
         Enter(l, rows, s), Lone(l), NEW paused,
         NEW e \in Edges, Reached(e.to, rows, paused, loop'),
         e.to \in rows \/ Waits(e.to, paused) => e.from \in rows /\ Chosen(e, s)
  PROVE  Stands(e, rows, s, loop')
<1> DEFINE L == [Off EXCEPT !.completed = rows, !.state = s]
<1>1. L \in Loop
  BY OffType DEF Loop
<1>2. /\ L.completed = rows /\ L.state = s
      /\ \A n \in Nodes : L.exec[n].at = "out"
  BY OffExecutes DEF Off
<1>3. Pass(l, L, "running")
  BY DEF Enter
<1>4. e.to \in Nodes
  BY GraphAssumption
<1> HIDE DEF L
<1> QED BY <1>1, <1>2, <1>3, <1>4, PassStands

\* The merge of a batch keeps the decisions whose arms were started.
LEMMA AbsorbedStands ==
  ASSUME TypeOK, KeptInv, BranchInv, NEW l \in Loops, loop[l].phase # "off",
         NEW e \in Arms, Reached(e.to, done, parked, loop)
  PROVE  /\ e.from \in done
         /\ e.from \in Absorbed(loop[l]).completed
         /\ Chosen(e, Absorbed(loop[l]).state)
<1> DEFINE L == loop[l]
<1>1. e \in Edges /\ e.from \in Nodes /\ e.from \notin SentBack
  BY GraphAssumption DEF Arms
<1>2. e.from \in done /\ Chosen(e, saved) /\ e.from \in L.completed
  BY DEF BranchInv, Stands
<1>3. e.from \notin Finished(L)
  BY <1>2 DEF KeptInv, Fits, Finished, Handled, BatchOf
<1>4. Absorbed(L).state.taken[e.from] = saved.taken[e.from]
  BY <1>1, <1>3 DEF KeptInv, Fits, Absorbed
<1>5. e.from \in Absorbed(L).completed
  BY <1>1, <1>2 DEF Absorbed, SentBack, Retried, Retries
<1> QED BY <1>1, <1>2, <1>4, <1>5, ChosenSame

LEMMA BranchStep ==
  ASSUME TypeOK, OrderInv, KeptInv, BranchInv, [KeptNext]_vars
  PROVE  BranchInv'
<1> SUFFICES ASSUME NEW e \in Arms, Reached(e.to, done', parked', loop')
             PROVE  Stands(e, done', saved', loop')
  BY DEF BranchInv
<1> USE DEF TypeOK
<1>0. e \in Edges /\ e.to \in Nodes /\ e.from \in Nodes
  BY GraphAssumption DEF Arms
<1>1. ASSUME NEW l \in Loops, Start(l) \/ (AtRest /\ Resume(l))
      PROVE  Stands(e, done', saved', loop')
  <2>1. Enter(l, done, saved) /\ UNCHANGED <<saved, done, parked>> /\ AtRest
    BY <1>1 DEF Start, Resume, KeptInv
  <2>2. Lone(l)
    BY <2>1, LoneAtRest
  <2>3. e.to \in done \/ Waits(e.to, parked) => e.from \in done /\ Chosen(e, saved)
    BY DEF BranchInv, Reached, Stands
  <2> QED BY <1>0, <2>1, <2>2, <2>3, EnterStands
<1>2. ASSUME NEW l \in Loops, NEW h \in Humans, AtRest, Approve(l, h)
      PROVE  Stands(e, done', saved', loop')
  <2> DEFINE with == [saved EXCEPT !.merged = @ \cup {h}]
             more == done \cup {h}
  <2>1. with \in State /\ more \in SUBSET Nodes /\ with.taken = saved.taken
    BY GraphAssumption DEF State
  <2>2. /\ Enter(l, more, with) /\ saved' = with /\ done' = more
        /\ parked[h] > 0 /\ parked' = [parked EXCEPT ![h] = @ - 1]
    BY <1>2 DEF Approve
  <2>3. Lone(l)
    BY <1>2, LoneAtRest
  <2>4. Waits(e.to, parked') => Waits(e.to, parked)
    BY <2>2 DEF Waits
  <2>5. e.to \in more \/ Waits(e.to, parked')
          => e.from \in more /\ Chosen(e, with)
    <3>1. e.to = h => Waits(e.to, parked)
      BY <2>2 DEF Waits
    <3>2. e.to \in more \/ Waits(e.to, parked')
            => e.from \in done /\ Chosen(e, saved)
      BY <2>4, <3>1 DEF BranchInv, Reached, Stands
    <3> QED BY <1>0, <2>1, <3>2, ChosenSame
  <2> HIDE DEF more, with
  <2> QED BY <1>0, <2>1, <2>2, <2>3, <2>5, EnterStands
<1>3. ASSUME NEW l \in Loops, NEW n \in Nodes, NEW x, SetExec(l, n, x),
             loop[l].exec[n].at # "out", saved' = saved,
             done \subseteq done', done' \subseteq done \cup {n},
             \A h \in Humans : h # n => parked'[h] = parked[h]
      PROVE  Stands(e, done', saved', loop')
  <2>1. /\ \A k \in Loops : /\ loop'[k].phase = loop[k].phase
                            /\ loop'[k].completed = loop[k].completed
        /\ \A k \in Loops, m \in Nodes :
             loop'[k].exec[m] = IF k = l /\ m = n THEN x ELSE loop[k].exec[m]
    BY <1>3 DEF SetExec, Loop
  <2>2. Reached(e.to, done, parked, loop)
    BY <1>0, <1>3, <2>1 DEF Reached, Waits
  <2> QED BY <1>3, <2>1, <2>2 DEF BranchInv, Stands
<1>4. ASSUME NEW l \in Loops, NEW n \in Nodes, NodeCompletes(l, n)
      PROVE  Stands(e, done', saved', loop')
  BY <1>3, <1>4 DEF NodeCompletes
<1>5. ASSUME NEW l \in Loops, NEW n \in Nodes, NodeFails(l, n)
      PROVE  Stands(e, done', saved', loop')
  BY <1>3, <1>5 DEF NodeFails
<1>6. ASSUME NEW l \in Loops, NEW n \in Nodes, HumanParks(l, n)
      PROVE  Stands(e, done', saved', loop')
  BY <1>3, <1>6 DEF HumanParks
<1>7. ASSUME NEW l \in Loops, NEW n \in Nodes, RetryNode(l, n)
      PROVE  Stands(e, done', saved', loop')
  BY <1>3, <1>7 DEF RetryNode
<1>8. ASSUME NEW l \in Loops, Settle(l)
      PROVE  Stands(e, done', saved', loop')
  <2> DEFINE A == Absorbed(loop[l])
  <2>1. loop[l].phase # "off" /\ Lone(l)
    BY <1>8, LoneAtWork DEF LoopStep
  <2>2. A \in Loop /\ saved' = A.state /\ UNCHANGED <<done, parked>>
    BY <1>8, AbsorbedType DEF Settle
  <2>3. A.completed \subseteq done
    BY KnownAbsorbed DEF OrderInv, Known
  <2>4. A.exec[e.to].at = "out"
    BY <1>0 DEF Absorbed, Out
  <2>5. e.to \in done \/ Waits(e.to, parked) =>
          /\ e.from \in done
          /\ e.from \in A.completed /\ Chosen(e, A.state)
    BY <2>1, AbsorbedStands DEF Reached
  <2> HIDE DEF A
  <2>6. CASE Pass(l, A, status)
    BY <1>0, <2>1, <2>2, <2>3, <2>4, <2>5, <2>6, PassStands
  <2>7. CASE loop' = [loop EXCEPT ![l] = Off]
    <3>1. \A k \in Loops : loop'[k] = Off
      BY <2>1, <2>7 DEF Lone
    <3>2. e.to \in done \/ Waits(e.to, parked)
      BY <1>0, <2>2, <3>1, OffExecutes DEF Reached
    <3> QED BY <2>2, <2>5, <3>1, <3>2, OffExecutes DEF Stands
  <2> QED BY <1>8, <2>6, <2>7 DEF Settle, A
<1>9. ASSUME NEW l \in Loops, Poll(l)
      PROVE  Stands(e, done', saved', loop')
  <2>1. loop[l].phase # "off" /\ Lone(l)
    BY <1>9, LoneAtWork DEF LoopStep
  <2>2. loop[l].state = saved /\ loop[l] \in Loop
    BY <2>1 DEF KeptInv, Fits
  <2>3. Pass(l, loop[l], status) /\ saved' = saved /\ UNCHANGED <<done, parked>>
    BY <1>9, <2>2 DEF Poll
  <2>4. loop[l].completed \subseteq done
    BY DEF OrderInv, Known
  <2>5. e.to \in done \/ Waits(e.to, parked) \/ loop[l].exec[e.to].at # "out"
          => e.from \in loop[l].completed /\ Chosen(e, saved)
    BY <2>1 DEF BranchInv, Reached, Stands
  <2> QED BY <1>0, <2>1, <2>2, <2>3, <2>4, <2>5, PassStands
<1>10. ASSUME Restart
       PROVE  Stands(e, done', saved', loop')
  <2>1. \A k \in Loops : loop'[k] = Off
    BY <1>10 DEF Restart
  <2>2. UNCHANGED <<saved, done, parked>>
    BY <1>10 DEF Restart
  <2>3. Reached(e.to, done, parked, loop)
    BY <1>0, <2>1, <2>2, OffExecutes DEF Reached
  <2> QED BY <2>1, <2>2, <2>3, OffExecutes DEF BranchInv, Stands
<1>11. ASSUME Pause \/ UNCHANGED vars
       PROVE  Stands(e, done', saved', loop')
  BY <1>11 DEF Pause, vars, BranchInv
<1> QED BY <1>1, <1>2, <1>4, <1>5, <1>6, <1>7, <1>8, <1>9, <1>10, <1>11
    DEF KeptNext, Engine, LoopStep, Restarting

\* Of the arms of a branch only one is ever started, though the branch has its
\* completed row before its decision is in the database and a crash, a pause or
\* an earlier node of the batch may come between.
THEOREM BranchTakesOneArm == KeptSpec => []OneBranchTaken
<1>1. Init => BranchInv
  <2>1. \A e \in Arms : e.to \in Nodes
    BY GraphAssumption DEF Arms
  <2>2. Init => \A n \in Nodes : ~Reached(n, done, parked, loop)
    BY OffExecutes DEF Init, Reached, Waits
  <2> QED BY <2>1, <2>2 DEF BranchInv
<1>2. TypeOK /\ OrderInv /\ KeptInv /\ BranchInv /\ [KeptNext]_vars => BranchInv'
  BY BranchStep
<1>3. [KeptNext]_vars => [BusyNext]_vars
  BY DEF BusyNext, CalmNext
<1>4. KeptSpec => BusySpec
  BY <1>3, PTL DEF KeptSpec, BusySpec
<1>5. BranchInv => OneBranchTaken
  <2> SUFFICES ASSUME BranchInv, NEW e \in Edges, NEW f \in Edges,
                      e.from \in Branches \ SentBack, f.from = e.from,
                      e.when # f.when, e.when # Always, f.when # Always,
                      {e.to, f.to} \subseteq done \cup UNION {Executing(l) : l \in Loops}
               PROVE  FALSE
    BY DEF OneBranchTaken
  <2>1. \A n \in done \cup UNION {Executing(l) : l \in Loops} :
          Reached(n, done, parked, loop)
    BY DEF Reached, Executing
  <2>2. Chosen(e, saved) /\ Chosen(f, saved)
    BY <2>1 DEF BranchInv, Arms, Stands
  <2> QED BY <2>2, ChosenOnce
<1> QED BY <1>1, <1>2, <1>4, <1>5, OrderInvariant, KeptInvariant, PTL DEF KeptSpec
=============================================================================
