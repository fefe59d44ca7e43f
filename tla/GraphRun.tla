------------------------------ MODULE GraphRun ------------------------------
(***************************************************************************)
(* One run of a workflow graph: src/src/graph-engineering/.                *)
(*                                                                         *)
(* A run is a row in the database (status, state_json) with one row per    *)
(* execution of a node.  executeGraph is a loop in memory: it derives the  *)
(* ready nodes, runs a batch of them in parallel, and merges the results.  *)
(* Requests (pause, cancel, resume, approve, rerun) write the rows beside  *)
(* it, and resume starts a loop of its own.                                *)
(*                                                                         *)
(* An action is what happens between two awaits of one loop, or one        *)
(* request.                                                                *)
(*                                                                         *)
(* Abstracted: what nodes compute (a branch may choose any of its values), *)
(* usage counters (a budget may be exceeded at any check), expression      *)
(* edges, events, gate feedback texts, node locks (nobody reads them),     *)
(* replanning, and exceptions of the database.  Rows that no query reads   *)
(* again (failed, skipped, pending) are left out.                          *)
(***************************************************************************)
EXTENDS Integers, FiniteSets

CONSTANTS
  Nodes,             \* the nodes of the definition
  Pos,               \* [Nodes -> Nat], their order in the definition
  Edges,             \* [from, to : Nodes, when : Always, Otherwise or a choice]
  Always,            \* an edge without condition
  Otherwise,         \* a default edge
  Branches,          \* the branch nodes
  Choices,           \* the values branch nodes may return
  Humans,            \* the human nodes
  Upstream,          \* [gates with an upstreamNodeId -> Nodes]
  Fallible,          \* nodes whose execution may fail
  HasBudget,         \* the definition has a budget
  MaxParallel,       \* max_parallel of the run
  MaxAttempts,       \* maxAttempts of the nodes
  GateRetryMax,      \* GATE_RETRY_MAX
  Loops,             \* bound: invocations of executeGraph that exist together
  MaxParked          \* bound: a run with as many paused rows of a human node is
                     \* not resumed

Gates == DOMAIN Upstream
NoChoice == "none"

ASSUME GraphAssumption ==
  /\ IsFiniteSet(Nodes)
  /\ Pos \in [Nodes -> Nat]
  /\ \A m, n \in Nodes : Pos[m] = Pos[n] => m = n
  /\ Edges \subseteq [from : Nodes, to : Nodes,
                      when : Choices \cup {Always, Otherwise}]
  /\ Branches \subseteq Nodes /\ Humans \subseteq Nodes \ Branches
  /\ Fallible \subseteq Nodes \ (Branches \cup Humans)
  /\ Gates \subseteq Fallible
  /\ \A g \in Gates : \E e \in Edges : e.from = Upstream[g] /\ e.to = g
ASSUME ValuesAssumption ==
  NoChoice \notin Choices \cup {Always, Otherwise}
  /\ Always \notin Choices /\ Otherwise \notin Choices /\ Always # Otherwise
ASSUME BoundsAssumption ==
  /\ MaxParallel \in Nat \ {0} /\ MaxAttempts \in Nat \ {0}
  /\ GateRetryMax \in Nat \ {0} /\ MaxParked \in Nat
  /\ HasBudget \in BOOLEAN

VARIABLES
  status,            \* graph_runs.status
  saved,             \* graph_runs.state_json
  done,              \* nodes with a 'completed' row
  parked,            \* [Humans -> Nat], 'paused' rows of a human node
  orphans,           \* nodes with a 'running' row whose process is gone
  loop               \* the executions of executeGraph

vars == <<status, saved, done, parked, orphans, loop>>

RunStatus == {"pending", "running", "paused", "completed", "failed", "cancelled"}

\* The shared state: whose patches it holds and what the branches decided.
State == [merged : SUBSET Nodes, taken : [Nodes -> Choices \cup {NoChoice}]]

NoState == [merged |-> {}, taken |-> [n \in Nodes |-> NoChoice]]

\* Where runNodeWithRetry is with a node of the batch: not in it, executing,
\* sleeping before the next attempt, or returned.
Stages == {"out", "running", "backoff", "completed", "failed", "paused", "skipped"}

Exec ==
  {x \in [at : Stages, attempt : 0..MaxAttempts, choice : Choices \cup {NoChoice}] :
     x.at = "backoff" => x.attempt < MaxAttempts}

Out == [at |-> "out", attempt |-> 0, choice |-> NoChoice]

Attempt(k) == [at |-> "running", attempt |-> k, choice |-> NoChoice]

Loop ==
  [phase : {"off", "batch", "polling"},
   completed : SUBSET Nodes,             \* the completed-set in memory
   state : State,                        \* ctx.state, branchDecisions
   tries : [Gates -> 0..GateRetryMax],   \* gateRetryCount
   exec : [Nodes -> Exec]]

Off ==
  [phase |-> "off", completed |-> {}, state |-> NoState,
   tries |-> [g \in Gates |-> 0], exec |-> [n \in Nodes |-> Out]]

TypeOK ==
  /\ status \in RunStatus
  /\ saved \in State
  /\ done \in SUBSET Nodes
  /\ parked \in [Humans -> Nat]
  /\ orphans \in SUBSET Nodes
  /\ loop \in [Loops -> Loop]

\* startGraphRun has created the row.
Init ==
  /\ status = "pending" /\ saved = NoState
  /\ done = {} /\ parked = [h \in Humans |-> 0] /\ orphans = {}
  /\ loop = [l \in Loops |-> Off]

-----------------------------------------------------------------------------
(* The scheduler.  L is the memory of a loop.                              *)

Matches(e, L) ==
  \/ e.when = Always
  \/ e.when \in Choices /\ L.state.taken[e.from] = e.when

\* Mutant: a conditional edge is active before its branch has decided.
EdgeActiveUndecided(e, L) ==
  /\ e.from \in L.completed
  /\ e.when = Otherwise \/ Matches(e, L) \/ L.state.taken[e.from] = NoChoice

EdgeActive(e, L) ==
  /\ e.from \in L.completed
  /\ \/ Matches(e, L)
     \/ /\ e.when = Otherwise
        /\ \A s \in Edges :
             s.from = e.from /\ s.when # Otherwise => ~Matches(s, L)

\* computeReadyNodes
\* Mutant: one active incoming edge is enough.
ReadyOnAnyEdge(L) ==
  {n \in Nodes \ L.completed :
     \/ \A e \in Edges : e.to # n
     \/ \E e \in Edges : e.to = n /\ EdgeActive(e, L)}

Ready(L) ==
  {n \in Nodes \ L.completed : \A e \in Edges : e.to = n => EdgeActive(e, L)}

\* nextReadyBatch: the first maxParallel ready nodes of the definition.
Batch(L) ==
  {n \in Ready(L) : Cardinality({m \in Ready(L) : Pos[m] < Pos[n]}) < MaxParallel}

Executing(l) == {n \in Nodes : loop[l].exec[n].at = "running"}

\* Nodes with a 'running' row, as loop l sees them between two batches.
RunningRows(l) == orphans \cup UNION {Executing(k) : k \in Loops \ {l}}

\* Mutant: a run is over when nothing is ready.
AllCompletedWhenIdle(L) == Ready(L) = {}

AllCompleted(L) == L.completed = Nodes

\* The top of the loop of executeGraph with the memory L and the run's status
\* st, up to the dispatch of a batch; every node's first attempt creates its
\* row before the first await.
Pass(l, L, st) ==
  \/ /\ st \in {"cancelled", "paused"}
     /\ status' = st
     /\ loop' = [loop EXCEPT ![l] = Off]
  \/ /\ st \notin {"cancelled", "paused"}
     /\ \/ HasBudget
        \/ ~AllCompleted(L) /\ Ready(L) = {} /\ RunningRows(l) = {}
     /\ status' = "failed"
     /\ loop' = [loop EXCEPT ![l] = Off]
  \/ /\ st \notin {"cancelled", "paused"}
     /\ AllCompleted(L)
     /\ status' = "completed"
     /\ loop' = [loop EXCEPT ![l] = Off]
  \/ /\ st \notin {"cancelled", "paused"}
     /\ ~AllCompleted(L) /\ Ready(L) = {} /\ RunningRows(l) # {}
     /\ status' = st
     /\ loop' = [loop EXCEPT ![l] = [L EXCEPT !.phase = "polling"]]
  \/ /\ st \notin {"cancelled", "paused"}
     /\ ~AllCompleted(L) /\ Ready(L) # {}
     /\ status' = "running"
     /\ loop' = [loop EXCEPT ![l] =
          [L EXCEPT !.phase = "batch",
                    !.exec = [n \in Nodes |->
                                IF n \in Batch(L) THEN Attempt(1) ELSE Out]]]

\* Mutant: a resumed run starts from an empty state.
EnterAfresh(l, completed, state) ==
  Pass(l, [Off EXCEPT !.completed = completed, !.state = NoState], "running")

\* executeGraph from its start: the row says 'running', the completed-set and
\* the state come from the database.
Enter(l, completed, state) ==
  Pass(l, [Off EXCEPT !.completed = completed, !.state = state], "running")

-----------------------------------------------------------------------------
(* The steps of a loop.                                                    *)

Start(l) ==
  /\ status = "pending"
  /\ Enter(l, done, saved)
  /\ UNCHANGED <<saved, done, parked, orphans>>

SetExec(l, n, x) == loop' = [loop EXCEPT ![l].exec[n] = x]

\* runGraphNode returned 'completed'.
NodeCompletes(l, n) ==
  /\ loop[l].exec[n].at = "running" /\ n \notin Humans
  /\ \E c \in IF n \in Branches THEN Choices ELSE {NoChoice} :
       SetExec(l, n, [loop[l].exec[n] EXCEPT !.at = "completed", !.choice = c])
  /\ done' = done \cup {n}
  /\ UNCHANGED <<status, saved, parked, orphans>>

\* It returned 'failed': the node sleeps, or its attempts are used up.
NodeFails(l, n) ==
  LET x == loop[l].exec[n]
  IN  /\ x.at = "running" /\ n \in Fallible
      /\ SetExec(l, n, [x EXCEPT !.at = IF x.attempt < MaxAttempts
                                          THEN "backoff" ELSE "failed"])
      /\ UNCHANGED <<status, saved, done, parked, orphans>>

\* A human node only waits for approval.
HumanParks(l, n) ==
  /\ loop[l].exec[n].at = "running" /\ n \in Humans
  /\ SetExec(l, n, [loop[l].exec[n] EXCEPT !.at = "paused"])
  /\ parked' = [parked EXCEPT ![n] = @ + 1]
  /\ UNCHANGED <<status, saved, done, orphans>>

\* The end of the backoff: the run's status is read again.
\* Mutant: it is not.
RetryAnyway(l, n) ==
  LET x == loop[l].exec[n]
  IN  /\ x.at = "backoff"
      /\ SetExec(l, n, Attempt(x.attempt + 1))
      /\ UNCHANGED <<status, saved, done, parked, orphans>>

RetryNode(l, n) ==
  LET x == loop[l].exec[n]
  IN  /\ x.at = "backoff"
      /\ SetExec(l, n,
           IF status = "cancelled" THEN [x EXCEPT !.at = "skipped"]
           ELSE IF status = "paused" THEN [x EXCEPT !.at = "paused"]
           ELSE Attempt(x.attempt + 1))
      /\ UNCHANGED <<status, saved, done, parked, orphans>>

BatchOf(L) == {n \in Nodes : L.exec[n].at # "out"}

\* A gate that did not pass has its upstream node run again.
\* Mutant: as often as it takes.
RetriesForever(L, n) == n \in Gates /\ L.exec[n].at \in {"failed", "skipped"}

Retries(L, n) ==
  /\ n \in Gates /\ L.exec[n].at \in {"failed", "skipped"}
  /\ L.tries[n] + 1 < GateRetryMax

\* A result that ends the loop.
Stops(L, n) ==
  \/ L.exec[n].at = "paused"
  \/ L.exec[n].at \in {"failed", "skipped"} /\ ~Retries(L, n)

\* The results the loop over the batch reaches before one stops it.
Handled(L) ==
  {n \in BatchOf(L) : \A m \in BatchOf(L) : Stops(L, m) => Pos[n] < Pos[m]}

Finished(L) == {n \in Handled(L) : L.exec[n].at = "completed"}

Retried(L) == {g \in Handled(L) : Retries(L, g)}

\* The memory after those results.
\* Mutant: the re-runs of a gate's upstream are not counted.
AbsorbedUncounted(L) ==
  [phase |-> L.phase,
   completed |-> (L.completed \cup Finished(L)) \ {Upstream[g] : g \in Retried(L)},
   state |-> [merged |-> L.state.merged \cup Finished(L),
              taken  |-> [n \in Nodes |-> IF n \in Finished(L) \cap Branches
                                            THEN L.exec[n].choice
                                            ELSE L.state.taken[n]]],
   tries |-> L.tries,
   exec |-> [n \in Nodes |-> Out]]

Absorbed(L) ==
  [phase |-> L.phase,
   completed |-> (L.completed \cup Finished(L)) \ {Upstream[g] : g \in Retried(L)},
   state |-> [merged |-> L.state.merged \cup Finished(L),
              taken  |-> [n \in Nodes |-> IF n \in Finished(L) \cap Branches
                                            THEN L.exec[n].choice
                                            ELSE L.state.taken[n]]],
   tries |-> [g \in Gates |-> IF g \in Retried(L) THEN L.tries[g] + 1
                                               ELSE L.tries[g]],
   exec |-> [n \in Nodes |-> Out]]

\* The result at which the loop over the batch stops.
IsFirstStop(L, n) ==
  /\ n \in BatchOf(L) /\ Stops(L, n)
  /\ \A m \in BatchOf(L) : Stops(L, m) => Pos[n] <= Pos[m]

\* Promise.all of the batch has resolved: merge, then stop the run or go on
\* with the next pass.
Settle(l) ==
  LET L == loop[l]  after == Absorbed(L)
  IN  /\ L.phase = "batch"
      /\ \A n \in Nodes : L.exec[n].at \notin {"running", "backoff"}
      /\ saved' = after.state
      /\ \/ \E n \in Nodes :
              /\ IsFirstStop(L, n)
              /\ status' = IF L.exec[n].at = "paused" THEN "paused" ELSE "failed"
              /\ loop' = [loop EXCEPT ![l] = Off]
         \/ /\ \A n \in BatchOf(L) : ~Stops(L, n)
            /\ Pass(l, after, status)
      /\ UNCHANGED <<done, parked, orphans>>

\* The poll interval of a loop without ready nodes has passed; a budget breach
\* writes the loop's state.
Poll(l) ==
  /\ loop[l].phase = "polling"
  /\ Pass(l, loop[l], status)
  /\ saved' = IF HasBudget /\ status' = "failed" THEN loop[l].state ELSE saved
  /\ UNCHANGED <<done, parked, orphans>>

-----------------------------------------------------------------------------
(* Requests.  A run is executed in the tick that created it, so no request  *)
(* finds it 'pending'.  None looks at what the status was, except resume    *)
(* and approve.                                                             *)

Pause ==
  /\ status # "pending"
  /\ status' = "paused"
  /\ UNCHANGED <<saved, done, parked, orphans, loop>>

Cancel ==
  /\ status # "pending"
  /\ status' = "cancelled"
  /\ UNCHANGED <<saved, done, parked, orphans, loop>>

\* The bound MaxParked, a guard on requests and never on a loop.
ParkedWithinBound == \A h \in Humans : parked[h] < MaxParked

Resume(l) ==
  /\ loop[l].phase = "off" /\ ParkedWithinBound
  /\ status \in {"paused", "failed"}
  /\ Enter(l, done, saved)
  /\ UNCHANGED <<saved, done, parked, orphans>>

\* approveHumanNode on a paused row, and the resume of the route.  Several rows
\* of a node tie in getLatestGraphNodeRun; the one it returns is paused here.
Approve(l, h) ==
  LET with == [saved EXCEPT !.merged = @ \cup {h}]
  IN  /\ loop[l].phase = "off"
      /\ status = "paused" /\ parked[h] > 0
      /\ parked' = [parked EXCEPT ![h] = @ - 1]
      /\ done' = done \cup {h}
      /\ saved' = with
      /\ Enter(l, done \cup {h}, with)
      /\ UNCHANGED orphans

\* rerunGraphNode resets the rows that are not running, and the route resumes
\* whatever the status is.
Rerun(l, n) ==
  /\ loop[l].phase = "off" /\ status # "pending" /\ ParkedWithinBound
  /\ done' = done \ {n}
  /\ parked' = [h \in Humans |-> IF h = n THEN 0 ELSE parked[h]]
  /\ Enter(l, done \ {n}, saved)
  /\ UNCHANGED <<saved, orphans>>

\* The process ends, and bootRecoverGraphRuns runs in the next one.
\* Mutant: it flips the rows of the nodes and not the run's.
RestartKeepingStatus ==
  LET lost == UNION {Executing(l) : l \in Loops}
  IN  /\ loop' = [l \in Loops |-> Off]
      /\ orphans' = IF status \in {"pending", "running", "paused"}
                      THEN {} ELSE orphans \cup lost
      /\ UNCHANGED <<status, saved, done, parked>>

Restart ==
  LET lost == UNION {Executing(l) : l \in Loops}
  IN  /\ loop' = [l \in Loops |-> Off]
      /\ orphans' = IF status \in {"pending", "running", "paused"}
                      THEN {} ELSE orphans \cup lost
      /\ status' = IF status \in {"pending", "running"} THEN "failed" ELSE status
      /\ UNCHANGED <<saved, done, parked>>

-----------------------------------------------------------------------------
(* Specifications.                                                         *)

LoopStep(l) ==
  \/ \E n \in Nodes : \/ NodeCompletes(l, n) \/ NodeFails(l, n)
                      \/ HumanParks(l, n) \/ RetryNode(l, n)
  \/ Settle(l) \/ Poll(l)

Engine == \E l \in Loops : Start(l) \/ LoopStep(l)

AtRest == \A l \in Loops : loop[l].phase = "off"

Restarting == \E l \in Loops : Resume(l) \/ \E h \in Humans : Approve(l, h)

\* Nobody cancels, and the user resumes a run only when it has come to rest.
KeptNext ==
  \/ Engine
  \/ Pause \/ Restart
  \/ AtRest /\ Restarting

\* He may cancel.
CalmNext == KeptNext \/ Cancel

\* He resumes whenever the routes let him.
BusyNext == CalmNext \/ Restarting

\* He reruns single nodes.
Next == BusyNext \/ \E l \in Loops, n \in Nodes : Rerun(l, n)

KeptSpec == Init /\ [][KeptNext]_vars
BusySpec == Init /\ [][BusyNext]_vars
Spec == Init /\ [][Next]_vars

\* Executions end (agents and model calls have time limits), timers fire, and
\* a resolved batch is processed.
Fairness ==
  \A l \in Loops :
    /\ WF_vars(Start(l))
    /\ \A n \in Nodes :
         /\ WF_vars(NodeCompletes(l, n) \/ NodeFails(l, n) \/ HumanParks(l, n))
         /\ WF_vars(RetryNode(l, n))
    /\ WF_vars(Settle(l)) /\ WF_vars(Poll(l))

KeptFairSpec == KeptSpec /\ Fairness

-----------------------------------------------------------------------------
(* Properties that hold.                                                   *)

\* A run whose row says 'running' has a loop: the routes refuse to resume a
\* running run, so one without a loop would be stuck for good.
RunningHasLoop == status = "running" => \E l \in Loops : loop[l].phase # "off"

\* While the row says 'paused' or 'cancelled', before and after a step, the
\* step starts no node: the checks at the top of the loop and between two
\* attempts leave no gap.
NoStartWhileStopped ==
  [][(status \in {"paused", "cancelled"} /\ status' = status)
       => (\A l \in Loops : (Executing(l))' \subseteq Executing(l))]_vars

\* A run reports 'completed' only when every node has a completed row, however
\* many loops have worked on it (without single reruns, which take rows back).
CompletedMeansAllNodes == status = "completed" => done = Nodes

\* Without single reruns a run implements OrderedRun: over any number of
\* loops, crashes and gate retries, a node finishes after its predecessors,
\* and its completed row stays.
Order == INSTANCE OrderedRun
OrderSpec == Order!Spec

\* The upstream node of a gate is executed again when the gate fails.
SentBack == {Upstream[g] : g \in Gates}

\* Of two edges that leave a branch under different conditions, at most one
\* target ever runs, though the decision lives in memory and in state_json and
\* a crash may separate it from the branch's completed row.  (A branch that is
\* the upstream of a gate is executed again and may decide otherwise.)
OneBranchTaken ==
  \A e, f \in Edges :
    /\ e.from \in Branches \ SentBack /\ f.from = e.from
    /\ e.when # f.when /\ e.when # Always /\ f.when # Always
    => ~ ({e.to, f.to} \subseteq done \cup UNION {Executing(l) : l \in Loops})

\* An approved human node has its decision in state_json, where the nodes after
\* it read it: no loop that runs later writes a state without it.
ApprovalRemembered == \A h \in Humans : h \in done => h \in saved.merged

\* A running run comes to rest, in a status from which the user can act: the
\* retries of nodes and gates end.
RunSettles == status = "running" ~> AtRest /\ status # "running"

=============================================================================
