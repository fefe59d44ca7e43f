------------------------------ MODULE Dispatch ------------------------------
(***************************************************************************)
(* Distributed dispatch: the turns of one folder, given by web-server pods *)
(* to a pool of agent runners over Redis.  redis-bus.ts, the dispatch of   *)
(* runAgent and of processAgentConversation and IpcWatcherManager in       *)
(* index.ts, redis-ipc.ts and the task loop of the agent runner.           *)
(*                                                                         *)
(* The chat of the folder and its conversation agents are lanes: each pod  *)
(* has at most one call of a lane at a time, but one watcher and one       *)
(* output handler for the folder.  A runner's output names its folder, not *)
(* its turn.                                                               *)
(*                                                                         *)
(* An action is what happens between two awaits of a call or of a runner.  *)
(* The atomicity of Redis commands, and that publish reaches those who are *)
(* subscribed and nobody else, is external.                                *)
(*                                                                         *)
(* Abstracted: prompts, stream events (only terminal outputs are kept),    *)
(* messages injected into a runner, interrupts, the per-user counters, and *)
(* the local execution of a call that finds the pool empty.  The queries   *)
(* that follow that of a turn (memory flush, what continues after a        *)
(* compaction, a truncation, a question or a brake) are taken as one.      *)
(***************************************************************************)
EXTENDS Naturals, Sequences, FiniteSets

CONSTANTS
  Pods, Lanes, Turns, Runners,
  LaneOf,            \* [Turns -> Lanes]
  Adapters,          \* turns of the other engines, which have no query loop
  None,              \* no turn, no lane, no output
  MaxCalls,          \* bound: calls that begin
  MaxFaults,         \* bound: failed commands and crashes
  MaxLapses          \* bound: claims that expire

ASSUME LanesAssumption ==
  LaneOf \in [Turns -> Lanes] /\ None \notin Turns \cup Lanes
ASSUME DispatchPodsAssumption == IsFiniteSet(Pods)

VARIABLES
  pool,              \* deepthink:agent-runners:pool
  queue,             \* deepthink:agent-tasks, its head first
  claimed,           \* turns with a deepthink:task-claimed key
  closeFile,         \* the _close file in the shared input directory
  call,              \* [Pods -> [Lanes -> Call]]
  handler,           \* [Pods -> the lane of distributedOutputHandlers, or None]
  feed,              \* [Pods -> the state of the folder's subscriptions]
  outputs,           \* [Pods -> outputs on their way to the pod]
  bridge,            \* pods that are about to write a _close they received
  runner,            \* [Runners -> Runner]
  settled,           \* [Pods -> turns whose call succeeded]
  runs,              \* [Turns -> how often a runner has taken it]
  lost,              \* turns that were claimed and whose push did not succeed
  calls, lapses, faults

redis == <<pool, queue, claimed, closeFile>>
watch == <<handler, feed, outputs, bridge, settled>>
host == <<call, watch>>
history == <<runs, lost, calls, lapses, faults>>
vars == <<redis, host, runner, history>>

Outcomes == {"success", "closed", "error"}
Call == [stage : {"idle", "entering", "claiming", "pushing", "waiting"},
         turn : Turns \cup {None}, got : Outcomes \cup {None}]
Idle == [stage |-> "idle", turn |-> None, got |-> None]

\* closing: the query has consumed _close and ends.  following: a query that
\* follows; ending: that one has consumed _close.  down: the process has exited
\* and the pod will restart it.
Runner == [phase : {"pool", "starting", "adapting", "query", "answered", "closing",
                    "following", "ending", "waiting", "stdin", "down"},
           turn : Turns \cup {None}, close : BOOLEAN]
Blocked == [phase |-> "pool", turn |-> None, close |-> FALSE]

Listening(r) ==
  runner[r].phase \in {"query", "answered", "closing", "following", "ending", "waiting"}
Subscribed(r) == Listening(r) \/ runner[r].phase = "adapting"

Init ==
  /\ pool = Runners /\ queue = <<>> /\ claimed = {} /\ closeFile = FALSE
  /\ call = [p \in Pods |-> [l \in Lanes |-> Idle]]
  /\ handler = [p \in Pods |-> None] /\ feed = [p \in Pods |-> "off"]
  /\ outputs = [p \in Pods |-> <<>>] /\ bridge = {}
  /\ settled = [p \in Pods |-> {}]
  /\ runner = [r \in Runners |-> Blocked]
  /\ runs = [t \in Turns |-> 0] /\ lost = {}
  /\ calls = 0 /\ lapses = [t \in Turns |-> 0] /\ faults = 0

-----------------------------------------------------------------------------
(* A call on a pod.                                                        *)

Fault == faults < MaxFaults /\ faults' = faults + 1

To(p, l, stage) == call' = [call EXCEPT ![p][l].stage = stage]

\* runAgent or processAgentConversation: watchGroup, and the pool has a member.
\* A pod that watches the folder already only counts the reference.  A turn that
\* counts as handled may come again: the cursor of an agent's conversation is
\* committed only when a reply was sent.
Begin(p, t) ==
  LET l == LaneOf[t] IN
  /\ call[p][l] = Idle
  /\ pool # {} /\ calls < MaxCalls
  /\ calls' = calls + 1
  /\ call' = [call EXCEPT ![p][l] = [Idle EXCEPT !.stage = "entering", !.turn = t]]
  /\ feed' = [feed EXCEPT ![p] = IF @ = "off" THEN "pending" ELSE @]
  /\ UNCHANGED <<redis, handler, outputs, bridge, settled, runner, runs, lost,
                 lapses, faults>>

\* The subscriptions of watchGroup settle.  One that fails is logged, and the
\* call goes on without it.
Confirm(p) ==
  /\ feed[p] = "pending"
  /\ \/ feed' = [feed EXCEPT ![p] = "on"] /\ UNCHANGED faults
     \/ /\ Fault
        /\ \E heard \in {"outputs", "closes", "nothing"} :
             feed' = [feed EXCEPT ![p] = heard]
  /\ UNCHANGED <<redis, call, handler, outputs, bridge, settled, runner, runs, lost,
                 calls, lapses>>

HearsOutputs(p) == feed[p] \in {"on", "outputs"}
HearsCloses(p) == feed[p] \in {"on", "closes"}

\* ensureSubscriptionsReady takes the promises out of the list before it awaits
\* them: a second call of the folder finds the list empty and does not wait.
Ready(p, l) ==
  feed[p] # "pending" \/ \E m \in Lanes \ {l} : call[p][m].stage = "entering"

\* registerDistributedOutput replaces what another lane has registered.
Register(p, l) ==
  /\ call[p][l].stage = "entering" /\ Ready(p, l)
  /\ To(p, l, "claiming") /\ handler' = [handler EXCEPT ![p] = l]
  /\ UNCHANGED <<redis, feed, outputs, bridge, settled, runner, history>>

\* The end of a call: the finally block unregisters whatever handler the folder
\* has, and unwatchGroup of the last call unsubscribes.  (The counter of the user
\* that is decremented in between is abstracted.)
Finish(p, l, success) ==
  /\ call' = [call EXCEPT ![p][l] = Idle]
  /\ settled' = [settled EXCEPT ![p] = IF success THEN @ \cup {call[p][l].turn} ELSE @]
  /\ handler' = [handler EXCEPT ![p] = None]
  /\ IF \A m \in Lanes \ {l} : call[p][m] = Idle
     THEN feed' = [feed EXCEPT ![p] = "off"] /\ outputs' = [outputs EXCEPT ![p] = <<>>]
     ELSE UNCHANGED <<feed, outputs>>

\* published = false: the call counts as a success and sends no _close.
Skip(p, l) == Finish(p, l, TRUE) /\ UNCHANGED bridge

\* SET NX.  When it fails the call goes on, whether or not the key was set.
Claim(p, l) ==
  LET t == call[p][l].turn IN
  /\ call[p][l].stage = "claiming"
  /\ \/ t \in claimed /\ Skip(p, l) /\ UNCHANGED <<claimed, lapses, faults>>
     \/ /\ t \notin claimed /\ claimed' = claimed \cup {t}
        /\ To(p, l, "pushing") /\ UNCHANGED <<watch, lapses, faults>>
     \/ /\ Fault /\ claimed' \in {claimed, claimed \cup {t}}
        /\ lapses' = [lapses EXCEPT ![t] = @ + 1]
        /\ To(p, l, "pushing") /\ UNCHANGED watch
  /\ UNCHANGED <<pool, queue, closeFile, runner, runs, lost, calls>>

\* LPUSH: the turn becomes the head, which BLPOP takes first.
Push(p, l) ==
  LET t == call[p][l].turn IN
  /\ call[p][l].stage = "pushing"
  /\ \/ /\ queue' = <<t>> \o queue /\ To(p, l, "waiting")
        /\ UNCHANGED <<watch, lost, faults>>
     \/ /\ Fault /\ queue' \in {queue, <<t>> \o queue}
        /\ lost' = lost \cup {t} /\ Skip(p, l)
  /\ UNCHANGED <<pool, claimed, closeFile, runner, runs, calls, lapses>>

\* An output goes to whoever is registered for the folder; the first terminal
\* one resolves the call's promise.
HandleOutput(p) ==
  LET l == handler[p] IN
  /\ outputs[p] # <<>> /\ outputs' = [outputs EXCEPT ![p] = Tail(@)]
  /\ call' = IF l = None \/ call[p][l].got # None THEN call
             ELSE [call EXCEPT ![p][l].got = Head(outputs[p])]
  /\ UNCHANGED <<redis, handler, feed, bridge, settled, runner, history>>

\* publishAgentIpc(_close): to the runners that are subscribed, and to the pods
\* that watch the folder.
Deliver ==
  /\ runner' = [r \in Runners |->
                  IF Subscribed(r) THEN [runner[r] EXCEPT !.close = TRUE] ELSE runner[r]]
  /\ bridge' = bridge \cup {p \in Pods : HearsCloses(p)}

\* An error is swallowed.
PublishClose ==
  \/ Deliver /\ UNCHANGED faults
  \/ Fault /\ UNCHANGED <<runner, bridge>>

\* GroupQueue.closeStdin, by an idle timer or a user: a run without a process is
\* taken for one on another pod.
CloseStdin ==
  /\ Deliver /\ UNCHANGED <<redis, call, handler, feed, outputs, settled, history>>

\* Mutant: the claim is released with the call.
SettleReleasing(p, l) ==
  /\ call[p][l].stage = "waiting"
  /\ PublishClose /\ Finish(p, l, call[p][l].got = "success")
  /\ claimed' = claimed \ {call[p][l].turn}
  /\ UNCHANGED <<pool, queue, closeFile, runs, lost, calls, lapses>>

\* Mutant: a call that gives up takes its turn out of the queue.
SettleWithdrawing(p, l) ==
  /\ call[p][l].stage = "waiting"
  /\ PublishClose /\ Finish(p, l, call[p][l].got = "success")
  /\ queue' = SelectSeq(queue, LAMBDA t : t # call[p][l].turn)
  /\ UNCHANGED <<pool, claimed, closeFile, runs, lost, calls, lapses>>

\* Mutant: only an answered call closes the runner.
SettleKeeping(p, l) ==
  /\ call[p][l].stage = "waiting"
  /\ IF call[p][l].got = None THEN UNCHANGED <<runner, bridge, faults>> ELSE PublishClose
  /\ Finish(p, l, call[p][l].got = "success")
  /\ UNCHANGED <<redis, runs, lost, calls, lapses>>

\* The output or the timer of ten minutes wins the race; _close goes out.
Settle(p, l) ==
  /\ call[p][l].stage = "waiting"
  /\ PublishClose /\ Finish(p, l, call[p][l].got = "success")
  /\ UNCHANGED <<redis, runs, lost, calls, lapses>>

\* A pod that received _close writes the file for a runner of its own host.
Bridge(p) ==
  /\ p \in bridge /\ bridge' = bridge \ {p} /\ closeFile' = TRUE
  /\ UNCHANGED <<pool, queue, claimed, call, handler, feed, outputs, settled,
                 runner, history>>

Crash(p) ==
  /\ Fault
  /\ call' = [call EXCEPT ![p] = [l \in Lanes |-> Idle]]
  /\ handler' = [handler EXCEPT ![p] = None] /\ feed' = [feed EXCEPT ![p] = "off"]
  /\ outputs' = [outputs EXCEPT ![p] = <<>>] /\ bridge' = bridge \ {p}
  /\ lost' = lost \cup {call[p][l].turn : l \in {m \in Lanes : call[p][m].stage = "pushing"}}
  /\ UNCHANGED <<redis, settled, runner, runs, calls, lapses>>

\* The key lives 15 minutes, a call at most ten.
ClaimExpires(t) ==
  /\ t \in claimed /\ lapses[t] < MaxLapses
  /\ \A p \in Pods : ~(/\ call[p][LaneOf[t]].turn = t
                       /\ call[p][LaneOf[t]].stage \in {"pushing", "waiting"})
  /\ claimed' = claimed \ {t} /\ lapses' = [lapses EXCEPT ![t] = @ + 1]
  /\ UNCHANGED <<pool, queue, closeFile, host, runner, runs, lost, calls, faults>>

-----------------------------------------------------------------------------
(* A runner.                                                               *)

\* writeOutput: to the pods that are subscribed.
Publish(status) ==
  outputs' = [p \in Pods |-> IF HearsOutputs(p) THEN Append(outputs[p], status)
                             ELSE outputs[p]]

Enter(r, phase) == runner' = [runner EXCEPT ![r].phase = phase]

Return(r) == runner' = [runner EXCEPT ![r] = Blocked]

\* BLPOP.
Pop(r) ==
  /\ runner[r].phase = "pool" /\ queue # <<>>
  /\ queue' = Tail(queue)
  /\ runner' = [runner EXCEPT ![r] = [Blocked EXCEPT !.phase = "starting",
                                                     !.turn = Head(queue)]]
  /\ runs' = [runs EXCEPT ![Head(queue)] = @ + 1]
  /\ UNCHANGED <<pool, claimed, closeFile, host, lost, calls, lapses, faults>>

\* subscribeIpcInput is confirmed; before its first query the runner removes a
\* stale _close file.
Subscribe(r) ==
  /\ runner[r].phase = "starting"
  /\ IF runner[r].turn \in Adapters
     THEN Enter(r, "adapting") /\ UNCHANGED closeFile
     ELSE Enter(r, "query") /\ closeFile' = FALSE
  /\ UNCHANGED <<pool, queue, claimed, host, history>>

\* Another engine: one result, and back to the queue.
AdapterReturns(r) ==
  /\ runner[r].phase = "adapting" /\ Return(r)
  /\ \E status \in {"success", "error"} : Publish(status)
  /\ UNCHANGED <<redis, call, handler, feed, bridge, settled, history>>

\* The result of the query, while its stream stays open.
Answer(r) ==
  /\ runner[r].phase = "query" /\ Enter(r, "answered") /\ Publish("success")
  /\ UNCHANGED <<redis, call, handler, feed, bridge, settled, history>>

\* shouldClose: a signal from Redis before the file.
ShouldClose(r) == runner[r].close \/ closeFile

ConsumeClose(r) == closeFile' = (closeFile /\ runner[r].close)

\* The poll of a query sees _close and ends the stream.
TakeClose(r) ==
  /\ runner[r].phase \in {"query", "answered", "following"} /\ ShouldClose(r)
  /\ ConsumeClose(r)
  /\ runner' = [runner EXCEPT ![r].close = FALSE,
                              ![r].phase = IF @ = "following" THEN "ending" ELSE "closing"]
  /\ UNCHANGED <<pool, queue, claimed, host, history>>

\* closedDuringQuery: back to the queue, still connected.
ClosedInQuery(r) ==
  /\ runner[r].phase = "closing" /\ Publish("closed") /\ Return(r)
  /\ UNCHANGED <<redis, call, handler, feed, bridge, settled, history>>

\* sessionResumeFailed and contextOverflow are tested before closedDuringQuery:
\* the query starts again, and what it has consumed is gone.  An overflow may
\* have shown what it had.
RetryQuery(r) ==
  /\ runner[r].phase \in {"query", "answered", "closing"} /\ Fault /\ Enter(r, "query")
  /\ Publish("success") \/ UNCHANGED outputs
  /\ UNCHANGED <<redis, call, handler, feed, bridge, settled, runs, lost, calls, lapses>>

\* Another query follows: the memory flush before the session update, the others
\* after it.
Follow(r) ==
  /\ runner[r].phase \in {"query", "answered"} /\ Enter(r, "following")
  /\ Publish("success") \/ UNCHANGED outputs
  /\ UNCHANGED <<redis, call, handler, feed, bridge, settled, history>>

\* Only some of the queries that follow publish at their end.
FollowEnds(r) ==
  /\ runner[r].phase = "following" /\ Enter(r, "waiting")
  /\ Publish("success") \/ UNCHANGED outputs
  /\ UNCHANGED <<redis, call, handler, feed, bridge, settled, history>>

\* Mutant: the session update is not a terminal output.
QueryEndsInStream(r) ==
  /\ runner[r].phase \in {"query", "answered"}
  /\ Enter(r, "waiting") /\ Publish("stream")
  /\ UNCHANGED <<redis, call, handler, feed, bridge, settled, history>>

\* The stream ended by itself: the session update is a second success.
QueryEnds(r) ==
  /\ runner[r].phase \in {"query", "answered"}
  /\ Enter(r, "waiting") /\ Publish("success")
  /\ UNCHANGED <<redis, call, handler, feed, bridge, settled, history>>

\* The loop of a task ends: closeRedisIpc leaves the pool, and main reads its next
\* task from stdin.
Leave(r) ==
  /\ pool' = pool \ {r}
  /\ runner' = [runner EXCEPT ![r] = [Blocked EXCEPT !.phase = "stdin"]]

\* waitForIpcMessage returned null.
LeaveWaiting(r) ==
  /\ runner[r].phase = "waiting" /\ ShouldClose(r) /\ ConsumeClose(r) /\ Leave(r)
  /\ UNCHANGED <<queue, claimed, host, history>>

\* closedDuringQuery of a query that follows leaves the loop.
LeaveFollowing(r) ==
  /\ runner[r].phase = "ending" /\ Publish("closed") /\ Leave(r)
  /\ UNCHANGED <<queue, claimed, closeFile, call, handler, feed, bridge, settled, history>>

\* exit(1) inside a task; the entry in the pool stays.
FailRunner(r) ==
  /\ runner[r].phase \in {"starting", "query", "answered", "closing", "following", "ending"}
  /\ Fault
  /\ runner' = [runner EXCEPT ![r] = [Blocked EXCEPT !.phase = "down"]]
  /\ Publish("error")
  /\ UNCHANGED <<redis, call, handler, feed, bridge, settled, runs, lost, calls, lapses>>

\* An empty stdin does not parse, so that process exits too.
Restart(r) ==
  /\ runner[r].phase \in {"stdin", "down"}
  /\ Return(r) /\ pool' = pool \cup {r}
  /\ UNCHANGED <<queue, claimed, closeFile, host, history>>

-----------------------------------------------------------------------------
CallStep(p, l) ==
  Register(p, l) \/ Claim(p, l) \/ Push(p, l) \/ Settle(p, l)
PodStep(p) == Confirm(p) \/ HandleOutput(p) \/ Bridge(p)
RunnerStep(r) ==
  \/ Pop(r) \/ Subscribe(r) \/ AdapterReturns(r) \/ TakeClose(r)
  \/ ClosedInQuery(r) \/ QueryEnds(r) \/ FollowEnds(r) \/ LeaveWaiting(r)
  \/ LeaveFollowing(r) \/ Restart(r)
RunnerTurn(r) == Answer(r) \/ Follow(r) \/ RetryQuery(r) \/ FailRunner(r)

Next ==
  \/ \E p \in Pods, t \in Turns : Begin(p, t)
  \/ \E p \in Pods, l \in Lanes : CallStep(p, l)
  \/ \E p \in Pods : PodStep(p) \/ Crash(p)
  \/ CloseStdin
  \/ \E t \in Turns : ClaimExpires(t)
  \/ \E r \in Runners : RunnerStep(r) \/ RunnerTurn(r)

Spec == Init /\ [][Next]_vars

\* Awaited commands return, timers fire, queries end.  Nobody has to dispatch.
FairSpec ==
  /\ Spec
  /\ \A p \in Pods, l \in Lanes : WF_vars(CallStep(p, l))
  /\ \A p \in Pods : WF_vars(PodStep(p))
  /\ \A r \in Runners : WF_vars(RunnerStep(r))

TypeOK ==
  /\ pool \subseteq Runners /\ queue \in Seq(Turns) /\ claimed \subseteq Turns
  /\ closeFile \in BOOLEAN
  /\ call \in [Pods -> [Lanes -> Call]]
  /\ handler \in [Pods -> Lanes \cup {None}]
  /\ feed \in [Pods -> {"off", "pending", "on", "outputs", "closes", "nothing"}]
  /\ outputs \in [Pods -> Seq(Outcomes)] /\ bridge \subseteq Pods
  /\ runner \in [Runners -> Runner]
  /\ settled \in [Pods -> SUBSET Turns] /\ lost \subseteq Turns
  /\ runs \in [Turns -> Nat] /\ calls \in Nat
  /\ lapses \in [Turns -> Nat] /\ faults \in Nat
-----------------------------------------------------------------------------
(* Properties.                                                             *)

Copies(t) == {i \in DOMAIN queue : queue[i] = t}

\* Whatever the pods and their retries do, a turn is executed once, and once
\* more for each time its claim expired or could not be written:
\* task-claimed of publishAgentTask, "Distributed dedup".
TurnRunsOnce == \A t \in Turns : runs[t] + Cardinality(Copies(t)) <= 1 + lapses[t]

\* A pod takes a claimed turn for handled, and a retry finds the claim of the
\* first try: still, a turn that counts as handled was taken by a runner or is
\* about to be, unless its one push was interrupted.
SettledIsTaken ==
  \A p \in Pods : \A t \in settled[p] :
    \/ runs[t] > 0 \/ Copies(t) # {} \/ t \in lost
    \/ \E q \in Pods : call[q][LaneOf[t]].turn = t /\ call[q][LaneOf[t]].stage = "pushing"

\* "Signal the distributed agent-runner to exit its waitForIpcMessage loop so it
\* can return to the BLPOP queue": while a call of the folder waits, whichever
\* turn it is for and however it ends, no listening runner stays behind.  It does
\* when a publish failed or the pod crashed, and when the query had to start again
\* after it had consumed _close: runs with a fault are left out.
RunnersComeBack ==
  \A r \in Runners :
    (Listening(r) /\ \E p \in Pods, l \in Lanes : call[p][l].stage = "waiting")
      ~> (~Listening(r) \/ faults > 0)
=============================================================================
