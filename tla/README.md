# DeepThink: a verification project

DeepThink is a multi-user agent host. Chats arrive from a web client and from
messengers, each chat belongs to a workspace folder, and a *runner* (a container
or a host process) answers it. Around this core stand a task scheduler, a graph
engine that runs agents as the nodes of a workflow, and a Redis bus that lets
several pods share the work.

This directory holds TLA+ models of that core, the TLC configurations that check
them on small instances, and TLAPS proofs of what holds on every instance. All
line numbers are those of the sources beside it; `PROJECT.json` maps every
definition to the lines it models.

## 1. Inventory

| Component | State | Operations | Hard behaviour | What makes it correct |
|---|---|---|---|---|
| **Group queue** `group-queue.ts` | a `GroupState` per JID, three counters, the waiting set, recently-stopped folders | enqueue message/task, register, inject, drain, retry, interrupt, stop, restart, shutdown | callbacks of runs, timers and requests interleave at every await; siblings share a runner; sentinel files | one runner per key, limits, exact counters, no lost wakeup, nothing starts after shutdown |
| **Message loop** `index.ts`, `web.ts` | the seen cursor of the loop, a pull and a committed cursor per chat, the run of a chat | poll, inject, process, commit, recover | crash between injection and reply; three cursors that move apart; web messages that bypass the loop | every message taken up, in order; cursors never pass what nobody dealt with |
| **Graph engine** `graph-engineering/` | a run row, node-run rows, merged state in memory | plan, execute, pause, resume, approve, cancel, recover | status writes of requests against the loop that drains a batch; crash | one terminal status, no node after cancel, completed nodes not re-run, joins complete |
| **Task scheduler** `task-scheduler.ts` | task rows, `runningTaskIds` | due loop, run, trigger, finalize, pause, delete | several pods, long runs, lease expiry | one run per due time, no reschedule of a paused task |
| **Redis bus** `redis-bus.ts` | lease, locks, owners, claims, per-user counters | acquire, renew, release, claim, push, pop | expiry, two-step operations, errors counted as success | at most one holder while the lease lasts, no turn lost or dispatched twice |
| **Dispatch over Redis** `redis-bus.ts`, `redis-ipc.ts`, `index.ts` | claims, task queue, one output handler a folder, a pool of runners | claim, push, pop, answer, close, settle, retry | outputs that name no turn, claims that expire, pods that die between two commands | a turn runs once a claim, runners come back to the pool |
| **Agent runner** `container/agent-runner` | current query, input directory | poll input, query, drain, close | sentinel against message order | every input file read once, in order |
| **Feishu streaming card** `feishu-streaming-card.ts` | state, backend, chain of requests, cards | feed, flush, roll over, degrade, complete, abort | requests that fail after they arrived, timers against finalization, two chains after a degradation | every reply ends on a card or as plain text; nothing repaints a final card |
| **Provider pool** `provider-pool.ts` | health, cooldown, sessions, round-robin index | select, report, acquire, release | overlapping sessions, failover | an unhealthy provider is chosen only if all are |
| **Sandbox manager** `sandbox/manager.ts` | sandboxes, per-sandbox chain | create, execute, destroy, expire | check-then-act over awaits | limits, one execution at a time |
| **FLM closed loop** `flm/` | policy versions, canary, gate results | gate, promote, roll back | partial failure | no promotion without a passed gate |
| **IM safety** `im-safety/`, `ipc-send-dedup.ts` | time-limited locks, recent sends | acquire, release, duplicate test | expiry under a slow handler | one handler at a time, no duplicate send |
| **Billing** `billing.ts` | balances, monthly usage | charge, recharge, roll over | month boundary, concurrent charges | balance equals the ledger |
| **Loop orchestrator** `loop-orchestrator.ts` | rounds of a loop run | start, judge, stop | cancel during a round | bounded rounds, one terminal status |
| IM channels, web routes, knowledge base, evaluation centre, plugins, MCP, open platform, configuration, clients | rows, files, connections | request/response | outside services | not modelled, see section 7 |

How they interact: the message loop, the web routes, the scheduler and the
supervisor call the queue (`enqueueMessageCheck`, `enqueueTask`, `sendMessage`);
the queue calls back into `index.ts` (`processMessagesFn`, host-mode checker,
user-limit checker, task lookup, `setOnUnconsumedAgentIpc`); the runner process
shares an input directory with the queue, in which messages and sentinels
(`_drain`, `_close`, `_interrupt`) are files; the pods share Redis keys.

## 2. Plan

Done, in this order:

1. `GroupQueue`, `RunnerPool`, `GroupQueueProofs`, `GroupQueueWakeProofs`: the
   queue.
2. `GraphRun`, `OrderedRun`, `GraphRunProofs`: a workflow run with crashes and
   concurrent requests.
3. `TaskScheduler`, `TaskSchedulerProofs`: the scheduler on several pods, with
   its lease.
4. `MessageFlow`, `Inbox`, `MessageFlowProofs`, `MessageTakersProofs`: the message
   loop and its cursors composed with the agent process and the input directory
   they share.
5. `StreamingCard`, `StreamingCardProofs`: the card on which a reply is streamed.
6. `Dispatch`, `DispatchProofs`: turns of a folder given to runners over Redis,
   pods and runners composed.

Left:

1. Small resource managers: `SandboxManager`, `ProviderPool`, the locks of
   IM safety and of Redis.
2. FLM closed loop, billing, loop orchestrator as far as there is room.

## 3. Modules

| Module | What it is |
|---|---|
| `GroupQueue` | the queue: state, every operation, three specifications, the properties |
| `RunnerPool` | abstract specification: a pool of slots, each held by at most one key |
| `GraphRun` | one run of a workflow graph: its rows, the loops that execute it, requests, restarts, four specifications, the properties |
| `OrderedRun` | abstract specification: nodes finish in an order of the graph and stay finished |
| `TaskScheduler` | the rows of tasks, the loop and runs of every pod, the lease, operations of users and agents |
| `MessageFlow` | messages, cursors, runs, agent processes and input directories of the chats of one host |
| `Inbox` | abstract specification: every message of a chat is taken up, none before an earlier one |
| `StreamingCard` | one streaming session: controller, backends, the chat's cards, the run that calls it |
| `Dispatch` | the calls of several pods, Redis, and the runners, for one folder |
| `MCGroupQueue`, `MCGraphRun`, `MCTaskScheduler`, `MCMessageFlow`, `MCStreamingCard`, `MCDispatch` | the instances: chats that share a folder, graphs, process ids, lanes |
| `GroupQueueProofs`, `GraphRunProofs`, `TaskSchedulerProofs`, `MessageFlowProofs`, `StreamingCardProofs`, `DispatchProofs` | inductive invariants, lemmas, theorems |
| `GroupQueueWakeProofs`, `MessageTakersProofs` | what is proved on top of the invariants of `GroupQueueProofs` and `MessageFlowProofs` |

`MessageFlow` is the chat's side of the queue: of `GroupQueue` it keeps what one
chat sees (`pending`, the retry count and timer, the run), and leaves out when a
slot is free. `Dispatch` replaces the input directory of `MessageFlow` by Redis.
The scheduler meets the queue only through `enqueueTask`, which is its `queued`.
The graph engine does not go through the queue.

### State of the queue

| Variable | Code |
|---|---|
| `group[j]` | `GroupState` of JID `j`. `registered` stands for the fields `registerProcess` sets together (`process`, `containerName`, `groupFolder`) |
| `runs` | invocations of `runForGroup`/`runTask` between their head and their `finally`, with the execution mode each captured at its start. Several may exist on one `GroupState`, which is why they are not read off `active` |
| `count` | `activeCount`, `activeContainerCount`, `activeHostProcessCount` |
| `waiting` | `waitingGroups` |
| `sweep` | what is left of the snapshot the running `drainWaiting` walks |
| `stopped` | `recentlyStoppedFolders` inside the 30 s window |
| `ipc` | keys whose input directory holds unread messages |
| `restarts` | calls of `restartGroup` inside their wait |
| `hostFolders`, `inactiveTasks` | the execution modes and task rows the callbacks read |

### Actions of the queue

JavaScript runs a handler to its first `await` without interleaving, so an
action is such a stretch: the synchronous head of a run (`Occupy`), its whole
`finally` block including `drainGroup` (`FinishMessages`, `FinishTask`), an
enqueue, `stopGroup` and `shutdown` up to their first await, the two ends of
`restartGroup`. The one exception is the loop of `drainWaiting`: it is cut into
one `SweepStep` per candidate, but no other action is enabled while `sweep` is
not empty, so the loop is still atomic.

Three next-state relations nest:

* `UndisturbedNext`: arrivals, the environment and progress of runs;
* `LocalNext`: and the stop button;
* `Next`: and `restartGroup` on a runner without a process. The code means by
  it a run that another pod works on; a local run before `registerProcess`
  looks the same.

Each run names the relation its properties are checked on. `OneRunPerKey` holds
on `LocalNext` and not on `Next`; a wakeup is never lost on `UndisturbedNext`,
and may be on `LocalNext` (section 5 tells both stories).

### Abstractions of the queue

* The order of the waiting set: candidates are visited in any order, which
  includes the insertion order of the code.
* The clock: the stop window, retry delays and idle limits may end at any time.
* Sentinels other than `_drain` only make a run end, and a run may end at any
  time.
* Random ids of recovery tasks: an id that is not queued.
* `queryInFlight`, `lastActivityAt` and `getStuckPendingGroups`: they choose
  *when* `recoverStuckPendingGroups` calls `restartGroup`; the model lets it be
  called at any time.
* The re-entrancy guards at the top of `runForGroup` and `runTask` cannot fire
  in the model: every caller has looked at `findActiveRunnerFor` in the same
  step.
* `markContextOverflow` has no caller and is left out. The Redis mirror of the
  user quota is not modelled. `enqueueMessageCheck` is called for
  chat JIDs only.

### State of a graph run

| Variable | Code |
|---|---|
| `status`, `saved` | `graph_runs.status` and `state_json`. The state is reduced to which nodes' patches it holds and what each branch decided |
| `done`, `parked`, `orphans` | rows of `graph_node_runs`: nodes with a `completed` row, the number of `paused` rows of a human node, nodes with a `running` row whose process is gone. Other rows are read by no query |
| `loop[l]` | one invocation of `executeGraph`: the completed set, `ctx.state` with the branch decisions, the gate counters, and where `runNodeWithRetry` is with each node of the batch. `resumeGraphRun` starts one without asking for the others |

### Actions of a graph run

An action is what one loop does between two awaits, or one request. `Pass` is
the head of the loop of `executeGraph` up to the dispatch of a batch; it is part
of every action that leads there: `Start`, `Resume`, `Approve`, `Rerun` (through
`Enter`), `Settle` and `Poll`. `Settle` is everything that follows
`Promise.all`: the results up to the first that stops the run, the gate retries,
the save, and the next pass. A node's attempt ends in `NodeCompletes`,
`NodeFails` or `HumanParks`, each of which writes its row before the loop knows.
`Restart` is the end of the process and `bootRecoverGraphRuns` of the next.

Four next-state relations nest: `KeptNext` (nobody cancels, the run is resumed
only at rest), `CalmNext` (and cancelled), `BusyNext` (and resumed whenever the
routes allow it, while a loop still drains its batch), `Next` (and single nodes
rerun). `CompletedMeansAllNodes` and the order hold on `BusyNext` and not on
`Next`; what `graph_rest` checks is checked on `KeptNext`.

Left out: what nodes compute (a branch chooses any value, a node may fail),
usage counters (a budget may be exceeded at any check), edges with expressions,
events and feedback texts, replanning, and node locks, which nobody reads. A
gate's `upstreamNodeId` is a predecessor of the gate and no branch, as in the
templates.

### State and actions of the scheduler

| Variable | Code |
|---|---|
| `row[t]` | the row of `scheduled_tasks`: status, execution path, kind of schedule, and whether `next_run` is empty, ahead or due |
| `at[p]`, `due[p]` | where the loop of pod `p` stands, and the rest of `getDueTasks` it has not visited |
| `running[p]`, `queued[p]` | `runningTaskIds`; task JIDs in the queue of the pod |
| `runs` | calls of `runTask` and `runScriptTask` in flight, each with the snapshot of the row it took at its start, which its end writes from |
| `lease`, `releasing` | the leader key; how far `releaseSchedulerLease` is between its two calls |
| `parser` | the pod whose background parse of a natural-language task is in flight |
| `stopping` | pods in `shutdown` |

`TickBegin` takes the lease and the list of due tasks; the `Visit…` actions are
the branches of the loop body (gone or paused meanwhile, overdue, without a
target, unprepared, run). `Finish` is the end of a run up to its `finally`,
`Notified` the second unmarking after the notification. `Create`, `Pause`,
`Resume`, `EditSchedule`, `EditPath`, `Delete`, `Trigger` are the routes and the
IPC tasks. `FixedPathNext` is `Next` without `EditPath`, which lets a task run
twice (section 5). The clock is abstracted: a `next_run` that is ahead may
become due at any time, and a lease expire.

### State and actions of the message flow

| Variable | Code |
|---|---|
| `msg[m]` | the chat of a stored message. A message is its place in the order (timestamp, id) |
| `seen`, `batch` | `globalMessageCursor`; what the loop has read and not dealt with |
| `pull`, `committed` | `lastAgentTimestamp` and `lastCommittedCursor` of a chat |
| `expanding` | web messages that wait for the plugin expander |
| `pending`, `retries`, `timer` | the chat's part of the queue |
| `run[c]` | the call of `processGroupMessages`: its stage, the prompt it took, `sentReply`, `cursorCommitted`, `hasIpcInjectedMessages`, how the agent ended |
| `agent[c]` | the main loop of the agent process: starting, in a query, idle |
| `dir`, `sig` | message files and sentinels in the input directory |
| `web`, `given`, `injected`, `handled` | history the properties speak of |

`Poll` and `Visit` are the loop; `WebArrive`, `WebReply` and `WebSend` are
`handleWebUserMessage` before and after its await; `StartRun` is
`processGroupMessages` up to the start of the agent with its four early ends;
`EndRun` is the rest of it and the `finally` of `runForGroup`. The agent steps
are those of `pollIpcDuringQuery`, `waitForIpcMessage` and the main loop. `Crash`
loses the memory of the host, kills the agents and ends in `loadState` and
`recoverPendingMessages`. Left out: when the queue has a slot, sibling chats of
one folder, contents, user stops; conversation agents and IPC tasks; queries that
start again, and the side queries after one. `Interrupted` is what
the host does when it hears of an interrupt: a reply is noted and committed. The
queue takes messages for a run (`Live`) until the `finally` of `runForGroup`; the
model stops at the run's last step, since nobody reads what comes in between,
which is what an injection just before the exit leaves behind.

### State and actions of a streaming card

| Variable | Code |
|---|---|
| `state`, `mode` | `StreamingState`, `backendMode` (streaming card, multi-card, legacy message) |
| `text` | length of `accumulatedText`; a card shows a part `(from, to]` of it |
| `creating`, `armed`, `fails` | `createInitialCard` under way, the flush timer, `patchFailCount` |
| `queue`, `old`, `seq` | the chain of requests, what a degraded backend left in its own, the sequence numbers both draw from |
| `cards`, `mine`, `frozen` | the cards as the user sees them, those of `MultiCardManager`, `frozenPrefixChars` |
| `fin`, `split` | the finalization under way, `finalizedAsSplit` |
| `call`, `told`, `overruled` | the run's call of `complete`, how the user got the reply, an abort from outside |

A request to Feishu is one step, taken when it settles; an update may fail, or
arrive and be reported as failed. `Body` is what `splitIntoBodySections` leaves
of a text: the card of an ended session shows that (`Structured`), unless it is
one of `MultiCardManager`, of a split or of the last resort. Left out: titles,
panels, footers, pushes to panels (best effort, never counted), the dropping of
repeated updates.

### State and actions of the dispatch

| Variable | Code |
|---|---|
| `pool`, `queue`, `claimed` | the Redis keys of the runner pool, the task list and the claims |
| `closeFile` | the `_close` file of the shared input directory |
| `call[p][l]` | the call of `runAgent` (lane of the chat) or `processAgentConversation` (lane of an agent) on a pod |
| `handler`, `feed`, `outputs`, `bridge` | `distributedOutputHandlers`, the folder's subscriptions, outputs under way, a `_close` about to be written |
| `runner[r]` | the runner's loop: blocked in `BLPOP`, in a query or one that follows it, ending a query whose `_close` is consumed, waiting for input |
| `settled`, `runs`, `lost`, `lapses` | history |

An action is what a call or a runner does between two awaits. That a Redis
command is atomic and that a publish reaches exactly the subscribers is
external. `TakeClose` consumes a `_close` inside the query; what becomes of it is
a step of its own: `ClosedInQuery`, `RetryQuery` (a failed resume or an overflow
starts the query again and drops it), `LeaveFollowing` or `FailRunner`. Left out:
prompts, stream events, injected messages, interrupts, the local execution of a
call that finds the pool empty. The queries that follow that of a turn are one.

## 4. Runs

| Run | Specification | Instance | Question |
|---|---|---|---|
| `queue_redispatch` | `Spec` | one chat and a warm-up task, execution mode changes, limits 2 and 1 | do counters and limits survive mode changes and re-dispatched runs? |
| `queue_local` | `LocalSpec` | two sibling chats, an agent with a task, failing sentinel writes | one run per key, exact `activeCount`, the pool implemented |
| `queue_undisturbed` | `UndisturbedFairSpec` | two sibling chats and an isolated task of one owner, quota 1 | is queued work ever without a waker, and is it served? |
| `graph_rerun` | `Spec` | an agent and its gate, two loops, a budget | does a running run have a loop, does a stopped one start nothing? |
| `graph_busy` | `BusySpec` | a branch with a human node on its arm, an agent beside it, two loops, a budget | completed means every node; the order of the graph |
| `graph_rest` | `KeptFairSpec` | a gate, a branch behind it with a human node on one arm, failing agents, a budget | never both arms, approvals kept, every run comes to rest |
| `task_pods` | `FixedPathSpec` | two pods with one process id, a task, Redis that fails, a pod that may stop, 2 user operations, 1 crash | one run a pod, exact marks, no revival, no silent completion |
| `task_served` | `FairSpec` | two pods, a task, 1 user operation, 1 crash | is every due task run or moved on? |
| `message_cursors` | `Spec` | one chat, three messages of IM or web, the last a plugin command; 1 crash, 2 failures, gates, agents closed at any moment | what may the cursors pass, does everything seen keep a taker, does a living agent keep what it has? |
| `message_served` | `FairImSpec` | two IM chats, two messages, 1 crash, 1 failure, agents closed only when idle | the inbox implemented, fairness included; everything answered that was not injected |
| `card_session` | `FairSpec` | a reply of up to three cards, 3 failing updates | does the user get the reply, once, as whole as its cards' sections leave it, on cards that stay final? |
| `dispatch_turns` | `FairSpec` | two pods, a chat and a conversation agent, one runner, 2 calls, 1 fault, 1 lapse | a turn once per claim, none counted as handled that nobody took, runners come back |

All runs pass. `CHECK_DEADLOCK FALSE` stands where the system may really stop:
an idle queue, chat, scheduler, card or dispatch whose bounds are used up has
nothing to do. The graph runs check for deadlock.

**Bounds of the queue.** `RunNos` bounds the simultaneous runs on one `GroupState`: two
suffice to tell one from several. `MaxDrift` bounds how far
`RestartUnregistered` may take `activeCount` from the number of runs; the first
drift already shows everything a larger one does. `MaxRetries` is 1 instead of
5: the first failure arms the timer, the second gives up. Limits of one or two
slots make every start compete; three JIDs allow a runner, a sibling and an
unrelated group at once. Queues of tasks hold each id once, as the duplicate
test in `enqueueTask` demands, so their length is bounded by `TaskIds`.

**Bounds of the graph run.** Two `Loops` suffice for one to act on what the
other has left; on the relations that resume only at rest, one is enough,
because two never exist together. `MaxParked` bounds the paused rows a human
node collects when a run is resumed without approval: a run with that many is
not resumed or rerun again, only approved. It guards requests and never a loop. Two attempts and
`GATE_RETRY_MAX` 2 (the code's value) have a retry and an exhausted retry. Two
nodes in parallel make batches that mix results.

**Bounds of the scheduler.** Tasks do not interact, so one is enough; two pods
are needed for the lease. Two run numbers let a task run twice in a pod if
anything allowed it. Two user operations are a pause and a resume, or an edit
and a manual run, around one run; one crash leaves a lease or a mark behind.

**Bounds of the message flow.** Three messages are one below a cursor, one at it
and one above; the command is the last, because only a later command can
overtake. One retry and two failures let the retries run out; one crash falls at
every point. Two chats are needed where the seen cursor of one could harm the
other (`message_served`); agents are closed only when idle there, because a
closed run without a reply is looked at again only at the next message (section
5), and liveness does not hold otherwise.

**Bounds of the card.** Five units of text at a slice of two are three cards, and
a limit of three is reached before and after a rollover. Two failures degrade
a card, the third falls on the backend it degrades to. A chain holds the
request under way and two that wait; more do the same as the last. The sections
of a reply card (`Bodies`) clip a reply that fits into one card, clip one that
does not to what fits, and leave one alone that does not fit: on the first the
final card is clipped, after the last resort the second gets a usage note and
the third none.

**Bounds of the dispatch.** One runner makes the two lanes compete. Two calls are
a turn and its retry, or one turn on each pod or lane. One fault falls at every
command, subscription and query; one lapse lets a retry claim again. The sequence
of outputs needs no bound of its own: a runner emits three per turn, and one more
when a query starts again.

**Fairness.** *Queue* (`queue_undisturbed`). The
synchronous loop ends. A run ends: idle and container time limits close a silent
agent. Timers fire. The wait of `restartGroup` is bounded by its own limits.
Reading the input directory is *strongly* fair: an agent is started again and
again while it has unread messages, and one that never read them would be
re-queued by `recoverUnconsumedIpc` for ever (there is no retry limit on that
path). No arrival is fair. *Graph run* (`graph_rest`): a started run enters its loop, a
node's execution ends (agents and model calls have time limits), timers fire,
and a resolved batch is processed. No request and no restart is fair.
*Scheduler* (`task_served`): a pod's loop, its runs and its queue go on, strongly
where another pod may take the turn away; a run's final write succeeds now and
then; leases expire; a pod that stopped is started again. *Messages*
(`message_served`): the loop wakes, runs and agents go on, timers fire, idle
agents are closed; nobody has to send, interrupt, fail or crash. *Card*
(`card_session`): requests settle (they have time limits), timers fire, promises
go on. *Dispatch* (`dispatch_turns`): awaited commands return, timers fire,
queries end; nobody has to dispatch.

## 5. What the checks show, and where code and text disagree

The properties hold. This section says what they amount to, and lists what was
seen while modelling that a text of the repository, or a reader, would expect
otherwise; the properties are stated so that these cases are outside them, and
each says so in its comment.

### The queue

With `restartGroup` confined to registered runners, the queue keeps one run per
serialization key, exact counters and both system limits, and refines the slot
pool. Without stops it never loses a wakeup and serves everything that is
queued, quotas included.

* **`restartGroup` on a starting runner** (`group-queue.ts:1123`). The test for
  "dispatched to another pod" is also true from `runForGroup` to
  `registerProcess`. The group is freed and a second run starts beside the first,
  where `tests/group-queue-reentrancy.test.ts:103` says "A must never have run
  two runners simultaneously."; `activeCount` is decremented twice. The per-mode
  counters stay exact (`SlotsMatchRuns` holds on `Spec`), so the limits hold all
  the same.
* **Stop does not drain** (`:1355`). Skipping `drainGroup` also skips
  `drainWaiting`: another chat that waited for the slot stays parked until some
  other event drains the queue.
* A parked chat that is stopped forgets its message but remembers who sent it
  (`:1001`). A sibling's message that arrives before `registerProcess` finds no
  folder to write `_drain` to, and waits for the idle limit (`:541`).

### A graph run

With any number of resumes in flight, a run that says `completed` has every node
done, nodes finish in an order of the graph, a run that says `running` has a
loop, and a paused or cancelled run starts no node. Resumed only at rest and not
cancelled, it never takes both arms of a branch, keeps every approval and always
comes to rest.

`OneBranchTaken` is about branches that no gate sends back. The upstream node of
a failing gate is executed again; a branch in that place may then decide
otherwise, and its other arm runs after the first.

* **A cancel is overwritten** (`graph-orchestrator.ts:424`). The batch that was
  executing ends the run as `failed`; the `skipped` that the cancel itself causes
  between two attempts is such a failure. A failed run can be resumed.
* **An approval is overwritten** (`graph-orchestrator.ts:384`). A loop writes
  back the state it read at its start.
* **Rows of a cancelled run** (`graph-recovery.ts:36`). Recovery does not list
  cancelled runs. If such a run is paused and resumed, the loop waits for a row
  nobody will change.
* A pause and a resume within one batch start its nodes again, because resume
  looks at the row only (`routes/graph.ts:227`). A branch has its row before its
  decision is saved with the batch, so that after a crash, or a failure earlier
  in the batch, its conditional arms never become ready
  (`graph-orchestrator.ts:366`). A graph in which a branch leaves an arm out
  fails as deadlocked after its last node (`:336`). A rerun resets only the node
  itself, not what follows it (`db.ts:5804`).

### The scheduler

A pod never runs a task twice at once, its marks are exact, nothing but a user
or an agent sets a stopped task to work, a recurring task is not completed, and
a due task is served whatever pods crash.

* **Two pods may run one task.** The lease lasts 90 s and is not renewed, a run
  writes `next_run` at its end, and `runningTaskIds` is per process: a second pod
  that leads meanwhile finds the task due. The comment at
  `task-scheduler.ts:1154` says "This prevents duplicate task execution across
  replicas". `SingleRun` is therefore about one pod.
* **A path edited while a run waits in the queue** lets the loop start the task
  the new way and the queue the old way.
* A schedule edited during a run is overwritten when the run ends. Resuming a
  completed once-task leaves it active without a next run. A manual run of a task
  that is still parsed pauses it. An overdue round of a task that waits in the
  queue advances `next_run`, and the run still starts.
* `releaseSchedulerLease` reads and deletes in two calls, and the value is a
  process id, the same in every container. `cleanupStaleRunningLogs` marks the
  runs of other pods as interrupted. A crash leaves a `parsing` row for ever. A
  cancel by an agent deletes a task that is running.

### The message flow

The committed cursor stays behind the pull cursor. In chats of IM channels, no
cursor passes a message that nobody was given or told about, except under the
reply to a later command; what the loop has seen keeps something that will look
at it; messages are taken up in order; those not injected are answered.

* **Injected messages are committed unprocessed** (`index.ts:564`). The commit of
  a run takes the recovery cursor up to the pull cursor, over messages piped
  into the agent since. If it dies then, nobody reads them again.
* **Recovery looks at one cursor, the run at another** (`:9907`). It finds a chat
  behind its committed cursor, but the run it queues starts from the pull cursor.
* **Web messages move both cursors when they are injected**
  (`group-queue.ts:441`), so a dead agent's are never read again.
* **A command overtakes** an earlier plain message of the same poll when no agent
  lives: its reply moves the pull cursor past it.
* **A web message moves the seen cursor** over messages of other chats that have
  not been polled yet; the next message of their chat, or a restart, finds them.
* A run that was closed without a reply is not retried and nothing looks at its
  chat before the next message. The pull cursor stays put while an agent starts,
  so a message that arrives meanwhile is given twice. Files left in the input
  directory queue a check, but the run finds nothing to read and the files wait
  for a later run. A crash before the first commit of a chat without cursors is
  not recovered. The stream of a query is closed some seconds after a result,
  whatever was piped meanwhile. Feishu's timestamps, and backfilled messages, may
  land behind the cursors. A query that starts again, after a failed resume or an
overflow of the context, starts from its prompt, without what was piped into it. A cold start drops a backlog of more than one message.
  A comment near `agent-runner/src/index.ts:2752` says `registerProcess` wrote
  `_drain`; it writes none.

### The streaming card

Every reply of a run ends on a card or as plain text; a card that is final is
not painted over; cards of one reply meet without gap or overlap unless the text
says that some is missing; no card of a finished session is left in its
streaming state, unless an update to it failed. A reply on cards of
`MultiCardManager` or of a split is there to its end; on a reply card, what
the sections of the card leave of it is.

* **A long reply may be clipped without a word.** `buildAgentReplyCard` has the text
  in four sections at most and clips the last one, with "..." and nothing else
  (`feishu-cards/length.ts:54`). The comment at `feishu-streaming-card.ts:177`
  says that the test of 15000 characters keeps "the tail" from vanishing "silently";
  seven paragraphs of 2100 characters pass it and are clipped. The last patch of
  a legacy card is built so whatever its length (`:537`).
* **A usage note may take the warning off.** When streaming mode could not be ended,
  the reply is truncated and the card says so; `patchUsageNote` asks for the
  size of the JSON that is already clipped (`:2079`) and puts a clipped reply
  there without the warning. `ReplyIsShown` counts both as shown, in its comment
  and in `Visible`: where the code clips it can promise no more.
* An abort while `complete` awaits the creation of the card lets `complete`
  return normally: the run takes the reply for sent (comment at
  `feishu-streaming-card.ts:2027`).
* After a degradation the old chain's end of streaming mode and the adopted
  card draw sequence numbers from one counter but are sent by two chains
  (comment at `:848`); one of them is refused.
* `dispose()` of an active card leaves it as being generated. A freeze that fails
  loses the text between the last view and the end of the slice. A split that
  fails midway falls back to a truncated card, and `complete` reports success.

### The dispatch

A turn is executed once per claim; one that counts as handled was taken, unless
its push was interrupted; while a call waits, no listening runner stays behind,
as long as no publish, subscription or query fails and no pod crashes.

* **A runner may stay behind when no call waits.** A pod closes the runner after
  its answer; the runner's second terminal output arrives when the folder's next
  call has registered, and settles that call. Its `_close` reaches nobody; the
  runner later takes the turn, its output is dropped, and it waits until some
  later call of the folder closes one, up to the ten-minute limit: contrary to
  the comment at `index.ts:5416`.
* **A query that starts again drops the `_close` it has consumed.** The poll inside
  a query takes the sentinel (`agent-runner/src/index.ts:1515`), but the main loop
  tests `sessionResumeFailed` (`:2954`) and `contextOverflow` (`:2989`) before
  `closedDuringQuery` (`:3022`) and continues: the runner asks again and then
  waits, although its call is over. The comment at `:3014` speaks of a `_close`
  consumed during the query as one that makes the runner "exit immediately".
  `RetryQuery` models it as a fault, and `RunnersComeBack` leaves it out by name.
* A `_close` consumed by a memory flush or a continuation publishes `closed`, but
  leaves the loop and the pool (`:3136`, `:3195`) where one consumed by the turn's own
  query returns to `BLPOP` still connected (`LeaveFollowing`, `ClosedInQuery`).
* A subscription that fails is logged and waited for like one that succeeds
  (`index.ts:730`, `:768`): the call goes on deaf and ends by its timer (`Confirm`).
* A claim outlives its call: a retry after the ten-minute timeout finds the
  fifteen-minute claim and reports success. `publishAgentTask` returns the same
  `false` for a claimed turn and a failed push, and both count as success. A pod
  that dies between claim and push loses the turn.
* `LPUSH` with `BLPOP` is a stack, where `redis-bus.ts:532` speaks of queue
  semantics. The handler is registered before the claim, although
  `index.ts:5327` says that only the claiming pod forwards. A second call of a
  folder does not wait for its subscriptions (`:813`). A `_close` is lost when
  the runner is not subscribed; one left as a file may close the next turn. After
  a normal turn the runner closes its connections, reads its standard input and
  exits, where `agent-runner/src/index.ts:2460` says it loops. A per-user counter
  of a pod that crashed stays too high until it expires.

## 6. What is proved

All theorems hold for every value of the constants that satisfies the
assumptions named in the modules: finitely many JIDs, pods, messages; positive
limits; chats and virtual JIDs on different keys; two-valued outcomes.

| Module | Theorem | Statement |
|---|---|---|
| `GroupQueueProofs` | `TypeCorrect` | `Spec => []TypeOK` |
| | `SlotsExact` | `Spec => []SlotsMatchRuns` |
| | `LimitsKept` | `Spec => []RunsWithinLimits` |
| | `SingleRunner` | `LocalSpec => []OneRunPerKey` |
| | `ActiveCountExact` | `LocalSpec => []ActiveCountMatchesRuns` |
| | `PoolImplemented` | `LocalSpec => PoolSpec` |
| `GroupQueueWakeProofs` | `NoWakeupLost` | `UndisturbedSpec => []QueuedWorkHasWaker` |
| `GraphRunProofs` | `GraphTypeCorrect` | `Spec => []TypeOK` |
| | `RunningRunHasLoop` | `Spec => []RunningHasLoop` |
| | `CompletedRunIsComplete` | `BusySpec => []CompletedMeansAllNodes` |
| | `RunImplementsOrder` | `BusySpec => OrderSpec` |
| | `StoppedRunStartsNothing` | `Spec => NoStartWhileStopped` |
| | `ApprovalIsKept` | `KeptSpec => []ApprovalRemembered` |
| | `BranchTakesOneArm` | `KeptSpec => []OneBranchTaken` |
| `TaskSchedulerProofs` | `TypeCorrect` | `FixedPathSpec => []TypeOK` |
| | `RunsAreSingle` | `FixedPathSpec => []SingleRun` |
| | `MarksAreExact` | `FixedPathSpec => []MarkedWhileWorking` |
| | `UsersActivate` | `FixedPathSpec => OnlyUsersActivate` |
| | `RecurringIsPaused` | `FixedPathSpec => RecurringNotCompleted` |
| `MessageFlowProofs` | `TypeCorrect` | `Spec => []TypeOK` |
| | `RecoveryBehindPull` | `Spec => []CommittedBehindPull` |
| | `PullSkipsNothing` | `Spec => []NeverSkipped` |
| | `CommitSkipsNothing` | `Spec => []CommittedIsHandled` |
| `MessageTakersProofs` | `AgentsKeepMessages` | `Spec => LivingAgentKeeps` |
| | `SeenIsNotForgotten` | `Spec => []SeenHasTaker` |
| | `ImChatsAreInboxes` | `ImSpec => Box!SafeSpec`, if `Commands = {}` |
| `StreamingCardProofs` | `CardTypes` | `Spec => []TypeOK` |
| | `FinishedCardsStayFinished` | `Spec => NoRepaint` |
| | `NoCardLooksAlive` | `Spec => []NoZombie` |
| | `SuccessiveCardsMeet` | `Spec => []CardsMeet` |
| | `ReplyStaysShown` | `Spec => []ReplyIsShown` |
| `DispatchProofs` | `TypeCorrect` | `Spec => []TypeOK` |
| | `TurnsRunOnce` | `Spec => []TurnRunsOnce` |
| | `SettledTurnsAreTaken` | `Spec => []SettledIsTaken` |

*Queue, `Spec`.* `SlotsMatchRuns` and `RunsWithinLimits` support each other: a start is
guarded by a counter, so the limit on runs needs the counter to be exact, and a
counter is exact only if the finished run was in flight. The inductive invariant
is `IInv == TypeOK /\ Good(group, count, runs)`. `Good` takes the three values
as parameters because a handler passes through intermediate values: a `finally`
block first releases its slot, then drains with the values it has reached. A
lemma shows that each intermediate triple is `Good`; one lemma for `Occupy`,
`Park`, `StartPending` and `DrainGroup` then carries every handler.

*Queue, `LocalSpec`.* `OneRunPerKey` is not inductive: a start looks at `active` flags,
not at runs. `Tight` adds what links them: a JID is active exactly if it has a
run in flight, keys have one run, `activeCount` is the number of runs.
`RestartUnregistered` is the one action that breaks it, which is the reason the
theorem is about `LocalSpec`. The refinement follows from `Tight`: distinct
runs occupy distinct keys, so the number of busy slots is the number of runs,
and each handler maps to a start, an end, a hand-over or a stutter of the pool.

*Queue, `UndisturbedSpec`.* `QueuedWorkHasWaker` follows from two facts about a
step. Work is *placed*: a JID with a queued task, or with messages that no timer
covers, runs or is in `waiting`. And a handler that parks something leaves a run
in flight: what blocked it was a sibling, a limit or a quota, and by `Tight` and
exact counters each of these means a run (limits and quotas are positive). The
danger is the last run. Its `drainGroup` either starts something, or parks
its JID, which again takes a run that blocks it, or hands all of `waiting` to the
sweep; and a sweep may end with no run only after it has found nothing to start
for any candidate, because with no run nothing is blocked. `stopGroup` makes a
`finally` block skip this, so the theorem is about `UndisturbedSpec`, where
`stopped` stays empty. The invariant is
`UInv == LInv /\ stopped = {} /\ (~shuttingDown => Woken)`.

*Graph run.* `RunningHasLoop` is inductive beside the types, because every action that ends a
loop writes another status. Completeness and order need `OrderInv`: what a loop believes
completed, and every result it has not merged yet, has its row (`Known`), and
whatever executes, sleeps, waits for approval or is done has its predecessors
done. `Known` has the rows as a parameter, so one lemma about `Pass` serves the
actions that add a row and those that do not. A single rerun takes rows away
under a loop and breaks `Known`, which is why these two theorems are about
`BusySpec`. The steps of a node map to `Finish` or, when another loop has
finished the node before, to a stutter of `OrderedRun`.

`NoStartWhileStopped` needs only the types: each action that puts a node into
execution reads the status first. An approval may be lost to a second loop that
writes an older state (section 5); on `KeptSpec` `KeptInv` says that only one loop is
ever on and that its copy of the shared state is the saved one (`Fits`), so every
write-back keeps the approvals. `BranchInv` adds, for an arm whose target was
reached, that the branch is done for good, believed by every loop that is on, and
that the saved decision chooses this arm (`Stands`); a branch is executed again
only if it has not finished or a gate sends it back, so the decision does not
change, and two arms with different conditions cannot both be chosen.

*Scheduler.* `SingleRun` and `MarkedWhileWorking` need each other, and `OnePath`:
a run in flight, or a queued one, has the path its row has, so that the guard of
the one path keeps the other away. `EditPath` breaks it, and these theorems are
about `FixedPathSpec`. Nothing in them depends on the lease.

*Message flow.* Neither cursor property is inductive, for two reasons. A commit
takes the cursors to the last message a run has *taken*; so `Takes` says that
what a run has taken leaves no gap behind it. And it may commit only if the
prompt was dealt with; so `RunsAnswered` says that when an agent has a result, is
idle, or has exited as done, or the run has replied, what was taken is in
`handled`. `Pulls` states the target for the pull cursor: it stands at a stored
message, and everything behind it was injected, handled or overtaken; that it
stands at a *stored* message is what keeps a later arrival from slipping in
behind it. One lemma, `CursorsKept`, then covers every action that moves the
cursors of a chat: it remains to show for each that what it jumps over may be
passed (`JumpsOver`).

*Message flow, what is handed over.* `Hands` says that only an agent in a query holds
messages and that all it holds was given to it. `LivingAgentKeeps` then goes
through the steps: what leaves the directory is in the hands of the agent, what
leaves its hands is handled, except when a stream closes. `SeenHasTaker` needs to
know how a run ends: one that ends without an error has given what it took, and
retries and error exits are counted by `failures` (`RunsEnd`); that a batch
reaches up to the last seen message of its chat (`SeenInv`); and `Takers`, which
spells out the watcher of each stage of a run: while a run exists the message is
among what it took, or in the batch or behind a queued check, and when it has
ended a timer, or the reason why there is none. The step of the loop is the
hard one: it moves the seen cursor over the messages of all chats at once, and
each is put in the batch of its chat. For `ImChatsAreInboxes` every
step is shown to take up nothing, or a set in line: with each message all earlier
ones of its chat (`TakesInLine`). That is false with plugin commands, whose reply
moves the pull cursor over an earlier message (section 5), hence the hypothesis; the
instance of `message_served` satisfies it.

*Streaming card.* The inductive invariant is `Base /\ Showing`. `Base` is about the controller: which
requests a chain may hold in which state and backend, at most one of them final and
last (`QueueInv`); what each step of a finalization says about the state and the
call that waits for it (`FinInv`); what exists before the first card (`LifeInv`);
which card the controller believes to be its own, and when there is one more
(`RollInv`). `Showing` is about the user's side, the faces: every card but the
current one, and the one opened ahead, has ended or missed its last update
(`FacesInv`); the current card begins at the offset of the controller, and
frozen cards end where the next begins (`MeetInv`); a reply told to be on the card
is there, as far as its sections leave it (`Reply`), and what may still be sent
cannot shorten it (`ReplyInv`). `Base` is
inductive by itself; `Showing` is so only on top of it: that a late request
repaints nothing needs to know which requests may still be there. The proof goes
through the actions once for each. The chain that a degraded backend leaves behind takes
the most care: its requests never touch a face, but they may still move the text
of the first card as long as that has its streaming elements (`slots`), and the
invariant says that neither a frozen card nor the last one of a told reply has.

*Dispatch.* `Counted` bounds, for a turn, the times it was taken, its places in
the queue and the calls about to push it by its claims: the one held and the ones
that lapsed. `Accounted` says that a turn which is claimed, waited for or settled
was taken, is queued, is about to be pushed, or was lost.

*Only model-checked.* Every invariant and every action property of the runs is
proved. What stays with TLC is liveness, which depends on fairness and
ENABLED and is out of the prover's reach: `QueuedWorkIsServed`, `RunSettles`,
`DueIsServed`, `TakenUpInOrder` as far as it is fairness, `AnsweredUnlessInjected`,
`ReplySettles`, `RunnersComeBack`.

## 7. What is not modelled

Of modelled components: in the queue, signals to processes and containers
(`docker stop`, force kill) beyond the exit of the run they cause; in the graph
engine, replanning, expression edges and the planner, and `validate` nodes with
`onFail: retry`, which fail like any other node because the orchestrator re-runs
an upstream node for gates only; in the message loop, the routing of replies, IPC
tasks and conversation agents; in the agent runner, what a query does; of Redis,
the locks, owners, the quota mirror and the broadcast.

Planned, for want of room so far: sandbox manager, provider pool, IM safety, FLM
closed loop, billing, loop orchestrator. Seen in them while reading: a loop run
that is cancelled is always overwritten by the end of its round, and its rows say
`running` after a crash; the sandbox manager checks its limits before an await,
and a `get` after a `destroy` makes a sandbox nobody tracks.

Out of scope for good: the protocols of the messengers (but for the streaming
card), request parsing and authorisation in the routes, the search pipelines of
the knowledge base, the evaluation centre, plugin and skill file trees,
configuration storage and the clients. They transform data or wrap outside
services and hold no protocol of the core.
