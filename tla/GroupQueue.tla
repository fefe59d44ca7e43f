----------------------------- MODULE GroupQueue -----------------------------
(***************************************************************************)
(* The in-process scheduler of agent runs: src/src/group-queue.ts.         *)
(*                                                                         *)
(* Every chat, conversation agent and isolated task is a JID with its own  *)
(* GroupState.  Messages and tasks of a JID are run one at a time, JIDs    *)
(* with one serialization key share one runner, and all runs together stay *)
(* within the container, host-process and per-user limits.                 *)
(*                                                                         *)
(* The code runs on one JavaScript thread: a handler runs to its first     *)
(* await without interleaving.  An action is such a stretch of code.  Only *)
(* the loop of drainWaiting is cut into one step per candidate; while its  *)
(* snapshot `sweep' is not empty no other action is enabled, so the steps  *)
(* of one loop are never interleaved with anything else.                   *)
(*                                                                         *)
(* Abstracted: the order of the waiting Set (every order is allowed), the  *)
(* clock (the 30 s stop window, retry delays and idle timeouts end at any  *)
(* time), sentinel files other than _drain (they only make a run exit, and *)
(* a run may exit at any time), and the context-overflow marks, which no   *)
(* caller of the queue ever sets.                                          *)
(***************************************************************************)
EXTENDS Integers, Sequences, FiniteSets

CONSTANTS
  Jids,              \* chats, conversation agents (#agent:), tasks (#task:)
  AgentJids,         \* the {chat}#agent:{id} JIDs
  TaskJids,          \* the {chat}#task:{id} JIDs
  Folders,           \* workspace folders
  FolderOf,          \* [Jids -> Folders]
  Keys,              \* serialization keys
  KeyOf,             \* [Jids -> Keys]
  Users,             \* workspace owners
  OwnerOf,           \* [Jids -> Users]
  UserLimit,         \* [Users -> Nat], the owner's concurrent-run quota
  TaskIds,           \* ids of queued tasks
  HomeOf,            \* [TaskIds -> Jids], the JID a task is queued on
  DbTasks,           \* tasks with a row in scheduled_tasks
  Initiators,        \* users whose message may start a run
  NoUser,            \* the initiator is unknown
  HostAtStart,       \* folders whose executionMode is 'host' at first
  ModeFolders,       \* folders whose executionMode may be changed
  WriteOutcomes,     \* can the write of a sentinel succeed, can it fail
  MaxContainers, MaxHostProcesses,
  MaxRetries,        \* MAX_RETRIES
  RunNos,            \* bound: numbers of simultaneous runs of one JID
  MaxDrift           \* bound: how far RestartUnregistered may take
                     \* activeCount away from the runs in flight

ChatJids == Jids \ (AgentJids \cup TaskJids)

ASSUME JidsAssumption ==
  /\ AgentJids \subseteq Jids /\ TaskJids \subseteq Jids
  /\ AgentJids \cap TaskJids = {}
  /\ IsFiniteSet(Jids)
ASSUME PlacementAssumption ==
  /\ FolderOf \in [Jids -> Folders]
  /\ KeyOf \in [Jids -> Keys]
  /\ OwnerOf \in [Jids -> Users]
  /\ HomeOf \in [TaskIds -> Jids]
  /\ DbTasks \subseteq TaskIds
  /\ ModeFolders \subseteq Folders /\ HostAtStart \subseteq Folders
  /\ \A c \in ChatJids, v \in AgentJids \cup TaskJids : KeyOf[c] # KeyOf[v]
ASSUME LimitsAssumption ==
  /\ MaxContainers \in Nat \ {0}
  /\ MaxHostProcesses \in Nat \ {0}
  /\ UserLimit \in [Users -> Nat \ {0}]
  /\ MaxRetries \in Nat
ASSUME RunNosAssumption == IsFiniteSet(RunNos)
ASSUME MaxDriftAssumption == MaxDrift \in Nat
ASSUME WriteOutcomesAssumption == WriteOutcomes \subseteq BOOLEAN
ASSUME NoUserAssumption == NoUser \notin Initiators

VARIABLES
  group,             \* groups: the GroupState of every JID
  runs,              \* the invocations of runForGroup and runTask in flight
  count,             \* activeCount, activeContainerCount, activeHostProcessCount
  waiting,           \* waitingGroups
  sweep,             \* candidates the running drainWaiting has not visited yet
  stopped,           \* folders inside their recently-stopped window
  ipc,               \* keys whose IPC input directory holds unread messages
  restarts,          \* calls of restartGroup that wait for the runner to exit
  hostFolders,       \* folders whose executionMode is 'host'
  inactiveTasks,     \* database tasks whose status is not 'active'
  shuttingDown

vars == <<group, runs, count, waiting, sweep, stopped, ipc, restarts,
          hostFolders, inactiveTasks, shuttingDown>>

env == <<stopped, ipc, restarts, hostFolders, inactiveTasks, shuttingDown>>

GroupState ==
  [active : BOOLEAN, activeRunnerIsTask : BOOLEAN,
   pendingMessages : BOOLEAN, pendingTasks : Seq(TaskIds),
   registered : BOOLEAN,                 \* registerProcess was called
   retryCount : 0..MaxRetries, retryTimer : BOOLEAN,
   restarting : BOOLEAN,
   drainSentinelWritten : BOOLEAN, hasIpcInjectedMessages : BOOLEAN,
   currentRunInitiator : Initiators \cup {NoUser}]

\* What getGroup creates, and what a collected virtual JID is again.
FreshGroup ==
  [active |-> FALSE, activeRunnerIsTask |-> FALSE,
   pendingMessages |-> FALSE, pendingTasks |-> <<>>,
   registered |-> FALSE, retryCount |-> 0, retryTimer |-> FALSE,
   restarting |-> FALSE, drainSentinelWritten |-> FALSE,
   hasIpcInjectedMessages |-> FALSE, currentRunInitiator |-> NoUser]

Run == [jid : Jids, no : RunNos, kind : {"messages", "task"}, host : BOOLEAN]

TypeOK ==
  /\ group \in [Jids -> GroupState]
  /\ runs \in SUBSET Run
  /\ count \in [all : Int, container : Int, host : Int]
  /\ waiting \in SUBSET Jids
  /\ sweep \in SUBSET Jids
  /\ stopped \in SUBSET Folders
  /\ ipc \in SUBSET Keys
  /\ restarts \in SUBSET [requested : ChatJids, target : Jids]
  /\ hostFolders \in SUBSET Folders
  /\ inactiveTasks \in SUBSET DbTasks
  /\ shuttingDown \in BOOLEAN

Init ==
  /\ group = [j \in Jids |-> FreshGroup]
  /\ runs = {} /\ count = [all |-> 0, container |-> 0, host |-> 0]
  /\ waiting = {} /\ sweep = {} /\ stopped = {} /\ ipc = {} /\ restarts = {}
  /\ hostFolders = HostAtStart
  /\ inactiveTasks = {}
  /\ shuttingDown = FALSE

-----------------------------------------------------------------------------
(* Lookups.  `g' is the state of all groups, `c' the counters.             *)

\* Mutant: a group only looks at itself, not at its serialization siblings.
RunnersOwnOnly(j, g) == {i \in {j} : g[i].active}

\* findActiveRunnerFor: the active groups that share j's serialization key.
Runners(j, g) == {i \in Jids : g[i].active /\ KeyOf[i] = KeyOf[j]}

\* resolveActiveState: the runner, once registerProcess gave it a folder.
Resolved(j) == {i \in Runners(j, group) : group[i].registered}

\* stopGroup and restartGroup act on the runner if there is one.
TargetOf(j) == IF Runners(j, group) = {} THEN j
               ELSE CHOOSE i \in Runners(j, group) : TRUE

IsHost(j) == FolderOf[j] \in hostFolders

\* hasDirectActiveRunner plus countActiveTaskRunners over an owner's groups:
\* conversation agents are not counted.
UserActive(u, g) ==
  Cardinality({i \in Jids \ AgentJids : g[i].active /\ OwnerOf[i] = u})

\* Mutant: off by one at the system limits.
HasCapacityOffByOne(j, g, c) ==
  /\ IF IsHost(j) THEN c.host <= MaxHostProcesses
                  ELSE c.container <= MaxContainers
  /\ UserActive(OwnerOf[j], g) < UserLimit[OwnerOf[j]]

HasCapacityFor(j, g, c) ==
  /\ IF IsHost(j) THEN c.host < MaxHostProcesses
                  ELSE c.container < MaxContainers
  /\ UserActive(OwnerOf[j], g) < UserLimit[OwnerOf[j]]

\* Positions of the queued tasks that drainGroup and drainWaiting may start.
StartableTasks(q) == {i \in DOMAIN q : q[i] \notin inactiveTasks}

\* The queue after its stale head tasks and the first startable one are shifted.
AfterFirstStartable(q) ==
  LET first == CHOOSE i \in StartableTasks(q) :
                 \A k \in StartableTasks(q) : i <= k
  IN  SubSeq(q, first + 1, Len(q))

FreshNos(j, rs) == {n \in RunNos : \A r \in rs : r.jid = j => r.no # n}

\* The JavaScript thread is not inside drainWaiting.
Idle == sweep = {}

-----------------------------------------------------------------------------
(* Starting and queueing.  Each operator sets group', runs', count' and     *)
(* waiting' from the values the calling handler has reached.                *)

Started(s, kind) ==
  [s EXCEPT !.active = TRUE, !.activeRunnerIsTask = (kind = "task")]

\* The synchronous head of runForGroup and runTask.  The re-entrancy guard in
\* front of it never fires: every caller has just seen Runners(j, g) = {}.
Occupy(j, kind, g, c, rs) ==
  LET host == IsHost(j)
      no   == CHOOSE n \in FreshNos(j, rs) : TRUE
  IN  /\ FreshNos(j, rs) # {}
      /\ group' = [g EXCEPT ![j] = Started(@, kind)]
      /\ runs' = rs \cup {[jid |-> j, no |-> no, kind |-> kind, host |-> host]}
      /\ count' = [all |-> c.all + 1,
                   container |-> c.container + (IF host THEN 0 ELSE 1),
                   host |-> c.host + (IF host THEN 1 ELSE 0)]
      /\ waiting' = waiting \ {j}

RunForGroup(j, g, c, rs) ==
  Occupy(j, "messages", [g EXCEPT ![j].pendingMessages = FALSE], c, rs)

RunTask(j, g, c, rs) == Occupy(j, "task", g, c, rs)

\* Mutant: the JID is not added to waitingGroups.
ParkForgotten(j, g, c, rs) ==
  /\ group' = g /\ runs' = rs /\ count' = c
  /\ UNCHANGED waiting

\* A JID that cannot start now is left in waitingGroups.
Park(j, g, c, rs) ==
  /\ group' = g /\ runs' = rs /\ count' = c
  /\ waiting' = waiting \cup {j}

\* requestDrainForActiveRunner: one _drain file for the registered main runner.
Drained(j, g, wrote) ==
  [i \in Jids |->
     IF i \in Runners(j, g) \ AgentJids /\ g[i].registered /\ wrote
       THEN [g[i] EXCEPT !.drainSentinelWritten = TRUE]
       ELSE g[i]]

\* enqueueMessageCheck past its shutdown check.
MessageCheck(j, user, g, c, wrote) ==
  LET asked == IF user = NoUser THEN g
               ELSE [g EXCEPT ![j].currentRunInitiator = user]
  IN  \/ /\ Runners(j, g) # {}
         /\ Park(j, Drained(j, [g EXCEPT ![j].pendingMessages = TRUE], wrote),
                 c, runs)
      \/ /\ Runners(j, g) = {}
         /\ ~HasCapacityFor(j, g, c)
         /\ Park(j, [asked EXCEPT ![j].pendingMessages = TRUE], c, runs)
      \/ /\ Runners(j, g) = {}
         /\ HasCapacityFor(j, g, c)
         /\ RunForGroup(j, asked, c, runs)

\* What drainGroup and drainWaiting look for, tasks before messages; messages
\* that a retry timer already covers are left to the timer.
MessagesStartable(s) == s.pendingMessages /\ ~s.retryTimer

NothingStartable(s) ==
  StartableTasks(s.pendingTasks) = {} /\ ~MessagesStartable(s)

StartPending(j, g, c, rs) ==
  \/ /\ StartableTasks(g[j].pendingTasks) # {}
     /\ RunTask(j, [g EXCEPT ![j].pendingTasks = AfterFirstStartable(@)], c, rs)
  \/ /\ StartableTasks(g[j].pendingTasks) = {}
     /\ MessagesStartable(g[j])
     /\ RunForGroup(j, [g EXCEPT ![j].pendingTasks = <<>>], c, rs)

\* The state drainGroup leaves when nothing of j is startable: stale tasks are
\* gone, and an idle virtual JID is removed from the map.
Collected(j, g) ==
  LET s == [g[j] EXCEPT !.pendingTasks = <<>>]
  IN  [g EXCEPT ![j] =
         IF /\ j \notin ChatJids
            /\ ~s.active /\ ~s.pendingMessages /\ ~s.retryTimer /\ ~s.restarting
           THEN FreshGroup ELSE s]

\* Mutant: drainGroup returns without calling drainWaiting.
NoCandidates(j) == {}

\* The snapshot drainWaiting takes, j having left waitingGroups.
Candidates(j) == waiting \ {j}

DrainGroup(j, g, c, rs) ==
  \/ /\ shuttingDown
     /\ group' = g /\ runs' = rs /\ count' = c
     /\ UNCHANGED <<waiting, sweep>>
  \/ /\ ~shuttingDown
     /\ Runners(j, g) \ {j} # {} \/ ~HasCapacityFor(j, g, c)
     /\ Park(j, g, c, rs)
     /\ UNCHANGED sweep
  \/ /\ ~shuttingDown
     /\ Runners(j, g) \ {j} = {} /\ HasCapacityFor(j, g, c)
     /\ \/ /\ StartPending(j, g, c, rs)
           /\ UNCHANGED sweep
        \/ /\ NothingStartable(g[j])
           /\ group' = Collected(j, g) /\ runs' = rs /\ count' = c
           /\ waiting' = waiting \ {j}
           /\ sweep' = Candidates(j)

-----------------------------------------------------------------------------
(* Queue operations.                                                       *)

\* Web chat, IM poll loop, supervisor and group-mode tasks; only web passes
\* the sender as initiator.
EnqueueMessageCheck(j, user, wrote) ==
  /\ Idle /\ ~shuttingDown
  /\ MessageCheck(j, user, group, count, wrote)
  /\ UNCHANGED <<sweep, env>>

EnqueueTask(t) ==
  LET j == HomeOf[t]
  IN  /\ Idle /\ ~shuttingDown
      /\ \A i \in DOMAIN group[j].pendingTasks : group[j].pendingTasks[i] # t
      /\ \/ /\ Runners(j, group) # {} \/ ~HasCapacityFor(j, group, count)
            /\ Park(j, [group EXCEPT ![j].pendingTasks = Append(@, t)], count, runs)
         \/ /\ Runners(j, group) = {} /\ HasCapacityFor(j, group, count)
            /\ RunTask(j, group, count, runs)
      /\ UNCHANGED <<sweep, env>>

\* One candidate of the loop in drainWaiting.
SweepStep(j) ==
  LET blocked == Runners(j, group) # {} \/ ~HasCapacityFor(j, group, count)
  IN  /\ j \in sweep
      /\ sweep' = sweep \ {j}
      /\ \/ /\ blocked
            /\ UNCHANGED <<group, runs, count, waiting>>
         \/ /\ ~blocked
            /\ StartPending(j, group, count, runs)
         \/ /\ ~blocked
            /\ NothingStartable(group[j])
            /\ group' = [group EXCEPT ![j].pendingTasks = <<>>]
            /\ waiting' = waiting \ {j}
            /\ UNCHANGED <<runs, count>>
      /\ UNCHANGED env

-----------------------------------------------------------------------------
(* The life of a run.                                                      *)

RegisterProcess(r) ==
  /\ Idle /\ r \in runs
  /\ ~group[r.jid].registered
  /\ group' = [group EXCEPT ![r.jid].registered = TRUE]
  /\ UNCHANGED <<runs, count, waiting, sweep, env>>

\* Mutant: the limit is tested before the counter is incremented.
RetryScheduledLate(s) ==
  IF s.retryCount > MaxRetries
    THEN [s EXCEPT !.retryCount = 0, !.retryTimer = FALSE]
    ELSE [s EXCEPT !.retryCount = @ + 1, !.retryTimer = TRUE]

\* scheduleRetry
RetryScheduled(s) ==
  IF s.retryCount + 1 > MaxRetries
    THEN [s EXCEPT !.retryCount = 0, !.retryTimer = FALSE]
    ELSE [s EXCEPT !.retryCount = @ + 1, !.retryTimer = TRUE]

\* clearRetryTimer
RetryCleared(s) == [s EXCEPT !.retryCount = 0, !.retryTimer = FALSE]

\* The fields both finally blocks reset.
Exited(s) ==
  [s EXCEPT !.active = FALSE, !.registered = FALSE,
            !.drainSentinelWritten = FALSE]

\* The fields only the finally block of runForGroup resets.
MessagesExited(s) ==
  [Exited(s) EXCEPT !.hasIpcInjectedMessages = FALSE,
                    !.currentRunInitiator = NoUser]

\* Mutants: the mode is read again when the run ends; activeCount is forgotten.
ReleasedByMode(r) ==
  [all |-> count.all - 1,
   container |-> count.container - (IF IsHost(r.jid) THEN 0 ELSE 1),
   host |-> count.host - (IF IsHost(r.jid) THEN 1 ELSE 0)]
ReleasedSlotOnly(r) ==
  [all |-> count.all,
   container |-> count.container - (IF r.host THEN 0 ELSE 1),
   host |-> count.host - (IF r.host THEN 1 ELSE 0)]

\* The counters after the finally block, with the mode captured at the start.
Released(r) ==
  [all |-> count.all - 1,
   container |-> count.container - (IF r.host THEN 0 ELSE 1),
   host |-> count.host - (IF r.host THEN 1 ELSE 0)]

\* isStopRequested of the finally block: known only through the run's folder.
StopRequested(j) == group[j].registered /\ FolderOf[j] \in stopped

\* recoverUnconsumedIpc finds messages nobody read.
UnreadIpc(j) ==
  group[j].registered /\ FolderOf[j] \notin stopped /\ KeyOf[j] \in ipc

\* The end of runForGroup: processMessagesFn returned ok, or it returned false
\* or threw.
FinishMessages(r, ok) ==
  LET j == r.jid
      tried == IF ok THEN RetryCleared(group[j]) ELSE RetryScheduled(group[j])
      rearm == UnreadIpc(j)
               \/ (group[j].hasIpcInjectedMessages /\ ~StopRequested(j))
      left == [MessagesExited(tried) EXCEPT !.pendingMessages = @ \/ rearm]
      g == [group EXCEPT ![j] = left]
  IN  /\ Idle /\ r \in runs /\ r.kind = "messages"
      /\ \/ /\ StopRequested(j)
            /\ group' = g /\ count' = Released(r) /\ runs' = runs \ {r}
            /\ UNCHANGED <<waiting, sweep>>
         \/ /\ ~StopRequested(j)
            /\ DrainGroup(j, g, Released(r), runs \ {r})
      /\ UNCHANGED env

\* Ids for the recovery task of setOnUnconsumedAgentIpc: a new id per call in
\* the code, an id that is not queued here.
RecoveryIds(j) ==
  {t \in TaskIds \ DbTasks :
     HomeOf[t] = j /\ \A i \in DOMAIN group[j].pendingTasks :
                         group[j].pendingTasks[i] # t}

\* recoverUnconsumedIpc at the end of a task: a conversation agent queues a
\* recovery task on itself, a chat marks its messages pending, an isolated
\* task leaves the files.
Recovered(j) ==
  IF ~UnreadIpc(j) \/ j \in TaskJids THEN group[j]
  ELSE IF j \in ChatJids THEN [group[j] EXCEPT !.pendingMessages = TRUE]
  ELSE IF shuttingDown \/ RecoveryIds(j) = {} THEN group[j]
  ELSE [group[j] EXCEPT !.pendingTasks =
          Append(@, CHOOSE t \in RecoveryIds(j) : TRUE)]

\* The end of runTask; it drains even after a stop, and leaves
\* hasIpcInjectedMessages, currentRunInitiator and the retry fields alone.
FinishTask(r) ==
  LET j == r.jid
      left == [Exited(Recovered(j)) EXCEPT !.activeRunnerIsTask = FALSE]
  IN  /\ Idle /\ r \in runs /\ r.kind = "task"
      /\ DrainGroup(j, [group EXCEPT ![j] = left], Released(r), runs \ {r})
      /\ UNCHANGED env

RetryTimerFires(j, wrote) ==
  LET g == [group EXCEPT ![j].retryTimer = FALSE]
  IN  /\ Idle /\ group[j].retryTimer
      /\ \/ /\ shuttingDown
            /\ group' = g
            /\ UNCHANGED <<runs, count, waiting>>
         \/ /\ ~shuttingDown
            /\ MessageCheck(j, NoUser, g, count, wrote)
      /\ UNCHANGED <<sweep, env>>

\* sendMessage returned 'sent'; the web handler then calls
\* markIpcInjectedMessage, the poll loop and the agent handlers do not.
InjectMessage(j, marked) ==
  /\ Idle
  /\ \E i \in Resolved(j) :
       /\ group[i].activeRunnerIsTask => j \in AgentJids
       /\ ipc' = ipc \cup {KeyOf[i]}
       /\ group' = [group EXCEPT ![i].hasIpcInjectedMessages = @ \/ marked]
  /\ UNCHANGED <<runs, count, waiting, sweep, stopped, restarts, hostFolders,
                 inactiveTasks, shuttingDown>>

\* The agent process reads its input directory.
ConsumeIpc(j) ==
  /\ Idle
  /\ group[j].active /\ group[j].registered /\ KeyOf[j] \in ipc
  /\ ipc' = ipc \ {KeyOf[j]}
  /\ UNCHANGED <<group, runs, count, waiting, sweep, stopped, restarts,
                 hostFolders, inactiveTasks, shuttingDown>>

-----------------------------------------------------------------------------
(* Control operations.                                                     *)

InterruptQuery(j) ==
  /\ Idle
  /\ \E i \in Resolved(j) :
       /\ group[i].retryTimer
       /\ group' = [group EXCEPT ![i].retryTimer = FALSE]
  /\ UNCHANGED <<runs, count, waiting, sweep, env>>

RequestGracefulRestart(j) ==
  /\ Idle
  /\ group[j].active /\ group[j].registered
  /\ group' = [group EXCEPT ![j].pendingMessages = TRUE]
  /\ UNCHANGED <<runs, count, waiting, sweep, env>>

\* stopGroup up to its first await; afterwards it only waits for the exit.
StopGroup(j) ==
  LET hit == {j, TargetOf(j)}
  IN  /\ Idle
      /\ group' = [i \in Jids |->
                     IF i \in hit
                       THEN [RetryCleared(group[i]) EXCEPT
                               !.pendingMessages = FALSE, !.pendingTasks = <<>>]
                       ELSE group[i]]
      /\ waiting' = waiting \ hit
      /\ stopped' = stopped \cup {FolderOf[i] : i \in {k \in hit : group[k].registered}}
      /\ UNCHANGED <<runs, count, sweep, ipc, restarts, hostFolders,
                     inactiveTasks, shuttingDown>>

\* restartGroup on a registered runner: ask it to exit and wait.
RestartBegins(j) ==
  LET t == TargetOf(j)
  IN  /\ Idle
      /\ group[t].active /\ group[t].registered /\ ~group[t].restarting
      /\ group' = [group EXCEPT ![t].restarting = TRUE]
      /\ restarts' = restarts \cup {[requested |-> j, target |-> t]}
      /\ UNCHANGED <<runs, count, waiting, sweep, stopped, ipc, hostFolders,
                     inactiveTasks, shuttingDown>>

\* The wait ends: the runner is gone and a new check is queued, or it still
\* runs after the force-kill and restartGroup throws.
RestartEnds(call, wrote) ==
  LET g == [group EXCEPT ![call.target].restarting = FALSE]
  IN  /\ Idle /\ call \in restarts
      /\ restarts' = restarts \ {call}
      /\ \/ /\ group[call.target].active \/ shuttingDown
            /\ group' = g
            /\ UNCHANGED <<runs, count, waiting>>
         \/ /\ ~group[call.target].active /\ ~shuttingDown
            /\ MessageCheck(call.requested, NoUser, g, count, wrote)
      /\ UNCHANGED <<sweep, stopped, ipc, hostFolders, inactiveTasks, shuttingDown>>

\* restartGroup with no runner: nothing to wait for.
RestartIdle(j, wrote) ==
  /\ Idle /\ ~shuttingDown
  /\ Runners(j, group) = {} /\ ~group[j].restarting
  /\ MessageCheck(j, NoUser, group, count, wrote)
  /\ UNCHANGED <<sweep, env>>

\* restartGroup on a runner without a process: a run dispatched to another pod,
\* and every run before registerProcess.
RestartUnregistered(j, wrote) ==
  LET t == TargetOf(j)
      g == [group EXCEPT ![t] = [@ EXCEPT !.active = FALSE, !.restarting = FALSE,
                                          !.pendingMessages = FALSE,
                                          !.drainSentinelWritten = FALSE,
                                          !.hasIpcInjectedMessages = FALSE]]
      c == [count EXCEPT !.all = IF @ > 0 THEN @ - 1 ELSE @]
  IN  /\ Idle
      /\ group[t].active /\ ~group[t].registered
      /\ Cardinality(runs) - count.all < MaxDrift
      /\ \/ /\ shuttingDown
            /\ group' = g /\ count' = c
            /\ UNCHANGED <<runs, waiting>>
         \/ /\ ~shuttingDown
            /\ MessageCheck(j, NoUser, g, c, wrote)
      /\ UNCHANGED <<sweep, env>>

\* shutdown up to its first await.
Shutdown ==
  /\ Idle /\ ~shuttingDown
  /\ shuttingDown' = TRUE
  /\ group' = [j \in Jids |-> RetryCleared(group[j])]
  /\ UNCHANGED <<runs, count, waiting, sweep, stopped, ipc, restarts,
                 hostFolders, inactiveTasks>>
\* stopGroup happened more than RECENTLY_STOPPED_WINDOW_MS ago.
StopWindowEnds(f) ==
  /\ Idle /\ f \in stopped
  /\ stopped' = stopped \ {f}
  /\ UNCHANGED <<group, runs, count, waiting, sweep, ipc, restarts,
                 hostFolders, inactiveTasks, shuttingDown>>

\* PATCH of a group's execution_mode; runs in flight keep their mode.
ChangeMode(f) ==
  /\ Idle
  /\ hostFolders' = IF f \in hostFolders THEN hostFolders \ {f}
                    ELSE hostFolders \cup {f}
  /\ UNCHANGED <<group, runs, count, waiting, sweep, stopped, ipc, restarts,
                 inactiveTasks, shuttingDown>>

\* A scheduled task is paused or resumed in the database.
ToggleTask(t) ==
  /\ Idle
  /\ inactiveTasks' = IF t \in inactiveTasks THEN inactiveTasks \ {t}
                      ELSE inactiveTasks \cup {t}
  /\ UNCHANGED <<group, runs, count, waiting, sweep, stopped, ipc, restarts,
                 hostFolders, shuttingDown>>

-----------------------------------------------------------------------------
(* Specifications.                                                         *)

Arrival ==
  \/ \E j \in ChatJids, u \in Initiators \cup {NoUser}, w \in WriteOutcomes :
        EnqueueMessageCheck(j, u, w)
  \/ \E t \in TaskIds : EnqueueTask(t)
  \/ \E j \in ChatJids, m \in BOOLEAN : InjectMessage(j, m)
  \/ \E j \in AgentJids : InjectMessage(j, FALSE)
  \/ \E j \in ChatJids : RequestGracefulRestart(j)
  \/ \E j \in ChatJids, w \in WriteOutcomes : RestartIdle(j, w)
  \/ \E j \in ChatJids : RestartBegins(j)

Environment ==
  \/ \E j \in Jids : ConsumeIpc(j) \/ InterruptQuery(j)
  \/ \E f \in ModeFolders : ChangeMode(f)
  \/ \E t \in DbTasks : ToggleTask(t)
  \/ Shutdown

Progress ==
  \/ \E j \in Jids : SweepStep(j)
  \/ \E r \in runs : RegisterProcess(r) \/ FinishTask(r)
  \/ \E r \in runs, ok \in BOOLEAN : FinishMessages(r, ok)
  \/ \E j \in ChatJids, w \in WriteOutcomes : RetryTimerFires(j, w)
  \/ \E call \in restarts, w \in WriteOutcomes : RestartEnds(call, w)

\* Without the stop button and without restartGroup's distributed branch.
UndisturbedNext == Arrival \/ Environment \/ Progress

\* Single-process operation in which restartGroup is called on registered
\* runners only.
LocalNext ==
  \/ UndisturbedNext
  \/ \E j \in Jids : StopGroup(j)
  \/ \E f \in Folders : StopWindowEnds(f)

Next ==
  \/ LocalNext
  \/ \E j \in ChatJids, w \in WriteOutcomes : RestartUnregistered(j, w)

UndisturbedSpec == Init /\ [][UndisturbedNext]_vars
LocalSpec == Init /\ [][LocalNext]_vars
Spec == Init /\ [][Next]_vars

\* Every synchronous loop ends, every run ends (idle timeout and container
\* timeout close a silent agent), timers fire, restartGroup's wait is bounded
\* by its own time limits, and an agent that is started again and again reads
\* its input directory some time: one that never does is re-queued by
\* recoverUnconsumedIpc for ever.
Fairness ==
  /\ WF_vars(\E j \in Jids : SweepStep(j))
  /\ \A j \in Jids :
       WF_vars(\E r \in runs : /\ r.jid = j
                               /\ FinishTask(r) \/ \E ok \in BOOLEAN : FinishMessages(r, ok))
  /\ \A j \in ChatJids : WF_vars(\E w \in WriteOutcomes : RetryTimerFires(j, w))
  /\ WF_vars(\E call \in restarts, w \in WriteOutcomes : RestartEnds(call, w))
  /\ \A j \in Jids : SF_vars(ConsumeIpc(j))

UndisturbedFairSpec == UndisturbedSpec /\ Fairness
LocalFairSpec == LocalSpec /\ Fairness
-----------------------------------------------------------------------------
(* Properties.                                                             *)

RunsOn(host) == {r \in runs : r.host = host}

\* The slot counters count exactly the invocations in flight, each in the mode
\* it was started in: every runForGroup and runTask gives back in its finally
\* block the slot it took, whatever happened to the GroupState, the execution
\* mode or other runs in between.
SlotsMatchRuns ==
  /\ count.container = Cardinality(RunsOn(FALSE))
  /\ count.host = Cardinality(RunsOn(TRUE))

\* No interleaving of enqueues, drains, retries and restarts puts more runs in
\* flight than hasCapacityFor allows (maxConcurrentContainers and
\* maxConcurrentHostProcesses).
RunsWithinLimits ==
  /\ Cardinality(RunsOn(FALSE)) <= MaxContainers
  /\ Cardinality(RunsOn(TRUE)) <= MaxHostProcesses

\* JIDs that share a serialization key never have two invocations in flight,
\* which is what enqueueMessageCheck, drainGroup and drainWaiting look up
\* findActiveRunnerFor for.
OneRunPerKey ==
  \A r, q \in runs : KeyOf[r.jid] = KeyOf[q.jid] => r = q

\* activeCount, the number shutdown waits to see at zero, is the number of
\* invocations in flight.
ActiveCountMatchesRuns == count.all = Cardinality(runs)

\* Work that only a finishing run can start: the JID has a queued task, or
\* pending messages that no retry timer covers.
Queued(j) ==
  \/ group[j].pendingTasks # <<>>
  \/ group[j].pendingMessages /\ ~group[j].retryTimer

\* No lost wakeup: queued work is either behind its own active run, whose
\* finally block drains it, or it is in waitingGroups and some run is still in
\* flight whose end reaches drainWaiting (or that loop is about to visit it).
QueuedWorkHasWaker ==
  ~shuttingDown =>
    \A j \in Jids :
      Queued(j) => \/ group[j].active
                   \/ j \in waiting /\ (runs # {} \/ j \in sweep)

\* When requests stop coming in, every queued message and task gets its run,
\* also one that was parked behind another JID's slot, unless the process is
\* shut down.
QueuedWorkIsServed ==
  <>[][~Arrival]_vars => \A j \in Jids : Queued(j) ~> (~Queued(j) \/ shuttingDown)

\* The detailed scheduler implements the pool: seen through the runs in flight,
\* every step of every handler starts one run in a free slot of an idle key,
\* ends one, hands its slot to the next run of the JID, or changes nothing.
Pool == INSTANCE RunnerPool WITH busy <- {<<r.jid, r.no, r.host>> : r \in runs}
PoolSpec == Pool!Spec
=============================================================================
