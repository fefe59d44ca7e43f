--------------------------- MODULE TaskScheduler ---------------------------
(***************************************************************************)
(* The scheduler of timed tasks: src/src/task-scheduler.ts with the rows   *)
(* of scheduled_tasks (src/src/db.ts), the leader lease in Redis           *)
(* (src/src/redis-bus.ts) and the operations users and agents have on a    *)
(* task (src/src/routes/tasks.ts, the IPC tasks of src/src/index.ts).      *)
(*                                                                         *)
(* Several pods share the database.  Each polls it; with Redis, only the   *)
(* pod that gets the lease looks at the due tasks.  A task is run as a     *)
(* script, injected as a message of its workspace (group mode), or queued  *)
(* on a JID of its own (isolated mode).                                    *)
(*                                                                         *)
(* An action is a stretch of code between two awaits, except that the loop *)
(* over the due tasks is cut into one step per task: the pod does nothing  *)
(* else before the loop ends, other pods may write to the database.        *)
(*                                                                         *)
(* Abstracted: the clock (a next_run is none, ahead, or due, and time may  *)
(* pass at any moment), what a run does, the gates on the owner and on     *)
(* billing (they only end a run early), run logs, permissions.             *)
(***************************************************************************)
EXTENDS Integers, FiniteSets

CONSTANTS
  Pods,
  Tasks,
  PidOf,             \* [Pods -> pids], what a pod writes into the lease
  NoHolder,          \* the lease key does not exist
  NoPod,
  StartPaths,        \* how a task may be run when it is created
  UsesRedis,         \* is Redis connected
  RedisFails,        \* can a call to Redis fail: outcomes, a set of Booleans
  TargetFound,       \* can the target group be registered, can it be missing
  Prepared,          \* can a script slot or the workspace be had, or not
  ScheduleBreaks,    \* can a recurring schedule yield no next run
  SaveFails,         \* can the write at the end of a run fail
  MayStop,           \* bound: pods that may be shut down
  RunNos,            \* bound: numbers of simultaneous runs of a task in a pod
  MaxUserOps,        \* bound: operations of users and agents
  MaxCrashes         \* bound: exits of a pod

ASSUME PodsAssumption ==
  /\ NoPod \notin Pods
  /\ DOMAIN PidOf = Pods /\ \A p \in Pods : PidOf[p] # NoHolder
ASSUME OutcomesAssumption ==
  /\ StartPaths \subseteq {"script", "group", "isolated"}
  /\ UsesRedis \in BOOLEAN
  /\ \A S \in {RedisFails, TargetFound, Prepared, ScheduleBreaks, SaveFails} :
       S \subseteq BOOLEAN
ASSUME SchedulerBoundsAssumption == MaxUserOps \in Nat /\ MaxCrashes \in Nat

VARIABLES
  row,               \* scheduled_tasks
  at,                \* where the loop of a pod stands
  due,               \* the due tasks its loop has not visited yet
  running,           \* runningTaskIds of a pod
  queued,            \* tasks that wait in the queue of a pod
  runs,              \* invocations of runTask and runScriptTask in flight
  lease,             \* deepthink:scheduler:leader
  stopping,          \* pods that are shutting down
  releasing,         \* releaseSchedulerLease of a pod: how far it is
  parser,            \* the pod whose background parse of a task is in flight
  userOps, crashes

vars == <<row, at, due, running, queued, runs, lease, stopping, releasing,
          parser, userOps, crashes>>

Paths == {"script", "group", "isolated"}

Row == [status : {"unborn", "parsing", "active", "paused", "completed",
                  "deleted"},
        path : Paths, kind : {"once", "recurring"},
        next : {"none", "ahead", "due"}]

\* The snapshot of the row that runTask and runScriptTask keep to the end.
Run == [pod : Pods, task : Tasks, no : RunNos, manual : BOOLEAN,
        path : Paths, kind : {"once", "recurring"},
        next : {"none", "ahead", "due"}, stage : {"working", "notifying"}]

TypeOK ==
  /\ row \in [Tasks -> Row]
  /\ at \in [Pods -> {"asleep", "leading", "visiting"}]
  /\ due \in [Pods -> SUBSET Tasks]
  /\ running \in [Pods -> SUBSET Tasks]
  /\ queued \in [Pods -> [Tasks -> {"no", "scheduled", "manual"}]]
  /\ runs \in SUBSET Run
  /\ lease \in {PidOf[p] : p \in Pods} \cup {NoHolder}
  /\ stopping \in SUBSET Pods
  /\ releasing \in [Pods -> {"no", "read", "delete"}]
  /\ parser \in [Tasks -> Pods \cup {NoPod}]
  /\ userOps \in 0..MaxUserOps
  /\ crashes \in 0..MaxCrashes

Init ==
  /\ \E path \in StartPaths :
       row = [t \in Tasks |-> [status |-> "unborn", path |-> path,
                               kind |-> "once", next |-> "none"]]
  /\ at = [p \in Pods |-> "asleep"]
  /\ due = [p \in Pods |-> {}]
  /\ running = [p \in Pods |-> {}]
  /\ queued = [p \in Pods |-> [t \in Tasks |-> "no"]]
  /\ runs = {}
  /\ lease = NoHolder
  /\ stopping = {} /\ releasing = [p \in Pods |-> "no"]
  /\ parser = [t \in Tasks |-> NoPod]
  /\ userOps = 0 /\ crashes = 0

-----------------------------------------------------------------------------
(* Rows.                                                                   *)

Exists(t) == row[t].status \notin {"unborn", "deleted"}
Active(t) == row[t].status = "active"

\* The loop over the due tasks has no await: the pod is busy with it.
Free(p) == at[p] # "visiting"

\* An operation of a user or an agent, handled by a pod that is not busy.
UserOp ==
  /\ userOps < MaxUserOps /\ userOps' = userOps + 1
  /\ \E p \in Pods : Free(p)

SetRow(t, x) == row' = [row EXCEPT ![t] = x]

\* computeNextRun on a snapshot: a once-task has no next run.
NextRun(kind) ==
  IF kind = "once" THEN {"none"}
  ELSE {IF broken THEN "none" ELSE "ahead" : broken \in ScheduleBreaks}

\* safeComputeNextRun: a manual run puts back the next_run it has read, which
\* may have come due since.
NextAfter(r) ==
  IF r.manual THEN IF r.next = "ahead" THEN {"ahead", "due"} ELSE {r.next}
  ELSE NextRun(r.kind)

\* Mutant: a recurring task without a next run is completed.
FinalizedByNull(x, r, next) ==
  [x EXCEPT !.next = next, !.status = IF next = "none" THEN "completed" ELSE @]

\* finalizeRecurringRun on the row x: pauseTaskAfterRun or updateTaskAfterRun,
\* by the kind the SNAPSHOT has.
Finalized(x, r, next) ==
  IF next = "none" /\ r.kind # "once"
    THEN [x EXCEPT !.next = "none", !.status = "paused"]
    ELSE [x EXCEPT !.next = next,
                   !.status = IF next = "none" THEN "completed" ELSE @]

-----------------------------------------------------------------------------
(* Users and agents.                                                       *)

\* POST /api/tasks, schedule_task.
Create(t, kind) ==
  /\ row[t].status = "unborn"
  /\ UserOp
  /\ SetRow(t, [row[t] EXCEPT !.status = "active", !.kind = kind,
                              !.next = "ahead"])
  /\ UNCHANGED <<at, due, running, queued, runs, lease, stopping, releasing,
                 parser, crashes>>

\* POST /api/tasks/ai: the row waits for a background parse of its text; until
\* then its schedule is a cron placeholder.
CreateAi(t, p) ==
  /\ row[t].status = "unborn"
  /\ Free(p) /\ UserOp
  /\ SetRow(t, [row[t] EXCEPT !.status = "parsing", !.kind = "recurring"])
  /\ parser' = [parser EXCEPT ![t] = p]
  /\ UNCHANGED <<at, due, running, queued, runs, lease, stopping, releasing,
                 crashes>>

\* Mutant: the result of the parse is stored whatever became of the task.
ParseDoneAnyway(t) ==
  /\ parser[t] # NoPod /\ Free(parser[t])
  /\ parser' = [parser EXCEPT ![t] = NoPod]
  /\ \E kind \in {"once", "recurring"} :
       SetRow(t, [row[t] EXCEPT !.status = "active", !.kind = kind,
                                !.next = "ahead"])
  /\ UNCHANGED <<at, due, running, queued, runs, lease, stopping, releasing,
                 userOps, crashes>>

\* The parse ends; it counts only if the task still waits for it.
ParseDone(t) ==
  /\ parser[t] # NoPod /\ Free(parser[t])
  /\ parser' = [parser EXCEPT ![t] = NoPod]
  /\ \/ /\ row[t].status # "parsing"
        /\ UNCHANGED row
     \/ /\ row[t].status = "parsing"
        /\ SetRow(t, [row[t] EXCEPT !.status = "paused"])
     \/ /\ row[t].status = "parsing"
        /\ \E kind \in {"once", "recurring"} :
             SetRow(t, [row[t] EXCEPT !.status = "active", !.kind = kind,
                                      !.next = "ahead"])
  /\ UNCHANGED <<at, due, running, queued, runs, lease, stopping, releasing,
                 userOps, crashes>>

\* PATCH {status: paused}, pause_task: no state of the task forbids it.
Pause(t) ==
  /\ Exists(t) /\ row[t].status # "paused"
  /\ UserOp
  /\ SetRow(t, [row[t] EXCEPT !.status = "paused"])
  /\ UNCHANGED <<at, due, running, queued, runs, lease, stopping, releasing,
                 parser, crashes>>

\* PATCH {status: active}: recomputes the next run of a recurring task that
\* has none, refuses a completed once-task.
Resume(t) ==
  /\ Exists(t) /\ ~Active(t)
  /\ ~(row[t].status = "completed" /\ row[t].kind = "once")
  /\ UserOp
  /\ SetRow(t, [row[t] EXCEPT !.status = "active",
                  !.next = IF @ = "none" /\ row[t].kind # "once" THEN "ahead"
                           ELSE @])
  /\ UNCHANGED <<at, due, running, queued, runs, lease, stopping, releasing,
                 parser, crashes>>

\* resume_task: nothing but the status.
ResumeByIpc(t) ==
  /\ Exists(t) /\ ~Active(t)
  /\ UserOp
  /\ SetRow(t, [row[t] EXCEPT !.status = "active"])
  /\ UNCHANGED <<at, due, running, queued, runs, lease, stopping, releasing,
                 parser, crashes>>

\* PATCH with a schedule (and perhaps a status), update_task with a schedule,
\* which revives a completed task.
EditSchedule(t, kind, status) ==
  /\ Exists(t)
  /\ status \in {row[t].status, "active"}
  /\ UserOp
  /\ SetRow(t, [row[t] EXCEPT !.kind = kind, !.next = "ahead",
                              !.status = status])
  /\ UNCHANGED <<at, due, running, queued, runs, lease, stopping, releasing,
                 parser, crashes>>

\* PATCH and update_task with another execution_type or context_mode.
EditPath(t, path) ==
  /\ Exists(t) /\ path # row[t].path
  /\ UserOp
  /\ SetRow(t, [row[t] EXCEPT !.path = path])
  /\ UNCHANGED <<at, due, running, queued, runs, lease, stopping, releasing,
                 parser, crashes>>

\* DELETE /api/tasks/:id refuses a task that runs in the pod that handles it;
\* cancel_task does not look.
Delete(t, p, byIpc) ==
  /\ Exists(t)
  /\ Free(p) /\ UserOp
  /\ byIpc \/ t \notin running[p]
  /\ SetRow(t, [row[t] EXCEPT !.status = "deleted"])
  /\ UNCHANGED <<at, due, running, queued, runs, lease, stopping, releasing,
                 parser, crashes>>

-----------------------------------------------------------------------------
(* Runs.                                                                   *)

FreshNo(p, t) ==
  {n \in RunNos : \A r \in runs : ~(r.pod = p /\ r.task = t /\ r.no = n)}

StartRun(p, t, manual, path) ==
  /\ \E n \in FreshNo(p, t) :
       runs' = runs \cup {[pod |-> p, task |-> t, no |-> n, manual |-> manual,
                           path |-> path, kind |-> row[t].kind,
                           next |-> row[t].next, stage |-> "working"]}
  /\ running' = [running EXCEPT ![p] = @ \cup {t}]

RunsOf(p, t) == {r \in runs : r.pod = p /\ r.task = t}
RunsOn(p, t, path) == {r \in runs : r.pod = p /\ r.task = t /\ r.path = path}

\* enqueueTask on the JID of the task: ignored while the queue shuts down or
\* when the task is in the queue; started at once if the JID and the limits
\* allow it; queued otherwise.
Enqueue(p, t, manual) ==
  \/ /\ p \in stopping \/ queued[p][t] # "no"
     /\ UNCHANGED <<queued, runs, running>>
  \/ /\ p \notin stopping /\ queued[p][t] = "no"
     /\ RunsOn(p, t, "isolated") = {}
     /\ StartRun(p, t, manual, "isolated")
     /\ UNCHANGED queued
  \/ /\ p \notin stopping /\ queued[p][t] = "no"
     /\ queued' = [queued EXCEPT ![p][t] = IF manual THEN "manual"
                                           ELSE "scheduled"]
     /\ UNCHANGED <<runs, running>>

\* runGroupModeTask: injects the prompt and finalizes, without an await.
RunInGroup(t, manual, failed) ==
  IF failed THEN UNCHANGED row
  ELSE \E next \in IF manual THEN {row[t].next} ELSE NextRun(row[t].kind) :
         SetRow(t, Finalized(row[t], [kind |-> row[t].kind], next))

\* triggerTaskNow.
Trigger(p, t) ==
  /\ Exists(t) /\ row[t].status \notin {"completed", "paused"}
  /\ t \notin running[p]
  /\ Free(p) /\ UserOp
  /\ \/ /\ row[t].path = "script"
        /\ StartRun(p, t, TRUE, "script")
        /\ UNCHANGED <<row, queued>>
     \/ /\ row[t].path = "group"
        /\ \E failed \in SaveFails : RunInGroup(t, TRUE, failed)
        /\ UNCHANGED <<queued, runs, running>>
     \/ /\ row[t].path = "isolated"
        /\ Enqueue(p, t, TRUE)
        /\ UNCHANGED row
  /\ UNCHANGED <<at, due, lease, stopping, releasing, parser, crashes>>

\* drainGroup takes the task from the queue when its JID is free: it drops a
\* task whose row is not active, and runTask drops one that is gone.
QueueStart(p, t) ==
  /\ Free(p) /\ p \notin stopping
  /\ queued[p][t] # "no"
  /\ RunsOn(p, t, "isolated") = {}
  /\ queued' = [queued EXCEPT ![p][t] = "no"]
  /\ IF Active(t)
       THEN StartRun(p, t, queued[p][t] = "manual", "isolated")
       ELSE UNCHANGED <<runs, running>>
  /\ UNCHANGED <<row, at, due, lease, stopping, releasing, parser, userOps,
                 crashes>>

\* Mutant: a failed write at the end of a run leaves the task marked.
UnmarkedIfSaved(r, failed) ==
  IF failed THEN running ELSE [running EXCEPT ![r.pod] = @ \ {r.task}]

Unmarked(r, failed) == [running EXCEPT ![r.pod] = @ \ {r.task}]

\* The run ends, by itself or at one of the gates: the row is finalized from
\* the snapshot and the task is unmarked in one stretch.  A task with a JID of
\* its own then still notifies its owner.
Finish(r, failed) ==
  /\ r.stage = "working" /\ Free(r.pod)
  /\ IF failed \/ ~Exists(r.task) THEN UNCHANGED row
     ELSE \E next \in NextAfter(r) :
            SetRow(r.task, Finalized(row[r.task], r, next))
  /\ running' = Unmarked(r, failed)
  /\ runs' = (runs \ {r}) \cup
               (IF r.path = "isolated" THEN {[r EXCEPT !.stage = "notifying"]}
                ELSE {})
  /\ UNCHANGED <<at, due, queued, lease, stopping, releasing, parser, userOps,
                 crashes>>

\* The outer finally of runTask, after the notification, unmarks once more.
Notified(r) ==
  /\ r.stage = "notifying" /\ Free(r.pod)
  /\ runs' = runs \ {r}
  /\ running' = [running EXCEPT ![r.pod] = @ \ {r.task}]
  /\ UNCHANGED <<row, at, due, queued, lease, stopping, releasing, parser,
                 userOps, crashes>>

-----------------------------------------------------------------------------
(* The loop.                                                               *)

\* Mutant: the lease is written under the name of the pod.
TickBeginByName(p) ==
  /\ at[p] = "asleep" /\ p \notin stopping
  /\ lease = NoHolder /\ lease' = p
  /\ at' = [at EXCEPT ![p] = "leading"]
  /\ UNCHANGED <<row, due, running, queued, runs, stopping, releasing, parser,
                 userOps, crashes>>

\* A tick: skipped while the queue shuts down; with Redis the pod needs the
\* lease, which nobody renews, or an error of Redis, which counts as having it.
TickBegin(p) ==
  /\ at[p] = "asleep" /\ p \notin stopping
  /\ \/ /\ ~UsesRedis \/ TRUE \in RedisFails
        /\ UNCHANGED lease
     \/ /\ UsesRedis /\ lease = NoHolder
        /\ lease' = PidOf[p]
  /\ at' = [at EXCEPT ![p] = "leading"]
  /\ UNCHANGED <<row, due, running, queued, runs, stopping, releasing, parser,
                 userOps, crashes>>

\* getDueTasks, after the await for the lease.
TickBody(p) ==
  /\ at[p] = "leading"
  /\ LET found == {t \in Tasks : Active(t) /\ row[t].next = "due"} IN
       /\ due' = [due EXCEPT ![p] = found]
       /\ at' = [at EXCEPT ![p] = IF found = {} THEN "asleep" ELSE "visiting"]
  /\ UNCHANGED <<row, running, queued, runs, lease, stopping, releasing,
                 parser, userOps, crashes>>

\* One round of the loop; the last one ends the tick.
Visit(p, t) ==
  /\ at[p] = "visiting" /\ t \in due[p]
  /\ due' = [due EXCEPT ![p] = @ \ {t}]
  /\ at' = [at EXCEPT ![p] = IF due[p] = {t} THEN "asleep" ELSE @]
  /\ UNCHANGED <<lease, stopping, releasing, parser, userOps, crashes>>

\* Mutant: only the status is read again.
RunnableActive(p, t) == Active(t)

Runnable(p, t) == Active(t) /\ t \notin running[p]

\* Another pod, or an earlier round, has changed the task, or it runs here.
VisitStale(p, t) ==
  /\ Visit(p, t)
  /\ ~Runnable(p, t)
  /\ UNCHANGED <<row, running, queued, runs>>

\* Overdue beyond the grace window: a recurring task moves on without a run,
\* or is paused when it cannot.
VisitOverdue(p, t) ==
  /\ Visit(p, t)
  /\ Runnable(p, t) /\ row[t].kind = "recurring"
  /\ \E next \in NextRun("recurring") :
       SetRow(t, [row[t] EXCEPT !.next = next,
                    !.status = IF next = "none" THEN "paused" ELSE @])
  /\ UNCHANGED <<running, queued, runs>>

\* No registered group to run in: only a once-task is given up.
VisitUntargeted(p, t) ==
  /\ Visit(p, t)
  /\ Runnable(p, t) /\ FALSE \in TargetFound
  /\ IF row[t].kind = "once"
       THEN SetRow(t, [row[t] EXCEPT !.next = "none", !.status = "completed"])
       ELSE UNCHANGED row
  /\ UNCHANGED <<running, queued, runs>>

\* No script slot, or the workspace of an isolated task cannot be made.
VisitUnprepared(p, t) ==
  /\ Visit(p, t)
  /\ Runnable(p, t) /\ FALSE \in Prepared
  /\ row[t].path # "group"
  /\ UNCHANGED <<row, running, queued, runs>>

VisitRuns(p, t, failed) ==
  /\ Visit(p, t)
  /\ Runnable(p, t) /\ TRUE \in TargetFound
  /\ \/ /\ row[t].path = "script" /\ TRUE \in Prepared
        /\ StartRun(p, t, FALSE, "script")
        /\ UNCHANGED <<row, queued>>
     \/ /\ row[t].path = "group"
        /\ RunInGroup(t, FALSE, failed)
        /\ UNCHANGED <<running, queued, runs>>
     \/ /\ row[t].path = "isolated" /\ TRUE \in Prepared
        /\ Enqueue(p, t, FALSE)
        /\ UNCHANGED row

-----------------------------------------------------------------------------
(* Time, shutdown and crashes.                                             *)

TimePasses(t) ==
  /\ row[t].next = "ahead" /\ Exists(t)
  /\ SetRow(t, [row[t] EXCEPT !.next = "due"])
  /\ UNCHANGED <<at, due, running, queued, runs, lease, stopping, releasing,
                 parser, userOps, crashes>>

\* Mutant: the key is set without a TTL.
LeaseNeverExpires == FALSE /\ UNCHANGED vars

\* The TTL of the key ends.  Nothing stops its holder.
LeaseExpires ==
  /\ lease # NoHolder /\ lease' = NoHolder
  /\ UNCHANGED <<row, at, due, running, queued, runs, stopping, releasing,
                 parser, userOps, crashes>>

\* The shutdown handler: the queue refuses work from here on, and
\* stopSchedulerLoop starts to release the lease.
Shutdown(p) ==
  /\ Free(p) /\ p \in MayStop \ stopping
  /\ crashes < MaxCrashes /\ crashes' = crashes + 1
  /\ stopping' = stopping \cup {p}
  /\ releasing' = [releasing EXCEPT ![p] = IF UsesRedis THEN "read" ELSE "no"]
  /\ UNCHANGED <<row, at, due, running, queued, runs, lease, parser, userOps>>

\* releaseSchedulerLease reads the holder and deletes the key in two calls.
ReleaseRead(p) ==
  /\ Free(p) /\ releasing[p] = "read"
  /\ releasing' = [releasing EXCEPT ![p] = IF lease = PidOf[p] THEN "delete"
                                           ELSE "no"]
  /\ UNCHANGED <<row, at, due, running, queued, runs, lease, stopping, parser,
                 userOps, crashes>>

ReleaseDelete(p) ==
  /\ Free(p) /\ releasing[p] = "delete"
  /\ lease' = NoHolder
  /\ releasing' = [releasing EXCEPT ![p] = "no"]
  /\ UNCHANGED <<row, at, due, running, queued, runs, stopping, parser,
                 userOps, crashes>>

\* A pod exits, at the end of a shutdown or without one, and starts again.
\* What it held in memory is gone; the lease stays until its TTL.
Crash(p) ==
  /\ p \in stopping \/ crashes < MaxCrashes
  /\ crashes' = IF p \in stopping THEN crashes ELSE crashes + 1
  /\ at' = [at EXCEPT ![p] = "asleep"]
  /\ due' = [due EXCEPT ![p] = {}]
  /\ running' = [running EXCEPT ![p] = {}]
  /\ queued' = [queued EXCEPT ![p] = [t \in Tasks |-> "no"]]
  /\ runs' = {r \in runs : r.pod # p}
  /\ stopping' = stopping \ {p}
  /\ releasing' = [releasing EXCEPT ![p] = "no"]
  /\ parser' = [t \in Tasks |-> IF parser[t] = p THEN NoPod ELSE parser[t]]
  /\ UNCHANGED <<row, lease, userOps>>

-----------------------------------------------------------------------------

VisitStep(p, t) ==
  \/ VisitStale(p, t) \/ VisitOverdue(p, t) \/ VisitUntargeted(p, t)
  \/ VisitUnprepared(p, t)
  \/ \E failed \in SaveFails : VisitRuns(p, t, failed)

UserStep ==
  \/ \E t \in Tasks, kind \in {"once", "recurring"} : Create(t, kind)
  \/ \E t \in Tasks, p \in Pods : CreateAi(t, p)
  \/ \E t \in Tasks : Pause(t) \/ Resume(t) \/ ResumeByIpc(t)
  \/ \E t \in Tasks, kind \in {"once", "recurring"},
        status \in {"active", "paused", "completed", "parsing"} :
       EditSchedule(t, kind, status)
  \/ \E t \in Tasks, p \in Pods, byIpc \in BOOLEAN : Delete(t, p, byIpc)
  \/ \E t \in Tasks, p \in Pods : Trigger(p, t)

LoopStep ==
  \/ \E p \in Pods : TickBegin(p) \/ TickBody(p)
  \/ \E p \in Pods, t \in Tasks : VisitStep(p, t) \/ QueueStart(p, t)

RunStep ==
  \/ \E t \in Tasks : ParseDone(t)
  \/ \E r \in runs, failed \in SaveFails : Finish(r, failed)
  \/ \E r \in runs : Notified(r)

PodStep ==
  \/ \E t \in Tasks : TimePasses(t)
  \/ LeaseExpires
  \/ \E p \in Pods :
       Shutdown(p) \/ ReleaseRead(p) \/ ReleaseDelete(p) \/ Crash(p)

\* The way a task runs is not edited.
FixedPathNext == UserStep \/ LoopStep \/ RunStep \/ PodStep

PathEdit == \E t \in Tasks, path \in Paths : EditPath(t, path)

Next == FixedPathNext \/ PathEdit

Spec == Init /\ [][Next]_vars
FixedPathSpec == Init /\ [][FixedPathNext]_vars

\* The event loop of a pod gets to every callback that stays or keeps coming
\* ready (SF, since a callback has to wait for the loop over the due tasks);
\* runs end and now and then can be saved, targets and script slots now and
\* then can be had, the TTL of the lease ends, a pod that stops is restarted.
Fairness ==
  /\ WF_vars(LeaseExpires)
  /\ \A p \in Pods :
       /\ WF_vars(TickBegin(p)) /\ WF_vars(TickBody(p))
       /\ WF_vars(p \in stopping /\ Crash(p))
  /\ \A p \in Pods, t \in Tasks :
       /\ WF_vars(VisitStep(p, t))
       /\ SF_vars(VisitRuns(p, t, FALSE))
       /\ SF_vars(QueueStart(p, t))
       /\ SF_vars(\E r \in RunsOf(p, t) : Finish(r, FALSE))
       /\ SF_vars(\E r \in RunsOf(p, t) : Notified(r))

FairSpec == FixedPathSpec /\ Fairness

-----------------------------------------------------------------------------
(* Properties.                                                             *)

\* A pod never runs a task twice at the same time: runTask and runScriptTask
\* do not look at runningTaskIds, the loop, triggerTaskNow and the queue have
\* to keep a second run away between them.
SingleRun ==
  \A r1, r2 \in runs :
    r1.pod = r2.pod /\ r1.task = r2.task => r1 = r2

\* runningTaskIds holds exactly the tasks whose run is not finalized yet: a
\* mark left behind would keep a task from running until the process restarts,
\* a mark removed too early would let the loop start the task again.
MarkedWhileWorking ==
  \A p \in Pods, t \in Tasks :
    t \in running[p] <=> \E r \in RunsOf(p, t) : r.stage = "working"

\* Only a user or an agent sets a task to work again: neither a run that ends,
\* nor the loop, nor the late answer of a parse revives a task that was paused,
\* completed or deleted meanwhile.
OnlyUsersActivate ==
  [][\A t \in Tasks :
       Active(t)' /\ ~Active(t) /\ row[t].status # "parsing"
         => userOps' = userOps + 1]_vars

\* A recurring task is "never silently completed" (the comment on
\* finalizeRecurringRun), neither by a run nor by a skipped round, unless its
\* schedule was that of a once-task when a run of it began.
RecurringNotCompleted ==
  [][\A t \in Tasks :
       row[t].status # "completed" /\ row[t].status' = "completed"
         => \/ row[t].kind = "once"
            \/ \E r \in runs : r.task = t /\ r.kind = "once"]_vars

\* A due task does not stay due: some pod runs it, or moves it on, whatever
\* pods crash or stop while they hold the lease, a mark or a run of it.
DueIsServed ==
  \A t \in Tasks :
    Active(t) /\ row[t].next = "due" ~> ~(Active(t) /\ row[t].next = "due")
=============================================================================
