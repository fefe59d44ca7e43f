------------------------ MODULE TaskSchedulerProofs ------------------------
(***************************************************************************)
(* Proofs about TaskScheduler, for any number of pods and tasks.            *)
(*                                                                         *)
(* While nobody edits how a task is run, a pod runs it once at a time and   *)
(* its marks are exact (IInv, step by step); only users and agents set a    *)
(* task to work again, and a recurring task is never silently completed.    *)
(***************************************************************************)
EXTENDS TaskScheduler, TLAPS

\* What keeps a second run away: every run of a task took the path of its row,
\* only isolated tasks are queued or outlive their mark, and group mode leaves
\* no run in flight.
OnePath ==
  /\ \A r \in runs :
       /\ r.path = row[r.task].path
       /\ r.path # "group"
       /\ r.stage = "notifying" => r.path = "isolated"
  /\ \A p \in Pods, t \in Tasks :
       queued[p][t] # "no" => row[t].path = "isolated"

IInv == TypeOK /\ SingleRun /\ MarkedWhileWorking /\ OnePath

-----------------------------------------------------------------------------
(* Types.                                                                  *)

LEMMA SetRowTyped ==
  ASSUME TypeOK, NEW t \in Tasks, NEW x \in Row, SetRow(t, x)
  PROVE  row' \in [Tasks -> Row]
  BY DEF TypeOK, SetRow

LEMMA RowOf ==
  ASSUME IInv, NEW t \in Tasks
  PROVE  row[t] \in Row
  BY DEF IInv, TypeOK

LEMMA FinalizedTyped ==
  ASSUME NEW x \in Row, NEW kind, NEW r, r.kind = kind,
         NEW next \in {"none", "ahead", "due"}
  PROVE  Finalized(x, r, next) \in Row /\ Finalized(x, r, next).path = x.path
  BY DEF Finalized, Row

LEMMA NextRunTyped ==
  ASSUME NEW kind
  PROVE  NextRun(kind) \subseteq {"none", "ahead"}
  BY DEF NextRun

LEMMA NextAfterTyped ==
  ASSUME NEW r \in Run
  PROVE  NextAfter(r) \subseteq {"none", "ahead", "due"}
  BY NextRunTyped DEF NextAfter, Run

-----------------------------------------------------------------------------
(* What the actions share.                                                 *)

\* A write to a row that keeps the path, with the runs and marks as they were.
LEMMA RowWriteKeeps ==
  ASSUME IInv, NEW t \in Tasks, NEW x \in Row, SetRow(t, x),
         x.path = row[t].path, UNCHANGED <<running, queued, runs>>
  PROVE  SingleRun' /\ MarkedWhileWorking' /\ OnePath'
<1> USE DEF IInv
<1>1. \A u \in Tasks : row'[u].path = row[u].path
  BY DEF TypeOK, SetRow
<1>2. SingleRun'
  BY DEF SingleRun
<1>3. MarkedWhileWorking'
  BY DEF MarkedWhileWorking, RunsOf
<1>4. OnePath'
  BY <1>1 DEF OnePath, TypeOK, Run
<1> QED
  BY <1>2, <1>3, <1>4

LEMMA NoWriteKeeps ==
  ASSUME IInv, UNCHANGED <<row, running, queued, runs>>
  PROVE  SingleRun' /\ MarkedWhileWorking' /\ OnePath'
  BY DEF IInv, SingleRun, MarkedWhileWorking, OnePath, RunsOf

\* An unmarked task has no run in the pod that is not on the JID of the task.
LEMMA UnmarkedIsIdle ==
  ASSUME IInv, NEW p \in Pods, NEW t \in Tasks,
         \/ row[t].path = "script" /\ t \notin running[p]
         \/ RunsOn(p, t, "isolated") = {} /\ row[t].path = "isolated"
  PROVE  RunsOf(p, t) = {}
<1> SUFFICES ASSUME NEW r \in RunsOf(p, t) PROVE FALSE
  OBVIOUS
<1>1. r \in runs /\ r.pod = p /\ r.task = t /\ r \in Run
  BY DEF RunsOf, IInv, TypeOK
<1>2. r.path = row[t].path /\ (r.stage = "notifying" => r.path = "isolated")
  BY <1>1 DEF IInv, OnePath
<1>3. CASE row[t].path = "script" /\ t \notin running[p]
  <2>1. r.stage = "working"
    BY <1>1, <1>2, <1>3 DEF Run
  <2> QED
    BY <2>1, <1>3 DEF IInv, MarkedWhileWorking
<1>4. CASE RunsOn(p, t, "isolated") = {} /\ row[t].path = "isolated"
  BY <1>1, <1>2, <1>4 DEF RunsOn
<1> QED
  BY <1>3, <1>4

\* A run may start where there is none.
LEMMA StartKeeps ==
  ASSUME IInv, NEW p \in Pods, NEW t \in Tasks, NEW manual \in BOOLEAN,
         NEW path \in {"script", "isolated"}, path = row[t].path,
         RunsOf(p, t) = {}, StartRun(p, t, manual, path), row' = row,
         \A q \in Pods, u \in Tasks :
           queued'[q][u] # "no" => queued[q][u] # "no"
  PROVE  /\ runs' \in SUBSET Run /\ running' \in [Pods -> SUBSET Tasks]
         /\ SingleRun' /\ MarkedWhileWorking' /\ OnePath'
<1> USE DEF IInv
<1>1. PICK n \in RunNos :
        runs' = runs \cup {[pod |-> p, task |-> t, no |-> n,
                            manual |-> manual, path |-> path,
                            kind |-> row[t].kind, next |-> row[t].next,
                            stage |-> "working"]}
  BY DEF StartRun, FreshNo
<1> DEFINE new == [pod |-> p, task |-> t, no |-> n, manual |-> manual,
                   path |-> path, kind |-> row[t].kind,
                   next |-> row[t].next, stage |-> "working"]
<1>2. new \in Run /\ new.pod = p /\ new.task = t /\ new.stage = "working"
        /\ new.path = path
  BY DEF TypeOK, Row, Run, Paths
<1>3. runs' = runs \cup {new}
  BY <1>1
<1> HIDE DEF new
<1>4. running' = [running EXCEPT ![p] = @ \cup {t}]
  BY DEF StartRun
<1>5. runs' \in SUBSET Run /\ running' \in [Pods -> SUBSET Tasks]
  BY <1>2, <1>3, <1>4 DEF TypeOK
<1>6. \A r \in runs : ~(r.pod = p /\ r.task = t)
  BY DEF RunsOf
<1>7. SingleRun'
  BY <1>2, <1>3, <1>6 DEF SingleRun
<1>8. MarkedWhileWorking'
  <2> SUFFICES ASSUME NEW q \in Pods, NEW u \in Tasks
               PROVE  u \in running'[q] <=> \E r \in runs' :
                        r.pod = q /\ r.task = u /\ r.stage = "working"
    BY DEF MarkedWhileWorking, RunsOf
  <2>1. u \in running[q] <=> \E r \in runs :
          r.pod = q /\ r.task = u /\ r.stage = "working"
    BY DEF MarkedWhileWorking, RunsOf
  <2>2. u \in running'[q] <=> u \in running[q] \/ (q = p /\ u = t)
    BY <1>4 DEF TypeOK
  <2> QED
    BY <2>1, <2>2, <1>2, <1>3
<1>9. OnePath'
  BY <1>2, <1>3 DEF OnePath
<1> QED
  BY <1>5, <1>7, <1>8, <1>9

\* A run that is finalized is unmarked; one that has notified is gone.
LEMMA UnmarkKeeps ==
  ASSUME IInv, NEW r \in runs, row' = row \/ \A u \in Tasks :
           row'[u].path = row[u].path,
         queued' = queued,
         running' = [running EXCEPT ![r.pod] = @ \ {r.task}],
         \/ runs' = runs \ {r}
         \/ /\ runs' = (runs \ {r}) \cup {[r EXCEPT !.stage = "notifying"]}
            /\ r.path = "isolated"
  PROVE  /\ runs' \in SUBSET Run /\ running' \in [Pods -> SUBSET Tasks]
         /\ SingleRun' /\ MarkedWhileWorking' /\ OnePath'
<1> USE DEF IInv
<1> DEFINE after == [r EXCEPT !.stage = "notifying"]
<1>1. r \in Run /\ r.pod \in Pods /\ r.task \in Tasks
  BY DEF TypeOK, Run
<1>2. /\ after \in Run /\ after.pod = r.pod /\ after.task = r.task
      /\ after.path = r.path /\ after.stage = "notifying"
  BY <1>1 DEF Run
<1> HIDE DEF after
<1>3. runs' \subseteq (runs \ {r}) \cup {after}
      /\ runs \ {r} \subseteq runs'
      /\ (after \in runs' /\ after \notin runs \ {r} => r.path = "isolated")
  BY DEF after
<1>4. runs' \in SUBSET Run /\ running' \in [Pods -> SUBSET Tasks]
  BY <1>1, <1>2, <1>3 DEF TypeOK
<1>5. \A s \in runs \ {r} : ~(s.pod = r.pod /\ s.task = r.task)
  BY DEF SingleRun
<1>6. SingleRun'
  BY <1>2, <1>3, <1>5 DEF SingleRun
<1>7. MarkedWhileWorking'
  <2> SUFFICES ASSUME NEW q \in Pods, NEW u \in Tasks
               PROVE  u \in running'[q] <=> \E s \in runs' :
                        s.pod = q /\ s.task = u /\ s.stage = "working"
    BY DEF MarkedWhileWorking, RunsOf
  <2>1. u \in running[q] <=> \E s \in runs :
          s.pod = q /\ s.task = u /\ s.stage = "working"
    BY DEF MarkedWhileWorking, RunsOf
  <2>2. u \in running'[q] <=> u \in running[q] /\ ~(q = r.pod /\ u = r.task)
    BY <1>1 DEF TypeOK
  <2>3. (\E s \in runs' : s.pod = q /\ s.task = u /\ s.stage = "working")
          <=> \E s \in runs \ {r} :
                s.pod = q /\ s.task = u /\ s.stage = "working"
    BY <1>2, <1>3
  <2> QED
    BY <2>1, <2>2, <2>3, <1>5
<1>8. OnePath'
  <2>1. \A u \in Tasks : row'[u].path = row[u].path
    OBVIOUS
  <2>2. \A s \in runs : s.task \in Tasks
    BY DEF TypeOK, Run
  <2> QED
    BY <2>1, <2>2, <1>1, <1>2, <1>3 DEF OnePath
<1> QED
  BY <1>4, <1>6, <1>7, <1>8

-----------------------------------------------------------------------------
(* One lemma per group of actions.                                         *)

LEMMA UserOpTyped ==
  ASSUME TypeOK, UserOp
  PROVE  userOps' \in 0..MaxUserOps
  BY SchedulerBoundsAssumption DEF TypeOK, UserOp

\* An operation that writes a row, and at most notes who parses it.
LEMMA UserWritePreserves ==
  ASSUME IInv, NEW t \in Tasks, NEW x \in Row, x.path = row[t].path,
         SetRow(t, x), UserOp, parser' \in [Tasks -> Pods \cup {NoPod}],
         UNCHANGED <<at, due, running, queued, runs, lease, stopping,
                     releasing, crashes>>
  PROVE  IInv'
<1>1. TypeOK'
  <2>1. row' \in [Tasks -> Row]
    BY SetRowTyped DEF IInv
  <2> QED
    BY <2>1, UserOpTyped DEF IInv, TypeOK
<1> QED
  BY <1>1, RowWriteKeeps DEF IInv

LEMMA CreatePreserves ==
  ASSUME IInv, NEW t \in Tasks, NEW kind \in {"once", "recurring"},
         Create(t, kind)
  PROVE  IInv'
<1> DEFINE x == [row[t] EXCEPT !.status = "active", !.kind = kind,
                               !.next = "ahead"]
<1>1. x \in Row /\ x.path = row[t].path
  BY RowOf DEF Row
<1>2. parser' \in [Tasks -> Pods \cup {NoPod}]
  BY DEF IInv, TypeOK, Create
<1> HIDE DEF x
<1>3. SetRow(t, x)
  BY DEF Create, x
<1>4. UserOp /\ UNCHANGED <<at, due, running, queued, runs, lease,
                          stopping, releasing, crashes>>
  BY DEF Create
<1> QED
  BY <1>1, <1>2, <1>3, <1>4, UserWritePreserves

LEMMA CreateAiPreserves ==
  ASSUME IInv, NEW t \in Tasks, NEW p \in Pods, CreateAi(t, p)
  PROVE  IInv'
<1> DEFINE x == [row[t] EXCEPT !.status = "parsing", !.kind = "recurring"]
<1>1. x \in Row /\ x.path = row[t].path
  BY RowOf DEF Row
<1>2. parser' \in [Tasks -> Pods \cup {NoPod}]
  BY DEF IInv, TypeOK, CreateAi
<1> HIDE DEF x
<1>3. SetRow(t, x)
  BY DEF CreateAi, x
<1>4. UserOp /\ UNCHANGED <<at, due, running, queued, runs, lease,
                          stopping, releasing, crashes>>
  BY DEF CreateAi
<1> QED
  BY <1>1, <1>2, <1>3, <1>4, UserWritePreserves

LEMMA StatusPreserves ==
  ASSUME IInv, NEW t \in Tasks, Pause(t) \/ Resume(t) \/ ResumeByIpc(t)
  PROVE  IInv'
<1>0. parser' \in [Tasks -> Pods \cup {NoPod}]
  BY DEF IInv, TypeOK, Pause, Resume, ResumeByIpc
<1>1. CASE Pause(t)
  <2> DEFINE x == [row[t] EXCEPT !.status = "paused"]
  <2>1. x \in Row /\ x.path = row[t].path
    BY RowOf DEF Row
  <2> HIDE DEF x
  <2>2. SetRow(t, x)
    BY <1>1 DEF Pause, x
  <2>3. UserOp /\ UNCHANGED <<at, due, running, queued, runs, lease,
                            stopping, releasing, crashes>>
    BY <1>1 DEF Pause
  <2> QED
    BY <1>0, <2>1, <2>2, <2>3, UserWritePreserves
<1>2. CASE Resume(t)
  <2> DEFINE x == [row[t] EXCEPT !.status = "active",
                    !.next = IF @ = "none" /\ row[t].kind # "once"
                             THEN "ahead" ELSE @]
  <2>1. x \in Row /\ x.path = row[t].path
    BY RowOf DEF Row
  <2>2. SetRow(t, x)
    BY <1>2 DEF Resume
  <2> HIDE DEF x
  <2>3. UserOp /\ UNCHANGED <<at, due, running, queued, runs, lease,
                            stopping, releasing, crashes>>
    BY <1>2 DEF Resume
  <2> QED
    BY <1>0, <2>1, <2>2, <2>3, UserWritePreserves
<1>3. CASE ResumeByIpc(t)
  <2> DEFINE x == [row[t] EXCEPT !.status = "active"]
  <2>1. x \in Row /\ x.path = row[t].path
    BY RowOf DEF Row
  <2> HIDE DEF x
  <2>2. SetRow(t, x)
    BY <1>3 DEF ResumeByIpc, x
  <2>3. UserOp /\ UNCHANGED <<at, due, running, queued, runs, lease,
                            stopping, releasing, crashes>>
    BY <1>3 DEF ResumeByIpc
  <2> QED
    BY <1>0, <2>1, <2>2, <2>3, UserWritePreserves
<1> QED
  BY <1>1, <1>2, <1>3

LEMMA EditSchedulePreserves ==
  ASSUME IInv, NEW t \in Tasks, NEW kind \in {"once", "recurring"},
         NEW status \in {"active", "paused", "completed", "parsing"},
         EditSchedule(t, kind, status)
  PROVE  IInv'
<1> DEFINE x == [row[t] EXCEPT !.kind = kind, !.next = "ahead",
                               !.status = status]
<1>1. x \in Row /\ x.path = row[t].path
  BY RowOf DEF Row
<1>2. parser' \in [Tasks -> Pods \cup {NoPod}]
  BY DEF IInv, TypeOK, EditSchedule
<1> HIDE DEF x
<1>3. SetRow(t, x)
  BY DEF EditSchedule, x
<1>4. UserOp /\ UNCHANGED <<at, due, running, queued, runs, lease,
                          stopping, releasing, crashes>>
  BY DEF EditSchedule
<1> QED
  BY <1>1, <1>2, <1>3, <1>4, UserWritePreserves

LEMMA DeletePreserves ==
  ASSUME IInv, NEW t \in Tasks, NEW p \in Pods, NEW byIpc \in BOOLEAN,
         Delete(t, p, byIpc)
  PROVE  IInv'
<1> DEFINE x == [row[t] EXCEPT !.status = "deleted"]
<1>1. x \in Row /\ x.path = row[t].path
  BY RowOf DEF Row
<1>2. parser' \in [Tasks -> Pods \cup {NoPod}]
  BY DEF IInv, TypeOK, Delete
<1> HIDE DEF x
<1>3. SetRow(t, x)
  BY DEF Delete, x
<1>4. UserOp /\ UNCHANGED <<at, due, running, queued, runs, lease,
                          stopping, releasing, crashes>>
  BY DEF Delete
<1> QED
  BY <1>1, <1>2, <1>3, <1>4, UserWritePreserves

LEMMA ParseDonePreserves ==
  ASSUME IInv, NEW t \in Tasks, ParseDone(t)
  PROVE  IInv'
<1> USE DEF ParseDone
<1>1. CASE row' = row
  <2>1. TypeOK'
    BY <1>1 DEF IInv, TypeOK
  <2> QED
    BY <2>1, <1>1, NoWriteKeeps DEF IInv
<1>2. ASSUME NEW x \in Row, x.path = row[t].path, SetRow(t, x)
      PROVE  IInv'
  <2>1. row' \in [Tasks -> Row]
    BY <1>2, SetRowTyped DEF IInv
  <2>2. TypeOK'
    BY <2>1 DEF IInv, TypeOK
  <2> QED
    BY <2>2, <1>2, RowWriteKeeps DEF IInv
<1>3. [row[t] EXCEPT !.status = "paused"] \in Row
        /\ [row[t] EXCEPT !.status = "paused"].path = row[t].path
  BY RowOf DEF Row
<1>4. \A kind \in {"once", "recurring"} :
        LET x == [row[t] EXCEPT !.status = "active", !.kind = kind,
                                !.next = "ahead"]
        IN  x \in Row /\ x.path = row[t].path
  BY RowOf DEF Row
<1> QED
  BY <1>1, <1>2, <1>3, <1>4

\* The injection of a group-mode task writes its row at most.
LEMMA RunInGroupWrites ==
  ASSUME IInv, NEW t \in Tasks, NEW manual \in BOOLEAN, NEW failed,
         RunInGroup(t, manual, failed)
  PROVE  \/ row' = row
         \/ \E x \in Row : x.path = row[t].path /\ SetRow(t, x)
<1>1. CASE failed
  BY <1>1 DEF RunInGroup
<1>2. CASE ~failed
  <2>1. PICK next \in IF manual THEN {row[t].next} ELSE NextRun(row[t].kind) :
          SetRow(t, Finalized(row[t], [kind |-> row[t].kind], next))
    BY <1>2 DEF RunInGroup
  <2>2. next \in {"none", "ahead", "due"}
    BY RowOf, NextRunTyped DEF Row
  <2>3. /\ Finalized(row[t], [kind |-> row[t].kind], next) \in Row
        /\ Finalized(row[t], [kind |-> row[t].kind], next).path = row[t].path
    <3> DEFINE r == [kind |-> row[t].kind]
    <3>1. r.kind = row[t].kind
      OBVIOUS
    <3> HIDE DEF r
    <3>2. Finalized(row[t], r, next) \in Row
            /\ Finalized(row[t], r, next).path = row[t].path
      BY <2>2, <3>1, RowOf, FinalizedTyped
    <3> QED
      BY <3>2 DEF r
  <2> QED
    BY <2>1, <2>3
<1> QED
  BY <1>1, <1>2

\* enqueueTask on an isolated task leaves the queue, the runs and the marks
\* of the pod in order.
LEMMA EnqueueKeeps ==
  ASSUME IInv, NEW p \in Pods, NEW t \in Tasks, NEW manual \in BOOLEAN,
         row[t].path = "isolated", Enqueue(p, t, manual), row' = row
  PROVE  /\ queued' \in [Pods -> [Tasks -> {"no", "scheduled", "manual"}]]
         /\ runs' \in SUBSET Run /\ running' \in [Pods -> SUBSET Tasks]
         /\ SingleRun' /\ MarkedWhileWorking' /\ OnePath'
<1>1. CASE UNCHANGED <<queued, runs, running>>
  BY <1>1, NoWriteKeeps DEF IInv, TypeOK
<1>2. CASE /\ RunsOn(p, t, "isolated") = {}
           /\ StartRun(p, t, manual, "isolated")
           /\ UNCHANGED queued
  BY <1>2, UnmarkedIsIdle, StartKeeps DEF IInv, TypeOK
<1>3. CASE /\ queued' = [queued EXCEPT ![p][t] = IF manual THEN "manual"
                                                 ELSE "scheduled"]
           /\ UNCHANGED <<runs, running>>
  <2>1. /\ queued' \in [Pods -> [Tasks -> {"no", "scheduled", "manual"}]]
        /\ \A q \in Pods, u \in Tasks :
             queued'[q][u] # "no" => u = t \/ queued[q][u] # "no"
    BY <1>3 DEF IInv, TypeOK
  <2>2. SingleRun' /\ MarkedWhileWorking'
    BY <1>3 DEF IInv, SingleRun, MarkedWhileWorking, RunsOf
  <2>3. OnePath'
    BY <1>3, <2>1 DEF IInv, OnePath
  <2> QED
    BY <1>3, <2>1, <2>2, <2>3 DEF IInv, TypeOK
<1> QED
  BY <1>1, <1>2, <1>3 DEF Enqueue

\* A task that runs as a script, is injected or queued: the step of the loop
\* and of triggerTaskNow that does it.
LEMMA LaunchKeeps ==
  ASSUME IInv, NEW p \in Pods, NEW t \in Tasks, NEW manual \in BOOLEAN,
         t \notin running[p],
         \/ /\ row[t].path = "script" /\ StartRun(p, t, manual, "script")
            /\ UNCHANGED <<row, queued>>
         \/ /\ row[t].path = "group"
            /\ \E failed \in SaveFails : RunInGroup(t, manual, failed)
            /\ UNCHANGED <<queued, runs, running>>
         \/ /\ row[t].path = "isolated" /\ Enqueue(p, t, manual)
            /\ UNCHANGED row
  PROVE  /\ row' \in [Tasks -> Row]
         /\ queued' \in [Pods -> [Tasks -> {"no", "scheduled", "manual"}]]
         /\ runs' \in SUBSET Run /\ running' \in [Pods -> SUBSET Tasks]
         /\ SingleRun' /\ MarkedWhileWorking' /\ OnePath'
<1>1. CASE /\ row[t].path = "script" /\ StartRun(p, t, manual, "script")
           /\ UNCHANGED <<row, queued>>
  BY <1>1, UnmarkedIsIdle, StartKeeps DEF IInv, TypeOK
<1>2. CASE /\ row[t].path = "group"
           /\ \E failed \in SaveFails : RunInGroup(t, manual, failed)
           /\ UNCHANGED <<queued, runs, running>>
  <2>1. CASE row' = row
    BY <1>2, <2>1, NoWriteKeeps DEF IInv, TypeOK
  <2>2. ASSUME NEW x \in Row, x.path = row[t].path, SetRow(t, x)
        PROVE  /\ row' \in [Tasks -> Row]
               /\ SingleRun' /\ MarkedWhileWorking' /\ OnePath'
    BY <1>2, <2>2, SetRowTyped, RowWriteKeeps DEF IInv
  <2>3. row' = row \/ \E x \in Row : x.path = row[t].path /\ SetRow(t, x)
    BY <1>2, RunInGroupWrites
  <2> QED
    BY <1>2, <2>1, <2>2, <2>3 DEF IInv, TypeOK
<1>3. CASE row[t].path = "isolated" /\ Enqueue(p, t, manual) /\ UNCHANGED row
  BY <1>3, EnqueueKeeps DEF IInv, TypeOK
<1> QED
  BY <1>1, <1>2, <1>3

LEMMA TriggerPreserves ==
  ASSUME IInv, NEW p \in Pods, NEW t \in Tasks, Trigger(p, t)
  PROVE  IInv'
<1>1. /\ row' \in [Tasks -> Row]
      /\ queued' \in [Pods -> [Tasks -> {"no", "scheduled", "manual"}]]
      /\ runs' \in SUBSET Run /\ running' \in [Pods -> SUBSET Tasks]
      /\ SingleRun' /\ MarkedWhileWorking' /\ OnePath'
  BY LaunchKeeps DEF Trigger
<1>2. userOps' \in 0..MaxUserOps
  BY UserOpTyped DEF Trigger, IInv
<1> QED
  BY <1>1, <1>2 DEF IInv, TypeOK, Trigger

\* What a round of the loop does to the pod itself.
LEMMA VisitTyped ==
  ASSUME IInv, NEW p \in Pods, NEW t \in Tasks, Visit(p, t)
  PROVE  /\ at' \in [Pods -> {"asleep", "leading", "visiting"}]
         /\ due' \in [Pods -> SUBSET Tasks]
         /\ UNCHANGED <<lease, stopping, releasing, parser, userOps, crashes>>
  BY DEF IInv, TypeOK, Visit

LEMMA VisitStepPreserves ==
  ASSUME IInv, NEW p \in Pods, NEW t \in Tasks, VisitStep(p, t)
  PROVE  IInv'
<1>1. ASSUME Visit(p, t), UNCHANGED <<running, queued, runs>>,
             \/ row' = row
             \/ \E x \in Row : x.path = row[t].path /\ SetRow(t, x)
      PROVE  IInv'
  <2>1. row' \in [Tasks -> Row] /\ SingleRun' /\ MarkedWhileWorking'
          /\ OnePath'
    <3>1. CASE row' = row
      BY <1>1, <3>1, NoWriteKeeps DEF IInv, TypeOK
    <3>2. ASSUME NEW x \in Row, x.path = row[t].path, SetRow(t, x)
          PROVE  row' \in [Tasks -> Row] /\ SingleRun' /\ MarkedWhileWorking'
                   /\ OnePath'
      BY <1>1, <3>2, SetRowTyped, RowWriteKeeps DEF IInv
    <3> QED
      BY <1>1, <3>1, <3>2
  <2> QED
    BY <1>1, <2>1, VisitTyped DEF IInv, TypeOK
<1>2. CASE VisitStale(p, t) \/ VisitUnprepared(p, t)
  BY <1>1, <1>2 DEF VisitStale, VisitUnprepared
<1>3. CASE VisitOverdue(p, t)
  <2>1. PICK next \in NextRun("recurring") :
          SetRow(t, [row[t] EXCEPT !.next = next,
                       !.status = IF next = "none" THEN "paused" ELSE @])
    BY <1>3 DEF VisitOverdue
  <2>2. next \in {"none", "ahead", "due"}
    BY NextRunTyped
  <2> DEFINE x == [row[t] EXCEPT !.next = next,
                     !.status = IF next = "none" THEN "paused" ELSE @]
  <2>3. x \in Row /\ x.path = row[t].path
    BY <2>2, RowOf DEF Row
  <2>4. SetRow(t, x)
    BY <2>1
  <2> HIDE DEF x
  <2>5. Visit(p, t) /\ UNCHANGED <<running, queued, runs>>
    BY <1>3 DEF VisitOverdue
  <2> QED
    BY <1>1, <2>3, <2>4, <2>5
<1>4. CASE VisitUntargeted(p, t)
  <2> DEFINE x == [row[t] EXCEPT !.next = "none", !.status = "completed"]
  <2>1. x \in Row /\ x.path = row[t].path
    BY RowOf DEF Row
  <2>2. row' = row \/ SetRow(t, x)
    BY <1>4 DEF VisitUntargeted
  <2> HIDE DEF x
  <2>3. Visit(p, t) /\ UNCHANGED <<running, queued, runs>>
    BY <1>4 DEF VisitUntargeted
  <2> QED
    BY <1>1, <2>1, <2>2, <2>3
<1>5. ASSUME NEW failed \in SaveFails, VisitRuns(p, t, failed)
      PROVE  IInv'
  <2>1. /\ row' \in [Tasks -> Row]
        /\ queued' \in [Pods -> [Tasks -> {"no", "scheduled", "manual"}]]
        /\ runs' \in SUBSET Run /\ running' \in [Pods -> SUBSET Tasks]
        /\ SingleRun' /\ MarkedWhileWorking' /\ OnePath'
    BY <1>5, LaunchKeeps DEF VisitRuns, Runnable
  <2>2. Visit(p, t)
    BY <1>5 DEF VisitRuns
  <2> QED
    BY <2>1, <2>2, VisitTyped DEF IInv, TypeOK
<1> QED
  BY <1>2, <1>3, <1>4, <1>5 DEF VisitStep

LEMMA QueueStartPreserves ==
  ASSUME IInv, NEW p \in Pods, NEW t \in Tasks, QueueStart(p, t)
  PROVE  IInv'
<1>1. row[t].path = "isolated" /\ RunsOf(p, t) = {}
  BY UnmarkedIsIdle DEF IInv, OnePath, QueueStart
<1>2. /\ queued' \in [Pods -> [Tasks -> {"no", "scheduled", "manual"}]]
      /\ \A q \in Pods, u \in Tasks :
           queued'[q][u] # "no" => queued[q][u] # "no"
  BY DEF IInv, TypeOK, QueueStart
<1>3. CASE Active(t)
  <2>1. StartRun(p, t, queued[p][t] = "manual", "isolated") /\ row' = row
    BY <1>3 DEF QueueStart
  <2>2. /\ runs' \in SUBSET Run /\ running' \in [Pods -> SUBSET Tasks]
        /\ SingleRun' /\ MarkedWhileWorking' /\ OnePath'
    BY <1>1, <1>2, <2>1, StartKeeps
  <2> QED
    BY <1>2, <2>2 DEF IInv, TypeOK, QueueStart
<1>4. CASE ~Active(t)
  <2>1. UNCHANGED <<row, runs, running>>
    BY <1>4 DEF QueueStart
  <2>2. SingleRun' /\ MarkedWhileWorking' /\ OnePath'
    BY <1>2, <2>1 DEF IInv, SingleRun, MarkedWhileWorking, OnePath, RunsOf
  <2> QED
    BY <1>2, <2>1, <2>2 DEF IInv, TypeOK, QueueStart
<1> QED
  BY <1>3, <1>4

LEMMA FinishPreserves ==
  ASSUME IInv, NEW r \in runs, NEW failed \in SaveFails, Finish(r, failed)
  PROVE  IInv'
<1>1. r \in Run /\ r.task \in Tasks /\ r.pod \in Pods
  BY DEF IInv, TypeOK, Run
<1>2. /\ row' \in [Tasks -> Row]
      /\ \A u \in Tasks : row'[u].path = row[u].path
  <2>1. CASE row' = row
    BY <2>1 DEF IInv, TypeOK
  <2>2. CASE \E next \in NextAfter(r) :
               SetRow(r.task, Finalized(row[r.task], r, next))
    <3>1. PICK next \in NextAfter(r) :
            SetRow(r.task, Finalized(row[r.task], r, next))
      BY <2>2
    <3>2. next \in {"none", "ahead", "due"}
      BY <1>1, NextAfterTyped
    <3>3. /\ Finalized(row[r.task], r, next) \in Row
          /\ Finalized(row[r.task], r, next).path = row[r.task].path
      BY <1>1, <3>2, RowOf, FinalizedTyped
    <3> QED
      BY <1>1, <3>1, <3>3 DEF IInv, TypeOK, SetRow
  <2> QED
    BY <2>1, <2>2 DEF Finish
<1>3. /\ queued' = queued
      /\ running' = [running EXCEPT ![r.pod] = @ \ {r.task}]
      /\ \/ runs' = runs \ {r}
         \/ /\ runs' = (runs \ {r}) \cup {[r EXCEPT !.stage = "notifying"]}
            /\ r.path = "isolated"
  BY DEF Finish, Unmarked
<1>4. /\ runs' \in SUBSET Run /\ running' \in [Pods -> SUBSET Tasks]
      /\ SingleRun' /\ MarkedWhileWorking' /\ OnePath'
  BY <1>2, <1>3, UnmarkKeeps
<1> QED
  BY <1>2, <1>4 DEF IInv, TypeOK, Finish

LEMMA NotifiedPreserves ==
  ASSUME IInv, NEW r \in runs, Notified(r)
  PROVE  IInv'
<1>1. /\ runs' \in SUBSET Run /\ running' \in [Pods -> SUBSET Tasks]
      /\ SingleRun' /\ MarkedWhileWorking' /\ OnePath'
  BY UnmarkKeeps DEF Notified
<1> QED
  BY <1>1 DEF IInv, TypeOK, Notified

\* Steps that touch neither the rows nor the runs.
LEMMA IdleStepPreserves ==
  ASSUME IInv,
         \/ \E p \in Pods : TickBegin(p) \/ TickBody(p) \/ Shutdown(p)
                             \/ ReleaseRead(p) \/ ReleaseDelete(p)
         \/ LeaseExpires
  PROVE  IInv'
<1>1. UNCHANGED <<row, running, queued, runs>>
  BY DEF TickBegin, TickBody, Shutdown, ReleaseRead, ReleaseDelete, LeaseExpires
<1>2. TypeOK'
  <2>1. ASSUME NEW p \in Pods, TickBegin(p) PROVE TypeOK'
    BY <2>1 DEF IInv, TypeOK, TickBegin
  <2>2. ASSUME NEW p \in Pods, TickBody(p) PROVE TypeOK'
    <3> DEFINE found == {t \in Tasks : Active(t) /\ row[t].next = "due"}
    <3>1. found \in SUBSET Tasks
      OBVIOUS
    <3>2. /\ due' = [due EXCEPT ![p] = found]
          /\ at' = [at EXCEPT ![p] = IF found = {} THEN "asleep" ELSE "visiting"]
      BY <2>2 DEF TickBody
    <3> HIDE DEF found
    <3> QED
      BY <2>2, <3>1, <3>2 DEF IInv, TypeOK, TickBody
  <2>3. ASSUME NEW p \in Pods, Shutdown(p) PROVE TypeOK'
    BY <2>3, SchedulerBoundsAssumption DEF IInv, TypeOK, Shutdown
  <2>4. ASSUME NEW p \in Pods, ReleaseRead(p) \/ ReleaseDelete(p) PROVE TypeOK'
    BY <2>4 DEF IInv, TypeOK, ReleaseRead, ReleaseDelete
  <2>5. CASE LeaseExpires
    BY <2>5 DEF IInv, TypeOK, LeaseExpires
  <2> QED
    BY <2>1, <2>2, <2>3, <2>4, <2>5
<1> QED
  BY <1>1, <1>2, NoWriteKeeps DEF IInv

LEMMA TimePassesPreserves ==
  ASSUME IInv, NEW t \in Tasks, TimePasses(t)
  PROVE  IInv'
<1> DEFINE x == [row[t] EXCEPT !.next = "due"]
<1>1. x \in Row /\ x.path = row[t].path
  BY RowOf DEF Row
<1> HIDE DEF x
<1>2. SetRow(t, x) /\ UNCHANGED <<running, queued, runs>>
  BY DEF TimePasses, x
<1>3. TypeOK'
  BY <1>1, <1>2, SetRowTyped DEF IInv, TypeOK, TimePasses
<1> QED
  BY <1>1, <1>2, <1>3, RowWriteKeeps DEF IInv

LEMMA CrashPreserves ==
  ASSUME IInv, NEW p \in Pods, Crash(p)
  PROVE  IInv'
<1>1. TypeOK'
  BY SchedulerBoundsAssumption DEF IInv, TypeOK, Crash
<1>2. runs' \subseteq runs /\ \A r \in runs : r \in runs' <=> r.pod # p
  BY DEF Crash
<1>3. SingleRun'
  BY <1>2 DEF IInv, SingleRun
<1>4. MarkedWhileWorking'
  <2> SUFFICES ASSUME NEW q \in Pods, NEW u \in Tasks
               PROVE  u \in running'[q] <=> \E r \in runs' :
                        r.pod = q /\ r.task = u /\ r.stage = "working"
    BY DEF MarkedWhileWorking, RunsOf
  <2>1. u \in running[q] <=> \E r \in runs :
          r.pod = q /\ r.task = u /\ r.stage = "working"
    BY DEF IInv, MarkedWhileWorking, RunsOf
  <2>2. u \in running'[q] <=> q # p /\ u \in running[q]
    BY DEF Crash, IInv, TypeOK
  <2> QED
    BY <1>2, <2>1, <2>2
<1>5. OnePath'
  <2>1. \A q \in Pods, u \in Tasks : queued'[q][u] # "no" => queued[q][u] # "no"
    BY DEF Crash, IInv, TypeOK
  <2> QED
    BY <1>2, <2>1 DEF IInv, OnePath, Crash
<1> QED
  BY <1>1, <1>3, <1>4, <1>5 DEF IInv

-----------------------------------------------------------------------------
(* The invariant.                                                          *)

LEMMA InitEstablishes ==
  ASSUME Init
  PROVE  IInv
<1>1. PICK path \in StartPaths :
        row = [t \in Tasks |-> [status |-> "unborn", path |-> path,
                                kind |-> "once", next |-> "none"]]
  BY DEF Init
<1>2. TypeOK
  BY <1>1, OutcomesAssumption, SchedulerBoundsAssumption
  DEF Init, TypeOK, Row, Paths
<1> QED
  BY <1>2 DEF Init, IInv, SingleRun, MarkedWhileWorking, OnePath, RunsOf

LEMMA StepPreserves ==
  ASSUME IInv, [FixedPathNext]_vars
  PROVE  IInv'
<1>1. CASE UserStep
  BY <1>1, CreatePreserves, CreateAiPreserves, StatusPreserves,
     EditSchedulePreserves, DeletePreserves, TriggerPreserves DEF UserStep
<1>2. CASE LoopStep
  BY <1>2, IdleStepPreserves, VisitStepPreserves, QueueStartPreserves
  DEF LoopStep
<1>3. CASE RunStep
  BY <1>3, ParseDonePreserves, FinishPreserves, NotifiedPreserves DEF RunStep
<1>4. CASE PodStep
  BY <1>4, TimePassesPreserves, IdleStepPreserves, CrashPreserves DEF PodStep
<1>5. CASE UNCHANGED vars
  <2>1. TypeOK'
    BY <1>5 DEF IInv, TypeOK, vars
  <2> QED
    BY <2>1, <1>5, NoWriteKeeps DEF IInv, vars
<1> QED
  BY <1>1, <1>2, <1>3, <1>4, <1>5 DEF FixedPathNext

LEMMA Invariance == FixedPathSpec => []IInv
<1>1. Init => IInv
  BY InitEstablishes
<1>2. IInv /\ [FixedPathNext]_vars => IInv'
  BY StepPreserves
<1> QED
  BY <1>1, <1>2, PTL DEF FixedPathSpec

\* Every variable keeps its type.
THEOREM TypeCorrect == FixedPathSpec => []TypeOK
  BY Invariance, PTL DEF IInv

\* While nobody edits how it is run, no task is run twice at a time in a pod:
\* by the loop, by triggerTaskNow and by the queue together, whatever crashes.
THEOREM RunsAreSingle == FixedPathSpec => []SingleRun
  BY Invariance, PTL DEF IInv

\* Under the same condition runningTaskIds is exact at every moment: no mark is
\* left behind, none is gone before the run is finalized.
THEOREM MarksAreExact == FixedPathSpec => []MarkedWhileWorking
  BY Invariance, PTL DEF IInv

-----------------------------------------------------------------------------
(* What a step may do to the status of a task.                             *)

LEMMA FinalizedStatus ==
  ASSUME NEW x \in Row, NEW r, NEW next
  PROVE  /\ Finalized(x, r, next).status \in {x.status, "paused", "completed"}
         /\ Finalized(x, r, next).status = "completed" /\ x.status # "completed"
              => r.kind = "once"
  BY DEF Finalized, Row

\* What a write of x to the row of u may make of the task t.
StatusKept(t) ==
  /\ row'[t].status \in {row[t].status, "paused", "completed"}
  /\ row'[t].status = "completed" /\ row[t].status # "completed"
       => row[t].kind = "once" \/ \E r \in runs : r.task = t /\ r.kind = "once"

LEMMA GroupKeepsStatus ==
  ASSUME IInv, NEW t \in Tasks, NEW u \in Tasks, NEW manual \in BOOLEAN,
         NEW failed, RunInGroup(u, manual, failed)
  PROVE  StatusKept(t)
<1>1. CASE row' = row
  BY <1>1 DEF StatusKept
<1>2. CASE row' # row
  <2>1. PICK next :
          SetRow(u, Finalized(row[u], [kind |-> row[u].kind], next))
    BY <1>2 DEF RunInGroup
  <2> DEFINE r == [kind |-> row[u].kind]
  <2>2. r.kind = row[u].kind
    OBVIOUS
  <2>3. SetRow(u, Finalized(row[u], r, next))
    BY <2>1
  <2> HIDE DEF r
  <2> QED
    BY <2>2, <2>3, FinalizedStatus, RowOf DEF StatusKept, SetRow, IInv, TypeOK
<1> QED
  BY <1>1, <1>2

LEMMA LoopKeepsStatus ==
  ASSUME IInv, NEW t \in Tasks, LoopStep
  PROVE  StatusKept(t)
<1>1. CASE row' = row
  BY <1>1 DEF StatusKept
<1>2. ASSUME NEW p \in Pods, NEW u \in Tasks, VisitStep(p, u)
      PROVE  StatusKept(t)
  <2>1. CASE VisitStale(p, u) \/ VisitUnprepared(p, u)
    BY <1>1, <2>1 DEF VisitStale, VisitUnprepared
  <2>2. CASE VisitOverdue(p, u)
    BY <2>2, RowOf DEF VisitOverdue, StatusKept, SetRow, Row, IInv, TypeOK
  <2>3. CASE VisitUntargeted(p, u)
    <3>1. row' = row \/ /\ row[u].kind = "once"
                        /\ SetRow(u, [row[u] EXCEPT !.next = "none",
                                                    !.status = "completed"])
      BY <2>3 DEF VisitUntargeted
    <3>2. [row[u] EXCEPT !.next = "none", !.status = "completed"].status
            = "completed"
      BY RowOf DEF Row
    <3> QED
      BY <1>1, <3>1, <3>2 DEF StatusKept, SetRow, IInv, TypeOK
  <2>4. ASSUME NEW failed, VisitRuns(p, u, failed) PROVE StatusKept(t)
    <3>1. row' = row \/ RunInGroup(u, FALSE, failed)
      BY <2>4 DEF VisitRuns
    <3> QED
      BY <1>1, <3>1, GroupKeepsStatus
  <2> QED
    BY <1>2, <2>1, <2>2, <2>3, <2>4 DEF VisitStep
<1>3. ASSUME NEW p \in Pods, NEW u \in Tasks, QueueStart(p, u)
      PROVE  StatusKept(t)
  BY <1>1, <1>3 DEF QueueStart
<1>4. ASSUME NEW p \in Pods, TickBegin(p) \/ TickBody(p)
      PROVE  StatusKept(t)
  BY <1>1, <1>4 DEF TickBegin, TickBody
<1> QED
  BY <1>2, <1>3, <1>4 DEF LoopStep

LEMMA FinishKeepsStatus ==
  ASSUME IInv, NEW t \in Tasks, NEW r \in runs, NEW failed, Finish(r, failed)
  PROVE  StatusKept(t)
<1>1. CASE row' = row
  BY <1>1 DEF StatusKept
<1>2. CASE row' # row
  <2>1. PICK next : SetRow(r.task, Finalized(row[r.task], r, next))
    BY <1>2 DEF Finish
  <2>2. r.task \in Tasks
    BY DEF IInv, TypeOK, Run
  <2> QED
    BY <2>1, <2>2, FinalizedStatus, RowOf DEF StatusKept, SetRow, IInv, TypeOK
<1> QED
  BY <1>1, <1>2

LEMMA PodStepKeepsStatus ==
  ASSUME IInv, NEW t \in Tasks, PodStep
  PROVE  StatusKept(t)
<1>1. CASE row' = row
  BY <1>1 DEF StatusKept
<1>2. ASSUME NEW u \in Tasks, TimePasses(u) PROVE StatusKept(t)
  BY <1>2, RowOf DEF TimePasses, StatusKept, SetRow, Row, IInv, TypeOK
<1> QED
  BY <1>1, <1>2
  DEF PodStep, LeaseExpires, Shutdown, ReleaseRead, ReleaseDelete, Crash

LEMMA ParseDoneKeepsStatus ==
  ASSUME IInv, NEW t \in Tasks, NEW u \in Tasks, ParseDone(u)
  PROVE  row[t].status = "parsing" \/ StatusKept(t)
<1>1. CASE row' = row
  BY <1>1 DEF StatusKept
<1>2. CASE row' # row
  <2>1. row[u].status = "parsing" /\ \E x : SetRow(u, x)
    BY <1>2 DEF ParseDone
  <2> QED
    BY <2>1 DEF StatusKept, SetRow, IInv, TypeOK
<1> QED
  BY <1>1, <1>2

\* A step that no user takes keeps the status of every task but those that
\* wait for their parse.
LEMMA StepKeepsStatus ==
  ASSUME IInv, NEW t \in Tasks, LoopStep \/ RunStep \/ PodStep
  PROVE  row[t].status = "parsing" \/ StatusKept(t)
<1>1. CASE LoopStep
  BY <1>1, LoopKeepsStatus
<1>2. CASE PodStep
  BY <1>2, PodStepKeepsStatus
<1>3. ASSUME NEW r \in runs, Notified(r) PROVE StatusKept(t)
  BY <1>3 DEF Notified, StatusKept
<1>4. CASE RunStep
  BY <1>3, <1>4, FinishKeepsStatus, ParseDoneKeepsStatus DEF RunStep
<1> QED
  BY <1>1, <1>2, <1>4

LEMMA UserStepIsCounted ==
  ASSUME UserStep
  PROVE  userOps' = userOps + 1
  BY DEF UserStep, UserOp, Create, CreateAi, Pause, Resume, ResumeByIpc,
         EditSchedule, Delete, Trigger

\* Users' operations complete nothing but a once-task run by injection.
LEMMA UserStepCompletes ==
  ASSUME IInv, NEW t \in Tasks, UserStep, row[t].status # "completed",
         row'[t].status = "completed"
  PROVE  row[t].kind = "once" \/ \E r \in runs : r.task = t /\ r.kind = "once"
<1>1. ASSUME NEW u \in Tasks, NEW x, SetRow(u, x), x.status # "completed"
      PROVE  FALSE
  BY <1>1 DEF SetRow, IInv, TypeOK
<1>2. ASSUME NEW u \in Tasks, NEW kind \in {"once", "recurring"},
             Create(u, kind)
      PROVE  FALSE
  BY <1>1, <1>2, RowOf DEF Create, Row
<1>3. ASSUME NEW u \in Tasks, NEW p \in Pods, CreateAi(u, p)
      PROVE  FALSE
  BY <1>1, <1>3, RowOf DEF CreateAi, Row
<1>4. ASSUME NEW u \in Tasks, Pause(u) \/ Resume(u) \/ ResumeByIpc(u)
      PROVE  FALSE
  BY <1>1, <1>4, RowOf DEF Pause, Resume, ResumeByIpc, Row
<1>5. ASSUME NEW u \in Tasks, NEW kind \in {"once", "recurring"}, NEW status,
             EditSchedule(u, kind, status)
      PROVE  FALSE
  BY <1>5, RowOf DEF EditSchedule, SetRow, Row, IInv, TypeOK
<1>6. ASSUME NEW u \in Tasks, NEW p \in Pods, NEW byIpc, Delete(u, p, byIpc)
      PROVE  FALSE
  BY <1>1, <1>6, RowOf DEF Delete, Row
<1>7. ASSUME NEW u \in Tasks, NEW p \in Pods, Trigger(p, u)
      PROVE  StatusKept(t)
  <2>1. row' = row \/ \E failed \in SaveFails : RunInGroup(u, TRUE, failed)
    BY <1>7 DEF Trigger
  <2> QED
    BY <2>1, GroupKeepsStatus DEF StatusKept
<1> QED
  BY <1>2, <1>3, <1>4, <1>5, <1>6, <1>7 DEF UserStep, StatusKept

\* Neither a run that ends, nor the loop, nor a late parse revives a task that
\* was paused, completed or deleted: only users and agents do.
THEOREM UsersActivate == FixedPathSpec => OnlyUsersActivate
<1>1. IInv /\ [FixedPathNext]_vars =>
        [\A t \in Tasks :
           Active(t)' /\ ~Active(t) /\ row[t].status # "parsing"
             => userOps' = userOps + 1]_vars
  <2> SUFFICES ASSUME IInv, FixedPathNext, NEW t \in Tasks,
                      Active(t)', ~Active(t), row[t].status # "parsing"
               PROVE  userOps' = userOps + 1
    BY DEF vars
  <2>1. CASE UserStep
    BY <2>1, UserStepIsCounted
  <2>2. CASE LoopStep \/ RunStep \/ PodStep
    BY <2>2, StepKeepsStatus DEF StatusKept, Active
  <2> QED
    BY <2>1, <2>2 DEF FixedPathNext
<1> QED
  BY <1>1, Invariance, PTL DEF FixedPathSpec, OnlyUsersActivate

\* A recurring task is never silently completed: when the status of a task
\* becomes completed, it was a once-task, or one when a run of it began.
THEOREM RecurringIsPaused == FixedPathSpec => RecurringNotCompleted
<1>1. IInv /\ [FixedPathNext]_vars =>
        [\A t \in Tasks :
           row[t].status # "completed" /\ row[t].status' = "completed"
             => \/ row[t].kind = "once"
                \/ \E r \in runs : r.task = t /\ r.kind = "once"]_vars
  <2> SUFFICES ASSUME IInv, FixedPathNext, NEW t \in Tasks,
                      row[t].status # "completed", row'[t].status = "completed"
               PROVE  \/ row[t].kind = "once"
                      \/ \E r \in runs : r.task = t /\ r.kind = "once"
    BY DEF vars
  <2>1. CASE UserStep
    BY <2>1, UserStepCompletes
  <2>2. CASE LoopStep \/ PodStep
    BY <2>2, LoopKeepsStatus, PodStepKeepsStatus DEF StatusKept
  <2>3. CASE RunStep
    <3>1. ASSUME NEW u \in Tasks, ParseDone(u) PROVE FALSE
      <4>1. \/ row' = row
            \/ SetRow(u, [row[u] EXCEPT !.status = "paused"])
            \/ \E kind \in {"once", "recurring"} :
                 SetRow(u, [row[u] EXCEPT !.status = "active", !.kind = kind,
                                          !.next = "ahead"])
        BY <3>1 DEF ParseDone
      <4>2. [row[u] EXCEPT !.status = "paused"].status = "paused"
        BY RowOf DEF Row
      <4>3. \A kind : [row[u] EXCEPT !.status = "active", !.kind = kind,
                                     !.next = "ahead"].status = "active"
        BY RowOf DEF Row
      <4> QED
        BY <4>1, <4>2, <4>3 DEF SetRow, IInv, TypeOK
    <3>2. ASSUME NEW r \in runs, Notified(r) PROVE FALSE
      BY <3>2 DEF Notified
    <3> QED
      BY <2>3, <3>1, <3>2, FinishKeepsStatus DEF RunStep, StatusKept
  <2> QED
    BY <2>1, <2>2, <2>3 DEF FixedPathNext
<1> QED
  BY <1>1, Invariance, PTL DEF FixedPathSpec, RecurringNotCompleted
=============================================================================
