------------------------ MODULE GroupQueueWakeProofs ------------------------
(***************************************************************************)
(* Proof that GroupQueue loses no wakeup: queued work is behind its own run *)
(* or waits for one whose end reaches drainWaiting.                         *)
(***************************************************************************)
EXTENDS GroupQueueProofs

\* Queued, of a GroupState.
Waits(s) == s.pendingTasks # <<>> \/ (s.pendingMessages /\ ~s.retryTimer)

\* The work of j is where the end of a run finds it.
Placed(j, g, w) == Waits(g[j]) => g[j].active \/ j \in w

AllPlaced(g, w) == \A j \in Jids : Placed(j, g, w)

OthersPlaced(j, g, w) == \A i \in Jids : i # j => Placed(i, g, w)

\* QueuedWorkHasWaker, without its premise.
Woken ==
  \A j \in Jids :
    Waits(group[j]) => \/ group[j].active
                       \/ j \in waiting /\ (runs # {} \/ j \in sweep)

\* After the step all work is placed, and a run is in flight.
Woke == AllPlaced(group', waiting') /\ runs' # {}

\* The groups except j have the same work in g and h.
SameWork(j, g, h) ==
  \A i \in Jids : i # j =>
    /\ h[i].active = g[i].active
    /\ Waits(h[i]) => Waits(g[i])

LEMMA WokeWoken == ASSUME Woke PROVE Woken'
BY DEF Woke, Woken, AllPlaced, Placed

LEMMA WokenPlaced ==
  ASSUME Woken, NEW j \in Jids
  PROVE  AllPlaced(group, waiting) /\ OthersPlaced(j, group, waiting)
BY DEF Woken, AllPlaced, OthersPlaced, Placed

LEMMA OthersSame ==
  ASSUME NEW j \in Jids, NEW g, NEW h, NEW w, OthersPlaced(j, g, w), SameWork(j, g, h)
  PROVE  OthersPlaced(j, h, w)
BY DEF OthersPlaced, Placed, SameWork

LEMMA SameWorkExcept ==
  ASSUME NEW j \in Jids, NEW g \in Groups, NEW s
  PROVE  /\ SameWork(j, g, [g EXCEPT ![j] = s])
         /\ [g EXCEPT ![j] = s][j] = s
BY DEF SameWork, Groups

-----------------------------------------------------------------------------
(* The helpers.                                                            *)

\* What cannot start now is kept from it by a run in flight: its own key's, or
\* one that holds a slot or counts for the owner's quota.
LEMMA BlockedByRun ==
  ASSUME NEW j \in Jids, NEW g, NEW c, NEW rs, Tight(g, c, rs),
         Runners(j, g) # {} \/ ~HasCapacityFor(j, g, c)
  PROVE  rs # {}
<1>. SUFFICES ASSUME rs = {} PROVE FALSE
  OBVIOUS
<1>1. \A i \in Jids : ~g[i].active
  BY DEF Tight, ActiveIffRunning
<1>2. Runners(j, g) = {}
  BY <1>1 DEF Runners
<1>3. UserActive(OwnerOf[j], g) = 0
  <2>1. {i \in Jids \ AgentJids : g[i].active /\ OwnerOf[i] = OwnerOf[j]} = {}
    BY <1>1
  <2>. QED BY <2>1, FS_EmptySet DEF UserActive
<1>4. UserLimit[OwnerOf[j]] \in Nat /\ UserLimit[OwnerOf[j]] > 0
  BY PlacementAssumption, LimitsAssumption
<1>5. c.container = 0 /\ c.host = 0
  <2>1. HostRuns(rs, FALSE) = {} /\ HostRuns(rs, TRUE) = {}
    BY DEF HostRuns
  <2>. QED BY <2>1, FS_EmptySet DEF Tight, Good
<1>6. 0 < MaxContainers /\ 0 < MaxHostProcesses
  BY LimitsAssumption
<1>7. HasCapacityFor(j, g, c)
  BY <1>3, <1>4, <1>5, <1>6 DEF HasCapacityFor
<1>. QED BY <1>2, <1>7

LEMMA ParkWakes ==
  ASSUME NEW j \in Jids, NEW g, NEW c, NEW rs, Park(j, g, c, rs),
         OthersPlaced(j, g, waiting), rs # {}
  PROVE  Woke
BY DEF Park, OthersPlaced, Placed, Woke, AllPlaced

LEMMA OccupyWakes ==
  ASSUME NEW j \in Jids, NEW kind \in {"messages", "task"}, NEW g \in Groups,
         NEW c, NEW rs, OthersPlaced(j, g, waiting), Occupy(j, kind, g, c, rs)
  PROVE  Woke
<1>1. /\ group' = [g EXCEPT ![j] = Started(g[j], kind)]
      /\ waiting' = waiting \ {j} /\ runs' # {}
  BY DEF Occupy
<1>2. Started(g[j], kind).active
  <2>1. g[j] \in GroupState
    BY DEF Groups
  <2>. QED BY <2>1 DEF Started, GroupState
<1>3. group'[j].active /\ \A i \in Jids : i # j => group'[i] = g[i]
  BY <1>1, <1>2 DEF Groups
<1>4. AllPlaced(group', waiting')
  BY <1>1, <1>3 DEF OthersPlaced, Placed, AllPlaced
<1>. QED BY <1>1, <1>4 DEF Woke

LEMMA DrainedWork ==
  ASSUME NEW j \in Jids, NEW g \in Groups, NEW wrote
  PROVE  SameWork(j, g, Drained(j, g, wrote))
<1>. SUFFICES ASSUME NEW i \in Jids
              PROVE  /\ Drained(j, g, wrote)[i].active = g[i].active
                     /\ Waits(Drained(j, g, wrote)[i]) => Waits(g[i])
  BY DEF SameWork
<1>. DEFINE s == [g[i] EXCEPT !.drainSentinelWritten = TRUE]
<1>1. g[i] \in GroupState
  BY DEF Groups
<1>2. s.active = g[i].active /\ (Waits(s) => Waits(g[i]))
  BY <1>1 DEF GroupState, Waits
<1>3. Drained(j, g, wrote)[i] \in {s, g[i]}
  BY DEF Drained
<1>. HIDE DEF s
<1>. QED BY <1>2, <1>3

\* enqueueMessageCheck leaves its JID running, or waiting for a run in flight.
LEMMA MessageCheckWakes ==
  ASSUME NEW j \in Jids, NEW user \in Initiators \cup {NoUser},
         NEW g, NEW c, NEW wrote, Tight(g, c, runs),
         OthersPlaced(j, g, waiting), MessageCheck(j, user, g, c, wrote)
  PROVE  Woke
<1>. DEFINE a == [g[j] EXCEPT !.currentRunInitiator = user]
            asked == IF user = NoUser THEN g ELSE [g EXCEPT ![j] = a]
<1>1. g \in Groups /\ g[j] \in GroupState
  BY GroupOf DEF Tight, Good
<1>2. asked \in Groups
  <2>1. a \in GroupState
    BY <1>1 DEF GroupState
  <2>. HIDE DEF a
  <2>. QED BY <1>1, <2>1 DEF Groups
<1>3. OthersPlaced(j, asked, waiting)
  <2>1. SameWork(j, g, [g EXCEPT ![j] = a])
    BY <1>1, SameWorkExcept
  <2>. HIDE DEF a
  <2>. QED BY <2>1, OthersSame
<1>. HIDE DEF asked
<1>4. \A h \in Groups, b \in BOOLEAN :
        OthersPlaced(j, h, waiting)
          => /\ [h EXCEPT ![j].pendingMessages = b] \in Groups
             /\ OthersPlaced(j, [h EXCEPT ![j].pendingMessages = b], waiting)
  <2>. SUFFICES ASSUME NEW h \in Groups, NEW b \in BOOLEAN, OthersPlaced(j, h, waiting)
                PROVE  /\ [h EXCEPT ![j].pendingMessages = b] \in Groups
                       /\ OthersPlaced(j, [h EXCEPT ![j].pendingMessages = b], waiting)
    OBVIOUS
  <2>. DEFINE s == [h[j] EXCEPT !.pendingMessages = b]
  <2>1. s \in GroupState
    <3>1. h[j] \in GroupState
      BY DEF Groups
    <3>. QED BY <3>1 DEF GroupState
  <2>2. [h EXCEPT ![j].pendingMessages = b] = [h EXCEPT ![j] = s]
    OBVIOUS
  <2>. HIDE DEF s
  <2>3. SameWork(j, h, [h EXCEPT ![j] = s])
    BY SameWorkExcept
  <2>4. [h EXCEPT ![j] = s] \in Groups
    BY <2>1 DEF Groups
  <2>5. OthersPlaced(j, [h EXCEPT ![j] = s], waiting)
    BY <2>3, OthersSame
  <2>. QED BY <2>2, <2>4, <2>5
<1>5. CASE /\ Runners(j, g) # {}
           /\ Park(j, Drained(j, [g EXCEPT ![j].pendingMessages = TRUE], wrote), c, runs)
  <2>. DEFINE h == [g EXCEPT ![j].pendingMessages = TRUE]
  <2>1. h \in Groups /\ OthersPlaced(j, h, waiting)
    BY <1>1, <1>4
  <2>2. Park(j, Drained(j, h, wrote), c, runs)
    BY <1>5
  <2>. HIDE DEF h
  <2>3. OthersPlaced(j, Drained(j, h, wrote), waiting)
    BY <2>1, DrainedWork, OthersSame
  <2>4. runs # {}
    BY <1>5, BlockedByRun
  <2>. QED BY <2>2, <2>3, <2>4, ParkWakes
<1>6. CASE /\ ~HasCapacityFor(j, g, c)
           /\ Park(j, [asked EXCEPT ![j].pendingMessages = TRUE], c, runs)
  <2>1. runs # {}
    BY <1>6, BlockedByRun
  <2>. QED BY <1>2, <1>3, <1>4, <1>6, <2>1, ParkWakes
<1>7. CASE RunForGroup(j, asked, c, runs)
  <2>. DEFINE h == [asked EXCEPT ![j].pendingMessages = FALSE]
  <2>1. h \in Groups /\ OthersPlaced(j, h, waiting)
    BY <1>2, <1>3, <1>4
  <2>2. Occupy(j, "messages", h, c, runs)
    BY <1>7 DEF RunForGroup
  <2>. HIDE DEF h
  <2>. QED BY <2>1, <2>2, OccupyWakes
<1>. QED BY <1>5, <1>6, <1>7 DEF MessageCheck, asked

LEMMA StartPendingWakes ==
  ASSUME NEW j \in Jids, NEW g \in Groups, NEW c, NEW rs,
         OthersPlaced(j, g, waiting), StartPending(j, g, c, rs)
  PROVE  Woke
<1>0. g[j] \in GroupState /\ g[j].pendingTasks \in Seq(TaskIds)
  BY DEF Groups, GroupState
<1>1. CASE /\ StartableTasks(g[j].pendingTasks) # {}
           /\ RunTask(j, [g EXCEPT ![j].pendingTasks = AfterFirstStartable(@)], c, rs)
  <2>. DEFINE rest == AfterFirstStartable(g[j].pendingTasks)
              s == [g[j] EXCEPT !.pendingTasks = rest]
              h == [g EXCEPT ![j] = s]
  <2>1. rest \in Seq(TaskIds)
    BY <1>0, <1>1, AfterFirstStartableType
  <2>2. Occupy(j, "task", h, c, rs)
    BY <1>1 DEF RunTask
  <2>. HIDE DEF rest
  <2>3. s \in GroupState
    BY <1>0, <2>1 DEF GroupState
  <2>. HIDE DEF s
  <2>4. h \in Groups /\ SameWork(j, g, h)
    BY <2>3, SameWorkExcept DEF Groups
  <2>. HIDE DEF h
  <2>. QED BY <2>2, <2>4, OthersSame, OccupyWakes
<1>2. CASE RunForGroup(j, [g EXCEPT ![j].pendingTasks = <<>>], c, rs)
  <2>. DEFINE s == [g[j] EXCEPT !.pendingTasks = <<>>]
              h == [g EXCEPT ![j] = s]
              m == [h[j] EXCEPT !.pendingMessages = FALSE]
              k == [h EXCEPT ![j] = m]
  <2>1. s \in GroupState
    BY <1>0, NoTasksType
  <2>2. Occupy(j, "messages", k, c, rs)
    BY <1>2 DEF RunForGroup
  <2>. HIDE DEF s
  <2>3. h \in Groups /\ SameWork(j, g, h)
    BY <2>1, SameWorkExcept DEF Groups
  <2>. HIDE DEF h
  <2>4. h[j] \in GroupState
    BY <2>3 DEF Groups
  <2>5. m \in GroupState
    BY <2>4 DEF GroupState
  <2>. HIDE DEF m
  <2>6. k \in Groups /\ SameWork(j, h, k)
    BY <2>3, <2>5, SameWorkExcept DEF Groups
  <2>. HIDE DEF k
  <2>7. OthersPlaced(j, k, waiting)
    BY <2>3, <2>6, OthersSame
  <2>. QED BY <2>2, <2>6, <2>7, OccupyWakes
<1>. QED BY <1>1, <1>2 DEF StartPending

\* drainGroup, after a run of j: the last run to end visits all that wait.
LEMMA DrainGroupWakes ==
  ASSUME NEW j \in Jids, NEW g, NEW c, NEW rs, Tight(g, c, rs), ~shuttingDown,
         OthersPlaced(j, g, waiting), ~g[j].active, DrainGroup(j, g, c, rs)
  PROVE  Woken'
<1>0. g \in Groups /\ g[j] \in GroupState
  BY GroupOf DEF Tight, Good
<1>1. CASE /\ Runners(j, g) \ {j} # {} \/ ~HasCapacityFor(j, g, c)
           /\ Park(j, g, c, rs)
  <2>1. rs # {}
    BY <1>1, BlockedByRun
  <2>. QED BY <1>1, <2>1, ParkWakes, WokeWoken
<1>2. CASE StartPending(j, g, c, rs)
  BY <1>0, <1>2, StartPendingWakes, WokeWoken
<1>3. CASE /\ NothingStartable(g[j])
           /\ group' = Collected(j, g) /\ waiting' = waiting \ {j}
           /\ sweep' = Candidates(j)
  <2>. DEFINE s == [g[j] EXCEPT !.pendingTasks = <<>>]
  <2>1. PICK t \in {FreshGroup, s} : group' = [g EXCEPT ![j] = t]
    BY <1>3 DEF Collected
  <2>2. ~Waits(s)
    <3>1. /\ s.pendingTasks = <<>> /\ s.pendingMessages = g[j].pendingMessages
          /\ s.retryTimer = g[j].retryTimer
      BY <1>0 DEF GroupState
    <3>. HIDE DEF s
    <3>. QED BY <1>3, <3>1 DEF NothingStartable, MessagesStartable, Waits
  <2>3. ~Waits(FreshGroup)
    BY DEF Waits, FreshGroup
  <2>. HIDE DEF s
  <2>4. ~Waits(group'[j]) /\ \A i \in Jids : i # j => group'[i] = g[i]
    BY <1>0, <2>1, <2>2, <2>3 DEF Groups
  <2>5. waiting' = waiting \ {j} /\ sweep' = waiting \ {j}
    BY <1>3 DEF Candidates
  <2>. SUFFICES ASSUME NEW i \in Jids, Waits(group'[i]), ~group'[i].active
                PROVE  i \in waiting' /\ i \in sweep'
    BY DEF Woken
  <2>6. i # j /\ group'[i] = g[i]
    BY <2>4
  <2>7. i \in waiting
    BY <2>6 DEF OthersPlaced, Placed
  <2>. QED BY <2>5, <2>6, <2>7
<1>. QED BY <1>1, <1>2, <1>3 DEF DrainGroup

-----------------------------------------------------------------------------
(* The operations.                                                         *)

\* An operation that neither ends a run nor makes work where none runs.
LEMMA KeepsWaker ==
  ASSUME Woken, UNCHANGED <<runs, waiting, sweep>>,
         \A i \in Jids : /\ group[i].active => group'[i].active
                         /\ Waits(group'[i]) => Waits(group[i]) \/ group'[i].active
  PROVE  Woken'
BY DEF Woken

LEMMA OneGroupWakes ==
  ASSUME Slots, Woken, UNCHANGED <<runs, waiting, sweep>>, NEW j \in Jids, NEW s,
         group' = [group EXCEPT ![j] = s], s.active = group[j].active,
         Waits(s) => Waits(group[j]) \/ s.active
  PROVE  Woken'
<1>1. group'[j] = s /\ \A i \in Jids : i # j => group'[i] = group[i]
  BY DEF Slots, Good, Groups
<1>. QED BY <1>1, KeepsWaker

LEMMA EnqueueTaskWakes ==
  ASSUME Slots, Keyed, Woken, NEW t \in TaskIds, EnqueueTask(t)
  PROVE  Woken'
<1>. DEFINE j == HomeOf[t]
            s == [group[j] EXCEPT !.pendingTasks = Append(@, t)]
            h == [group EXCEPT ![j] = s]
<1>1. j \in Jids /\ group \in Groups
  BY PlacementAssumption DEF Slots, Good
<1>2. OthersPlaced(j, group, waiting)
  BY <1>1, WokenPlaced
<1>3. CASE /\ Runners(j, group) # {} \/ ~HasCapacityFor(j, group, count)
           /\ Park(j, [group EXCEPT ![j].pendingTasks = Append(@, t)], count, runs)
  <2>1. runs # {}
    BY <1>1, <1>3, BlockedByRun DEF Keyed
  <2>2. Park(j, h, count, runs)
    BY <1>3
  <2>. HIDE DEF s
  <2>3. OthersPlaced(j, h, waiting)
    BY <1>1, <1>2, SameWorkExcept, OthersSame
  <2>. HIDE DEF h
  <2>. QED BY <1>1, <2>1, <2>2, <2>3, ParkWakes, WokeWoken
<1>4. CASE RunTask(j, group, count, runs)
  BY <1>1, <1>2, <1>4, OccupyWakes, WokeWoken DEF RunTask
<1>. QED BY <1>3, <1>4 DEF EnqueueTask

LEMMA SweepStepWakes ==
  ASSUME Slots, Keyed, Woken, NEW j \in Jids, SweepStep(j)
  PROVE  Woken'
<1>0. /\ group \in Groups /\ group[j] \in GroupState /\ sweep' = sweep \ {j}
      /\ OthersPlaced(j, group, waiting) /\ AllPlaced(group, waiting)
  BY GroupOf, WokenPlaced DEF Slots, Good, SweepStep
<1>1. CASE /\ Runners(j, group) # {} \/ ~HasCapacityFor(j, group, count)
           /\ UNCHANGED <<group, runs, count, waiting>>
  <2>1. runs # {}
    BY <1>1, BlockedByRun DEF Keyed
  <2>. QED BY <1>0, <1>1, <2>1, WokeWoken DEF Woke
<1>2. CASE StartPending(j, group, count, runs)
  BY <1>0, <1>2, StartPendingWakes, WokeWoken
<1>3. CASE /\ NothingStartable(group[j])
           /\ group' = [group EXCEPT ![j].pendingTasks = <<>>]
           /\ waiting' = waiting \ {j}
           /\ UNCHANGED <<runs, count>>
  <2>. DEFINE s == [group[j] EXCEPT !.pendingTasks = <<>>]
  <2>1. group' = [group EXCEPT ![j] = s]
    BY <1>3
  <2>2. ~Waits(s)
    <3>1. /\ s.pendingTasks = <<>> /\ s.pendingMessages = group[j].pendingMessages
          /\ s.retryTimer = group[j].retryTimer
      BY <1>0 DEF GroupState
    <3>. HIDE DEF s
    <3>. QED BY <1>3, <3>1 DEF NothingStartable, MessagesStartable, Waits
  <2>. HIDE DEF s
  <2>3. ~Waits(group'[j]) /\ \A i \in Jids : i # j => group'[i] = group[i]
    BY <1>0, <2>1, <2>2 DEF Groups
  <2>. SUFFICES ASSUME NEW i \in Jids, Waits(group'[i]), ~group'[i].active
                PROVE  i \in waiting' /\ (runs' # {} \/ i \in sweep')
    BY DEF Woken
  <2>4. i # j /\ group'[i] = group[i]
    BY <2>3
  <2>5. i \in waiting /\ (runs # {} \/ i \in sweep)
    BY <2>4 DEF Woken
  <2>. QED BY <1>0, <1>3, <2>4, <2>5
<1>. QED BY <1>1, <1>2, <1>3 DEF SweepStep

LEMMA FinishMessagesWakes ==
  ASSUME Slots, Keyed, Woken, stopped = {}, ~shuttingDown,
         NEW r \in runs, NEW ok \in BOOLEAN, FinishMessages(r, ok)
  PROVE  Woken'
<1>. DEFINE j == r.jid
            tried == IF ok THEN RetryCleared(group[j]) ELSE RetryScheduled(group[j])
            rearm == UnreadIpc(j)
                     \/ (group[j].hasIpcInjectedMessages /\ ~StopRequested(j))
            e == MessagesExited(tried)
            again == e.pendingMessages \/ rearm
            left == [e EXCEPT !.pendingMessages = again]
            g == [group EXCEPT ![j] = left]
<1>1. j \in Jids /\ group \in Groups /\ group[j] \in GroupState
  BY GroupOf DEF Slots, Good, Run
<1>2. tried \in GroupState /\ e \in GroupState
  BY <1>1, ExitTypes
<1>. HIDE DEF tried
<1>3. ~e.active
  <2>1. Exited(tried) \in GroupState
    BY <1>2, ExitTypes
  <2>2. ~Exited(tried).active
    BY <1>2 DEF Exited, GroupState
  <2>. QED BY <2>1, <2>2 DEF MessagesExited, GroupState
<1>4. again \in BOOLEAN
  OBVIOUS
<1>. HIDE DEF e, again
<1>5. left \in GroupState /\ ~left.active
  BY <1>2, <1>3, <1>4 DEF GroupState
<1>6. DrainGroup(j, g, Released(r), runs \ {r})
  BY DEF FinishMessages, StopRequested, tried, e, again
<1>. HIDE DEF left
<1>7. Tight(g, Released(r), runs \ {r})
  BY <1>5, ReleasedTight DEF Keyed
<1>8. ~g[j].active
  BY <1>1, <1>5 DEF Groups
<1>9. OthersPlaced(j, g, waiting)
  <2>1. OthersPlaced(j, group, waiting)
    BY <1>1, WokenPlaced
  <2>. QED BY <1>1, <2>1, SameWorkExcept, OthersSame
<1>. HIDE DEF g
<1>. QED BY <1>1, <1>6, <1>7, <1>8, <1>9, DrainGroupWakes

LEMMA FinishTaskWakes ==
  ASSUME Slots, Keyed, Woken, ~shuttingDown, NEW r \in runs, FinishTask(r)
  PROVE  Woken'
<1>. DEFINE j == r.jid
            e == Exited(Recovered(j))
            left == [e EXCEPT !.activeRunnerIsTask = FALSE]
            g == [group EXCEPT ![j] = left]
<1>1. j \in Jids /\ group \in Groups
  BY DEF Slots, Good, Run
<1>2. e \in GroupState /\ ~e.active
  <2>1. Recovered(j) \in GroupState
    BY <1>1, RecoveredType
  <2>. QED BY <2>1, ExitTypes DEF Exited, GroupState
<1>3. DrainGroup(j, g, Released(r), runs \ {r})
  BY DEF FinishTask
<1>. HIDE DEF e
<1>4. left \in GroupState /\ ~left.active
  BY <1>2 DEF GroupState
<1>. HIDE DEF left
<1>5. Tight(g, Released(r), runs \ {r})
  BY <1>4, ReleasedTight DEF Keyed
<1>6. ~g[j].active
  BY <1>1, <1>4 DEF Groups
<1>7. OthersPlaced(j, g, waiting)
  <2>1. OthersPlaced(j, group, waiting)
    BY <1>1, WokenPlaced
  <2>. QED BY <1>1, <2>1, SameWorkExcept, OthersSame
<1>. HIDE DEF g
<1>. QED BY <1>1, <1>3, <1>5, <1>6, <1>7, DrainGroupWakes

LEMMA RetryTimerFiresWakes ==
  ASSUME Slots, Keyed, Woken, ~shuttingDown, NEW j \in Jids, NEW w,
         RetryTimerFires(j, w)
  PROVE  Woken'
<1>. DEFINE s == [group[j] EXCEPT !.retryTimer = FALSE]
            g == [group EXCEPT ![j] = s]
<1>1. group \in Groups /\ group[j] \in GroupState
  BY GroupOf DEF Slots, Good
<1>2. s \in GroupState /\ s.active = group[j].active
  BY <1>1 DEF GroupState
<1>3. MessageCheck(j, NoUser, g, count, w)
  BY DEF RetryTimerFires
<1>. HIDE DEF s
<1>4. g \in Groups /\ SameActive(group, g)
  BY <1>1, <1>2, SameActiveExcept
<1>5. OthersPlaced(j, g, waiting)
  <2>1. OthersPlaced(j, group, waiting)
    BY WokenPlaced
  <2>. QED BY <1>1, <2>1, SameWorkExcept, OthersSame
<1>. HIDE DEF g
<1>6. Tight(g, count, runs)
  BY <1>4, TightSameActive DEF Keyed
<1>. QED BY <1>3, <1>5, <1>6, MessageCheckWakes, WokeWoken

LEMMA RestartEndsWakes ==
  ASSUME Slots, EnvOK, Keyed, Woken, NEW call \in restarts, NEW w,
         RestartEnds(call, w)
  PROVE  Woken'
<1>. DEFINE t == call.target
            j == call.requested
            s == [group[t] EXCEPT !.restarting = FALSE]
            g == [group EXCEPT ![t] = s]
<1>1. t \in Jids /\ j \in Jids
  BY ChatJidsAreJids DEF EnvOK
<1>2. group \in Groups /\ group[t] \in GroupState
  BY <1>1, GroupOf DEF Slots, Good
<1>3. s \in GroupState /\ s.active = group[t].active /\ (Waits(s) => Waits(group[t]))
  BY <1>2 DEF GroupState, Waits
<1>4. \/ group' = g /\ UNCHANGED <<runs, waiting, sweep>>
      \/ MessageCheck(j, NoUser, g, count, w)
  BY DEF RestartEnds
<1>. HIDE DEF s, t, j
<1>5. g \in Groups /\ SameActive(group, g)
  BY <1>1, <1>2, <1>3, SameActiveExcept
<1>6. SameWork(j, group, g)
  BY <1>1, <1>2, <1>3 DEF SameWork, Groups
<1>7. CASE group' = g /\ UNCHANGED <<runs, waiting, sweep>>
  BY <1>1, <1>3, <1>7, OneGroupWakes
<1>. HIDE DEF g
<1>8. CASE MessageCheck(j, NoUser, g, count, w)
  <2>1. Tight(g, count, runs)
    BY <1>5, TightSameActive DEF Keyed
  <2>2. OthersPlaced(j, g, waiting)
    BY <1>1, <1>6, WokenPlaced, OthersSame
  <2>. QED BY <1>1, <1>8, <2>1, <2>2, MessageCheckWakes, WokeWoken
<1>. QED BY <1>4, <1>7, <1>8

LEMMA RegisterProcessWakes ==
  ASSUME Slots, Woken, NEW r \in runs, RegisterProcess(r)
  PROVE  Woken'
<1>. DEFINE s == [group[r.jid] EXCEPT !.registered = TRUE]
<1>1. r.jid \in Jids /\ group[r.jid] \in GroupState
  BY GroupOf DEF Slots, Good, Run
<1>2. s.active = group[r.jid].active /\ (Waits(s) => Waits(group[r.jid]))
  BY <1>1 DEF GroupState, Waits
<1>3. group' = [group EXCEPT ![r.jid] = s] /\ UNCHANGED <<runs, waiting, sweep>>
  BY DEF RegisterProcess
<1>. HIDE DEF s
<1>. QED BY <1>1, <1>2, <1>3, OneGroupWakes

LEMMA InjectMessageWakes ==
  ASSUME Slots, Woken, NEW j \in Jids, NEW marked \in BOOLEAN,
         InjectMessage(j, marked)
  PROVE  Woken'
<1>1. PICK i \in Resolved(j) :
        group' = [group EXCEPT ![i].hasIpcInjectedMessages = @ \/ marked]
  BY DEF InjectMessage
<1>2. i \in Jids /\ group[i] \in GroupState
  BY GroupOf DEF Resolved, Runners, Slots, Good
<1>. DEFINE b == group[i].hasIpcInjectedMessages \/ marked
            s == [group[i] EXCEPT !.hasIpcInjectedMessages = b]
<1>3. group' = [group EXCEPT ![i] = s] /\ UNCHANGED <<runs, waiting, sweep>>
  BY <1>1 DEF InjectMessage
<1>. HIDE DEF b
<1>4. s.active = group[i].active /\ (Waits(s) => Waits(group[i]))
  BY <1>2 DEF GroupState, Waits
<1>. HIDE DEF s
<1>. QED BY <1>2, <1>3, <1>4, OneGroupWakes

\* Who runs may lose the timer that covered its messages: its end drains them.
LEMMA InterruptQueryWakes ==
  ASSUME Slots, Woken, NEW j \in Jids, InterruptQuery(j)
  PROVE  Woken'
<1>1. PICK i \in Resolved(j) : group' = [group EXCEPT ![i].retryTimer = FALSE]
  BY DEF InterruptQuery
<1>2. i \in Jids /\ group[i] \in GroupState /\ group[i].active
  BY GroupOf DEF Resolved, Runners, Slots, Good
<1>. DEFINE s == [group[i] EXCEPT !.retryTimer = FALSE]
<1>3. group' = [group EXCEPT ![i] = s] /\ UNCHANGED <<runs, waiting, sweep>>
  BY <1>1 DEF InterruptQuery
<1>4. s.active = group[i].active
  BY <1>2 DEF GroupState
<1>. HIDE DEF s
<1>. QED BY <1>2, <1>3, <1>4, OneGroupWakes

LEMMA RequestGracefulRestartWakes ==
  ASSUME Slots, Woken, NEW j \in Jids, RequestGracefulRestart(j)
  PROVE  Woken'
<1>. DEFINE s == [group[j] EXCEPT !.pendingMessages = TRUE]
<1>1. group[j] \in GroupState /\ group[j].active
  BY GroupOf DEF Slots, RequestGracefulRestart
<1>2. s.active = group[j].active
  BY <1>1 DEF GroupState
<1>3. group' = [group EXCEPT ![j] = s] /\ UNCHANGED <<runs, waiting, sweep>>
  BY DEF RequestGracefulRestart
<1>. HIDE DEF s
<1>. QED BY <1>1, <1>2, <1>3, OneGroupWakes

LEMMA RestartBeginsWakes ==
  ASSUME Slots, Woken, NEW j \in Jids, RestartBegins(j)
  PROVE  Woken'
<1>. DEFINE t == TargetOf(j)
            s == [group[t] EXCEPT !.restarting = TRUE]
<1>1. t \in Jids /\ group[t] \in GroupState
  BY TargetType, GroupOf DEF Slots
<1>2. s.active = group[t].active /\ (Waits(s) => Waits(group[t]))
  BY <1>1 DEF GroupState, Waits
<1>3. group' = [group EXCEPT ![t] = s] /\ UNCHANGED <<runs, waiting, sweep>>
  BY DEF RestartBegins
<1>. HIDE DEF s, t
<1>. QED BY <1>1, <1>2, <1>3, OneGroupWakes

LEMMA WokenUnchanged ==
  ASSUME Woken, UNCHANGED <<group, runs, waiting, sweep>>
  PROVE  Woken'
BY DEF Woken

-----------------------------------------------------------------------------
(* Every step without the stop button.                                     *)

\* Nobody stops a group; what Woken says holds until shutdown.
UInv == LInv /\ stopped = {} /\ (~shuttingDown => Woken)

LEMMA InitUInv == ASSUME Init PROVE UInv
<1>1. LInv
  BY InitLInv
<1>2. Woken
  BY DEF Init, Woken, Waits, FreshGroup
<1>3. stopped = {}
  BY DEF Init
<1>. QED BY <1>1, <1>2, <1>3 DEF UInv

LEMMA ArrivalWakes ==
  ASSUME Slots, Keyed, Woken, Arrival
  PROVE  Woken'
<1>1. CASE \E j \in ChatJids, u \in Initiators \cup {NoUser}, w \in WriteOutcomes :
             EnqueueMessageCheck(j, u, w)
  <2>1. PICK j \in Jids, u \in Initiators \cup {NoUser}, w \in WriteOutcomes :
               MessageCheck(j, u, group, count, w)
    BY <1>1, ChatJidsAreJids DEF EnqueueMessageCheck
  <2>. QED BY <2>1, WokenPlaced, MessageCheckWakes, WokeWoken DEF Keyed
<1>2. CASE \E t \in TaskIds : EnqueueTask(t)
  BY <1>2, EnqueueTaskWakes
<1>3. CASE \E j \in ChatJids, m \in BOOLEAN : InjectMessage(j, m)
  BY <1>3, ChatJidsAreJids, InjectMessageWakes
<1>4. CASE \E j \in AgentJids : InjectMessage(j, FALSE)
  BY <1>4, JidsAssumption, InjectMessageWakes
<1>5. CASE \E j \in ChatJids : RequestGracefulRestart(j)
  BY <1>5, ChatJidsAreJids, RequestGracefulRestartWakes
<1>6. CASE \E j \in ChatJids, w \in WriteOutcomes : RestartIdle(j, w)
  <2>1. PICK j \in Jids, w \in WriteOutcomes : MessageCheck(j, NoUser, group, count, w)
    BY <1>6, ChatJidsAreJids DEF RestartIdle
  <2>. QED BY <2>1, WokenPlaced, MessageCheckWakes, WokeWoken DEF Keyed
<1>7. CASE \E j \in ChatJids : RestartBegins(j)
  BY <1>7, ChatJidsAreJids, RestartBeginsWakes
<1>. QED BY <1>1, <1>2, <1>3, <1>4, <1>5, <1>6, <1>7 DEF Arrival

LEMMA EnvironmentWakes ==
  ASSUME Slots, Woken, Environment
  PROVE  shuttingDown' \/ Woken'
<1>1. CASE \E j \in Jids : ConsumeIpc(j)
  BY <1>1, WokenUnchanged DEF ConsumeIpc
<1>2. CASE \E j \in Jids : InterruptQuery(j)
  BY <1>2, InterruptQueryWakes
<1>3. CASE \E f \in ModeFolders : ChangeMode(f)
  BY <1>3, WokenUnchanged DEF ChangeMode
<1>4. CASE \E t \in DbTasks : ToggleTask(t)
  BY <1>4, WokenUnchanged DEF ToggleTask
<1>5. CASE Shutdown
  BY <1>5 DEF Shutdown
<1>. QED BY <1>1, <1>2, <1>3, <1>4, <1>5 DEF Environment

LEMMA ProgressWakes ==
  ASSUME Slots, EnvOK, Keyed, Woken, stopped = {}, ~shuttingDown, Progress
  PROVE  Woken'
<1>1. CASE \E j \in Jids : SweepStep(j)
  BY <1>1, SweepStepWakes
<1>2. CASE \E r \in runs : RegisterProcess(r)
  BY <1>2, RegisterProcessWakes
<1>3. CASE \E r \in runs : FinishTask(r)
  BY <1>3, FinishTaskWakes
<1>4. CASE \E r \in runs, ok \in BOOLEAN : FinishMessages(r, ok)
  BY <1>4, FinishMessagesWakes
<1>5. CASE \E j \in ChatJids, w \in WriteOutcomes : RetryTimerFires(j, w)
  BY <1>5, ChatJidsAreJids, RetryTimerFiresWakes
<1>6. CASE \E call \in restarts, w \in WriteOutcomes : RestartEnds(call, w)
  BY <1>6, RestartEndsWakes
<1>. QED BY <1>1, <1>2, <1>3, <1>4, <1>5, <1>6 DEF Progress

\* Only stopGroup opens a stop window; a process that shuts down does not stop.
LEMMA UndisturbedFrame ==
  ASSUME UndisturbedNext
  PROVE  stopped' = stopped /\ (shuttingDown => shuttingDown')
<1>1. CASE Arrival
  <2>1. CASE \E j \in ChatJids, u \in Initiators \cup {NoUser}, w \in WriteOutcomes :
               EnqueueMessageCheck(j, u, w)
    BY <2>1 DEF EnqueueMessageCheck, env
  <2>2. CASE \E t \in TaskIds : EnqueueTask(t)
    BY <2>2 DEF EnqueueTask, env
  <2>3. CASE \E j \in ChatJids, m \in BOOLEAN : InjectMessage(j, m)
    BY <2>3 DEF InjectMessage
  <2>4. CASE \E j \in AgentJids : InjectMessage(j, FALSE)
    BY <2>4 DEF InjectMessage
  <2>5. CASE \E j \in ChatJids : RequestGracefulRestart(j)
    BY <2>5 DEF RequestGracefulRestart, env
  <2>6. CASE \E j \in ChatJids, w \in WriteOutcomes : RestartIdle(j, w)
    BY <2>6 DEF RestartIdle, env
  <2>7. CASE \E j \in ChatJids : RestartBegins(j)
    BY <2>7 DEF RestartBegins
  <2>. QED BY <1>1, <2>1, <2>2, <2>3, <2>4, <2>5, <2>6, <2>7 DEF Arrival
<1>2. CASE Environment
  BY <1>2 DEF Environment, ConsumeIpc, InterruptQuery, ChangeMode, ToggleTask,
     Shutdown, env
<1>3. CASE Progress
  <2>1. CASE \E j \in Jids : SweepStep(j)
    BY <2>1 DEF SweepStep, env
  <2>2. CASE \E r \in runs : RegisterProcess(r)
    BY <2>2 DEF RegisterProcess, env
  <2>3. CASE \E r \in runs : FinishTask(r)
    BY <2>3 DEF FinishTask, env
  <2>4. CASE \E r \in runs, ok \in BOOLEAN : FinishMessages(r, ok)
    BY <2>4 DEF FinishMessages, env
  <2>5. CASE \E j \in ChatJids, w \in WriteOutcomes : RetryTimerFires(j, w)
    BY <2>5 DEF RetryTimerFires, env
  <2>6. CASE \E call \in restarts, w \in WriteOutcomes : RestartEnds(call, w)
    BY <2>6 DEF RestartEnds
  <2>. QED BY <1>3, <2>1, <2>2, <2>3, <2>4, <2>5, <2>6 DEF Progress
<1>. QED BY <1>1, <1>2, <1>3 DEF UndisturbedNext

LEMMA UndisturbedInductive == UInv /\ [UndisturbedNext]_vars => UInv'
<1>. SUFFICES ASSUME UInv, [UndisturbedNext]_vars PROVE UInv'
  OBVIOUS
<1>1. LInv'
  BY LocalInductive DEF UInv, LocalNext
<1>2. Slots /\ EnvOK /\ Keyed
  BY IInvParts DEF UInv, LInv
<1>3. CASE UndisturbedNext
  <2>1. stopped' = {} /\ (shuttingDown => shuttingDown')
    BY <1>3, UndisturbedFrame DEF UInv
  <2>2. ~shuttingDown => shuttingDown' \/ Woken'
    BY <1>2, <1>3, ArrivalWakes, EnvironmentWakes, ProgressWakes
       DEF UndisturbedNext, UInv
  <2>. QED BY <1>1, <2>1, <2>2 DEF UInv
<1>4. CASE UNCHANGED vars
  BY <1>1, <1>4, WokenUnchanged DEF UInv, vars
<1>. QED BY <1>3, <1>4

\* Without the stop button no wakeup is lost, for any JIDs, limits and quotas:
\* whatever order enqueues, drains, retries, restarts and failures come in, work
\* that does not run is in waitingGroups while a run is in flight, and the last
\* run to end hands the whole set to drainWaiting.
THEOREM NoWakeupLost == UndisturbedSpec => []QueuedWorkHasWaker
<1>1. UInv => QueuedWorkHasWaker
  BY DEF UInv, Woken, Waits, QueuedWorkHasWaker, Queued
<1>. QED BY <1>1, InitUInv, UndisturbedInductive, PTL DEF UndisturbedSpec
=============================================================================
