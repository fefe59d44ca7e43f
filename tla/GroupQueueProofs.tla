-------------------------- MODULE GroupQueueProofs --------------------------
(***************************************************************************)
(* Theorems about GroupQueue.                                               *)
(***************************************************************************)
EXTENDS GroupQueue, FiniteSetTheorems, SequenceTheorems, WellFoundedInduction,
        TLAPS

Groups == [Jids -> GroupState]
Counts == [all : Int, container : Int, host : Int]

-----------------------------------------------------------------------------
(* Typing of the helpers.                                                  *)

\* A set of startable positions has a first one.
LEMMA FirstStartable ==
  ASSUME NEW q \in Seq(TaskIds), StartableTasks(q) # {}
  PROVE  \E i \in StartableTasks(q) : \A k \in StartableTasks(q) : i <= k
<1>1. StartableTasks(q) \subseteq Nat
  BY LenProperties DEF StartableTasks
<1>2. PICK i \in StartableTasks(q) :
        \A k \in StartableTasks(q) : ~(<<k, i>> \in OpToRel(<, Nat))
  <2>. DEFINE R == OpToRel(<, Nat)  T == StartableTasks(q)
  <2>1. IsWellFoundedOn(R, Nat)
    BY NatLessThanWellFounded
  <2>2. T \subseteq Nat /\ T # {}
    BY <1>1
  <2>. HIDE DEF R, T
  <2>3. \E i \in T : \A k \in T : ~(<<k, i>> \in R)
    BY <2>1, <2>2, WFMin
  <2>. QED BY <2>3 DEF R, T
<1>3. \A k \in StartableTasks(q) : ~(k < i)
  BY <1>1, <1>2 DEF OpToRel
<1>. QED BY <1>1, <1>3

\* Shifting stale tasks and the first startable one leaves a queue.
LEMMA AfterFirstStartableType ==
  ASSUME NEW q \in Seq(TaskIds), StartableTasks(q) # {}
  PROVE  AfterFirstStartable(q) \in Seq(TaskIds)
<1>. DEFINE first == CHOOSE i \in StartableTasks(q) :
                        \A k \in StartableTasks(q) : i <= k
<1>1. first \in StartableTasks(q)
  BY FirstStartable
<1>2. first \in 1 .. Len(q)
  BY <1>1, LenProperties DEF StartableTasks
<1>3. \A i \in first + 1 .. Len(q) : q[i] \in TaskIds
  BY <1>2, LenProperties, ElementOfSeq
<1>4. first + 1 \in Int /\ Len(q) \in Int
  BY <1>2, LenProperties
<1>. HIDE DEF first
<1>5. SubSeq(q, first + 1, Len(q)) \in Seq(TaskIds)
  BY <1>3, <1>4, SubSeqProperties
<1>. QED BY <1>5 DEF AfterFirstStartable, first

\* What the end of a run makes of a GroupState is a GroupState.
LEMMA ExitTypes ==
  ASSUME NEW s \in GroupState
  PROVE  /\ Exited(s) \in GroupState
         /\ MessagesExited(s) \in GroupState
         /\ RetryCleared(s) \in GroupState
         /\ RetryScheduled(s) \in GroupState
<1>1. Exited(s) \in GroupState
  BY DEF Exited, GroupState
<1>2. MessagesExited(s) \in GroupState
  BY <1>1 DEF MessagesExited, GroupState
<1>. DEFINE Counts0 == 0 .. MaxRetries
<1>3. /\ 0 \in Counts0
      /\ \A n \in Counts0 : ~(n + 1 > MaxRetries) => n + 1 \in Counts0
  BY LimitsAssumption
<1>4. RetryCleared(s) \in GroupState
  <2>1. s \in GroupState /\ 0 \in Counts0
    BY <1>3
  <2>. HIDE DEF Counts0
  <2>. QED BY <2>1 DEF RetryCleared, GroupState, Counts0
<1>5. RetryScheduled(s) \in GroupState
  <2>1. CASE s.retryCount + 1 > MaxRetries
    <3>1. RetryScheduled(s) = RetryCleared(s)
      BY <2>1 DEF RetryScheduled, RetryCleared
    <3>. QED BY <3>1, <1>4
  <2>2. CASE ~(s.retryCount + 1 > MaxRetries)
    <3>1. s.retryCount + 1 \in Counts0
      BY <1>3, <2>2 DEF GroupState
    <3>. QED BY <2>2, <3>1 DEF RetryScheduled, GroupState
  <2>. QED BY <2>1, <2>2
<1>. QED BY <1>1, <1>2, <1>4, <1>5

LEMMA FreshGroupType == FreshGroup \in GroupState
BY LimitsAssumption DEF FreshGroup, GroupState

-----------------------------------------------------------------------------
(* The slot invariant.  Good(g, c, rs) says of groups g, counters c and      *)
(* in-flight runs rs, the values a handler has reached, what the invariant   *)
(* says of the variables.                                                    *)

HostRuns(rs, host) == {r \in rs : r.host = host}

Good(g, c, rs) ==
  /\ g \in Groups /\ c \in Counts /\ rs \in SUBSET Run
  /\ IsFiniteSet(rs)
  /\ c.container = Cardinality(HostRuns(rs, FALSE))
  /\ c.host = Cardinality(HostRuns(rs, TRUE))
  /\ c.container <= MaxContainers
  /\ c.host <= MaxHostProcesses

Slots ==
  /\ Good(group, count, runs)
  /\ waiting \in SUBSET Jids
  /\ sweep \in SUBSET Jids

LEMMA LimitTypes == MaxContainers \in Nat /\ MaxHostProcesses \in Nat
BY LimitsAssumption

\* A start adds one run to the counter of its mode.
LEMMA OccupyGood ==
  ASSUME NEW j \in Jids, NEW kind \in {"messages", "task"},
         NEW g, NEW c, NEW rs, NEW g0,
         Good(g, c, rs), waiting \in SUBSET Jids,
         HasCapacityFor(j, g0, c),
         Occupy(j, kind, g, c, rs)
  PROVE  Good(group', count', runs') /\ waiting' \in SUBSET Jids
<1>. DEFINE host == IsHost(j)
            no == CHOOSE n \in FreshNos(j, rs) : TRUE
            new == [jid |-> j, no |-> no, kind |-> kind, host |-> host]
<1>0. c.all \in Int /\ c.container \in Int /\ c.host \in Int
  <2>1. c \in Counts
    BY DEF Good
  <2>. QED BY <2>1 DEF Counts
<1>1. host \in BOOLEAN
  BY DEF IsHost
<1>2. no \in RunNos /\ new \notin rs
  <2>1. no \in FreshNos(j, rs)
    BY DEF Occupy
  <2>2. no \in RunNos /\ \A r \in rs : r.jid = j => r.no # no
    BY <2>1 DEF FreshNos
  <2>. QED BY <2>2
<1>. HIDE DEF no
<1>3. new \in Run
  BY <1>1, <1>2 DEF Run
<1>4. group' \in Groups
  <2>1. group' = [g EXCEPT ![j] = Started(g[j], kind)]
    BY DEF Occupy
  <2>2. g \in [Jids -> GroupState] /\ g[j] \in GroupState
    BY DEF Good, Groups
  <2>3. Started(g[j], kind) \in GroupState
    BY <2>2 DEF Started, GroupState
  <2>. QED BY <2>1, <2>2, <2>3 DEF Groups
<1>5. runs' = rs \cup {new} /\ runs' \in SUBSET Run /\ IsFiniteSet(runs')
  <2>1. runs' = rs \cup {new}
    BY DEF Occupy, no
  <2>2. IsFiniteSet(rs) /\ rs \in SUBSET Run
    BY DEF Good
  <2>. HIDE DEF new
  <2>. QED BY <1>3, <2>1, <2>2, FS_AddElement
<1>6. \A h \in BOOLEAN :
        Cardinality(HostRuns(runs', h)) =
          Cardinality(HostRuns(rs, h)) + (IF h = host THEN 1 ELSE 0)
  <2>. TAKE h \in BOOLEAN
  <2>1. IsFiniteSet(HostRuns(rs, h)) /\ new \notin HostRuns(rs, h)
    BY <1>2, FS_Subset DEF Good, HostRuns
  <2>2. CASE h = host
    <3>1. HostRuns(runs', h) = HostRuns(rs, h) \cup {new}
      BY <1>5, <2>2 DEF HostRuns
    <3>. HIDE DEF new
    <3>. QED BY <2>1, <2>2, <3>1, FS_AddElement
  <2>3. CASE h # host
    <3>1. HostRuns(runs', h) = HostRuns(rs, h)
      BY <1>5, <2>3 DEF HostRuns
    <3>2. Cardinality(HostRuns(rs, h)) \in Nat
      BY <2>1, FS_CardinalityType
    <3>. QED BY <2>3, <3>1, <3>2
  <2>. QED BY <2>2, <2>3
<1>7. count' = [all |-> c.all + 1,
                container |-> c.container + (IF host THEN 0 ELSE 1),
                host |-> c.host + (IF host THEN 1 ELSE 0)]
  BY DEF Occupy
<1>8. IF host THEN c.host < MaxHostProcesses ELSE c.container < MaxContainers
  BY DEF HasCapacityFor
<1>9. count' \in Counts
  <2>1. c.all + 1 \in Int /\ c.container \in Int /\ c.host \in Int
    BY <1>0
  <2>2. /\ c.container + (IF host THEN 0 ELSE 1) \in Int
        /\ c.host + (IF host THEN 1 ELSE 0) \in Int
    BY <2>1
  <2>. QED BY <1>7, <2>1, <2>2 DEF Counts
<1>10. /\ count'.container = Cardinality(HostRuns(runs', FALSE))
       /\ count'.host = Cardinality(HostRuns(runs', TRUE))
  BY <1>1, <1>6, <1>7 DEF Good, Counts
<1>11. count'.container <= MaxContainers /\ count'.host <= MaxHostProcesses
  <2>1. /\ c.container \in Int /\ c.container <= MaxContainers
        /\ c.host \in Int /\ c.host <= MaxHostProcesses
        /\ MaxContainers \in Int /\ MaxHostProcesses \in Int
    <3>1. c.container <= MaxContainers /\ c.host <= MaxHostProcesses
      BY DEF Good
    <3>. QED BY <1>0, <3>1, LimitTypes
  <2>2. CASE host
    BY <1>7, <1>8, <2>1, <2>2
  <2>3. CASE ~host
    BY <1>7, <1>8, <2>1, <2>3
  <2>. QED BY <2>2, <2>3
<1>12. waiting' \in SUBSET Jids
  BY DEF Occupy
<1>. QED BY <1>4, <1>5, <1>9, <1>10, <1>11, <1>12 DEF Good

\* Changing one group to another GroupState keeps the values good.
LEMMA GoodExcept ==
  ASSUME NEW j \in Jids, NEW s \in GroupState, NEW g, NEW c, NEW rs,
         Good(g, c, rs)
  PROVE  Good([g EXCEPT ![j] = s], c, rs)
BY DEF Good, Groups

LEMMA GoodGroups ==
  ASSUME NEW g, NEW c, NEW rs, Good(g, c, rs), NEW h \in Groups
  PROVE  Good(h, c, rs)
BY DEF Good

LEMMA GroupOf ==
  ASSUME NEW g, NEW c, NEW rs, Good(g, c, rs), NEW j \in Jids
  PROVE  g[j] \in GroupState
BY DEF Good, Groups

LEMMA DrainedType ==
  ASSUME NEW g \in Groups, NEW j \in Jids, NEW wrote
  PROVE  Drained(j, g, wrote) \in Groups
<1>. SUFFICES ASSUME NEW i \in Jids
              PROVE  Drained(j, g, wrote)[i] \in GroupState
  BY DEF Drained, Groups
<1>1. g[i] \in GroupState
  BY DEF Groups
<1>2. [g[i] EXCEPT !.drainSentinelWritten = TRUE] \in GroupState
  BY <1>1 DEF GroupState
<1>. QED BY <1>1, <1>2 DEF Drained

LEMMA NoTasksType ==
  ASSUME NEW s \in GroupState
  PROVE  [s EXCEPT !.pendingTasks = <<>>] \in GroupState
<1>. DEFINE none == <<>>
<1>1. none \in Seq(TaskIds)
  OBVIOUS
<1>. HIDE DEF none
<1>2. [s EXCEPT !.pendingTasks = none] \in GroupState
  BY <1>1 DEF GroupState
<1>. QED BY <1>2 DEF none

\* enqueueMessageCheck keeps the slots.
LEMMA MessageCheckGood ==
  ASSUME NEW j \in Jids, NEW user \in Initiators \cup {NoUser},
         NEW g, NEW c, NEW wrote,
         Good(g, c, runs), waiting \in SUBSET Jids,
         MessageCheck(j, user, g, c, wrote)
  PROVE  Good(group', count', runs') /\ waiting' \in SUBSET Jids
<1>. DEFINE asked == IF user = NoUser THEN g
                     ELSE [g EXCEPT ![j].currentRunInitiator = user]
<1>0. g[j] \in GroupState /\ g \in Groups
  BY GroupOf DEF Good
<1>1. Good(asked, c, runs)
  <2>1. [g[j] EXCEPT !.currentRunInitiator = user] \in GroupState
    BY <1>0 DEF GroupState
  <2>. QED BY <2>1, GoodExcept
<1>. HIDE DEF asked
<1>2. \A h : Good(h, c, runs) => Good([h EXCEPT ![j].pendingMessages = TRUE], c, runs)
  <2>. SUFFICES ASSUME NEW h, Good(h, c, runs)
                PROVE  Good([h EXCEPT ![j].pendingMessages = TRUE], c, runs)
    OBVIOUS
  <2>1. [h[j] EXCEPT !.pendingMessages = TRUE] \in GroupState
    BY GroupOf DEF GroupState
  <2>. QED BY <2>1, GoodExcept
<1>3. CASE Park(j, Drained(j, [g EXCEPT ![j].pendingMessages = TRUE], wrote), c, runs)
  <2>1. Drained(j, [g EXCEPT ![j].pendingMessages = TRUE], wrote) \in Groups
    BY <1>2, DrainedType DEF Good
  <2>. QED BY <1>3, <2>1, GoodGroups DEF Park
<1>4. CASE Park(j, [asked EXCEPT ![j].pendingMessages = TRUE], c, runs)
  BY <1>1, <1>2, <1>4 DEF Park
<1>5. CASE HasCapacityFor(j, g, c) /\ RunForGroup(j, asked, c, runs)
  <2>1. [asked[j] EXCEPT !.pendingMessages = FALSE] \in GroupState
    BY <1>1, GroupOf DEF GroupState
  <2>2. Good([asked EXCEPT ![j].pendingMessages = FALSE], c, runs)
    BY <1>1, <2>1, GoodExcept
  <2>. QED BY <1>5, <2>2, OccupyGood DEF RunForGroup
<1>. QED BY <1>3, <1>4, <1>5 DEF MessageCheck, asked

\* A queued task or pending messages start with the capacity just checked.
LEMMA StartPendingGood ==
  ASSUME NEW j \in Jids, NEW g, NEW c, NEW rs, NEW g0,
         Good(g, c, rs), waiting \in SUBSET Jids,
         HasCapacityFor(j, g0, c),
         StartPending(j, g, c, rs)
  PROVE  Good(group', count', runs') /\ waiting' \in SUBSET Jids
<1>0. g[j] \in GroupState /\ g[j].pendingTasks \in Seq(TaskIds)
  BY GroupOf DEF GroupState
<1>1. CASE /\ StartableTasks(g[j].pendingTasks) # {}
           /\ RunTask(j, [g EXCEPT ![j].pendingTasks = AfterFirstStartable(@)], c, rs)
  <2>. DEFINE rest == AfterFirstStartable(g[j].pendingTasks)
  <2>1. rest \in Seq(TaskIds)
    BY <1>0, <1>1, AfterFirstStartableType
  <2>2. [g EXCEPT ![j].pendingTasks = AfterFirstStartable(@)]
          = [g EXCEPT ![j] = [g[j] EXCEPT !.pendingTasks = rest]]
    OBVIOUS
  <2>. HIDE DEF rest
  <2>3. [g[j] EXCEPT !.pendingTasks = rest] \in GroupState
    BY <1>0, <2>1 DEF GroupState
  <2>4. Good([g EXCEPT ![j].pendingTasks = AfterFirstStartable(@)], c, rs)
    BY <2>2, <2>3, GoodExcept
  <2>. QED BY <1>1, <2>4, OccupyGood DEF RunTask
<1>2. CASE RunForGroup(j, [g EXCEPT ![j].pendingTasks = <<>>], c, rs)
  <2>. DEFINE h == [g EXCEPT ![j].pendingTasks = <<>>]
  <2>1. [g[j] EXCEPT !.pendingTasks = <<>>] \in GroupState
    BY <1>0, NoTasksType
  <2>2. Good(h, c, rs)
    BY <2>1, GoodExcept
  <2>. HIDE DEF h
  <2>3. [h[j] EXCEPT !.pendingMessages = FALSE] \in GroupState
    BY <2>2, GroupOf DEF GroupState
  <2>4. Good([h EXCEPT ![j].pendingMessages = FALSE], c, rs)
    BY <2>2, <2>3, GoodExcept
  <2>5. RunForGroup(j, h, c, rs)
    BY <1>2 DEF h
  <2>. QED BY <2>4, <2>5, OccupyGood DEF RunForGroup
<1>. QED BY <1>1, <1>2 DEF StartPending

\* A finished run gives its slot back.
LEMMA ReleasedGood ==
  ASSUME NEW r \in runs, NEW g \in Groups, Good(group, count, runs)
  PROVE  Good(g, Released(r), runs \ {r})
<1>. DEFINE c == Released(r)  rs == runs \ {r}
<1>1. r \in Run /\ r.host \in BOOLEAN /\ rs \in SUBSET Run
  BY DEF Good, Run
<1>2. count.all \in Int /\ count.container \in Int /\ count.host \in Int
  BY DEF Good, Counts
<1>3. c = [all |-> count.all - 1,
           container |-> count.container - (IF r.host THEN 0 ELSE 1),
           host |-> count.host - (IF r.host THEN 1 ELSE 0)]
  BY DEF Released
<1>4. c \in Counts
  <2>1. /\ count.all - 1 \in Int
        /\ count.container - (IF r.host THEN 0 ELSE 1) \in Int
        /\ count.host - (IF r.host THEN 1 ELSE 0) \in Int
    BY <1>1, <1>2
  <2>. QED BY <1>3, <2>1 DEF Counts
<1>5. IsFiniteSet(rs)
  BY FS_RemoveElement DEF Good
<1>6. \A h \in BOOLEAN :
        Cardinality(HostRuns(rs, h)) =
          Cardinality(HostRuns(runs, h)) - (IF h = r.host THEN 1 ELSE 0)
  <2>. TAKE h \in BOOLEAN
  <2>1. IsFiniteSet(HostRuns(runs, h)) /\ Cardinality(HostRuns(runs, h)) \in Nat
    BY FS_Subset, FS_CardinalityType DEF Good, HostRuns
  <2>2. CASE h = r.host
    <3>1. HostRuns(rs, h) = HostRuns(runs, h) \ {r} /\ r \in HostRuns(runs, h)
      BY <2>2 DEF HostRuns
    <3>. QED BY <2>1, <2>2, <3>1, FS_RemoveElement
  <2>3. CASE h # r.host
    <3>1. HostRuns(rs, h) = HostRuns(runs, h)
      BY <2>3 DEF HostRuns
    <3>. QED BY <2>1, <2>3, <3>1
  <2>. QED BY <2>2, <2>3
<1>7. /\ c.container = Cardinality(HostRuns(rs, FALSE))
      /\ c.host = Cardinality(HostRuns(rs, TRUE))
  <2>1. /\ count.container = Cardinality(HostRuns(runs, FALSE))
        /\ count.host = Cardinality(HostRuns(runs, TRUE))
    BY DEF Good
  <2>2. /\ c.container = count.container - (IF r.host THEN 0 ELSE 1)
        /\ c.host = count.host - (IF r.host THEN 1 ELSE 0)
    BY <1>3
  <2>. HIDE DEF c, rs
  <2>3. CASE r.host = TRUE
    BY <1>2, <1>6, <2>1, <2>2, <2>3
  <2>4. CASE r.host = FALSE
    BY <1>2, <1>6, <2>1, <2>2, <2>4
  <2>. QED BY <1>1, <2>3, <2>4
<1>8. c.container <= MaxContainers /\ c.host <= MaxHostProcesses
  <2>1. count.container <= MaxContainers /\ count.host <= MaxHostProcesses
    BY DEF Good
  <2>. QED BY <1>1, <1>2, <1>3, <2>1, LimitTypes
<1>. HIDE DEF c, rs
<1>9. Good(g, c, rs)
  BY <1>1, <1>4, <1>5, <1>7, <1>8 DEF Good
<1>. QED BY <1>9 DEF c, rs

LEMMA CollectedType ==
  ASSUME NEW j \in Jids, NEW g \in Groups
  PROVE  Collected(j, g) \in Groups
<1>. DEFINE s == [g[j] EXCEPT !.pendingTasks = <<>>]
<1>1. s \in GroupState
  BY NoTasksType DEF Groups
<1>. HIDE DEF s
<1>2. \A b \in BOOLEAN : (IF b THEN FreshGroup ELSE s) \in GroupState
  BY <1>1, FreshGroupType
<1>3. PICK t \in GroupState : Collected(j, g) = [g EXCEPT ![j] = t]
  BY <1>1, FreshGroupType DEF Collected, s
<1>. QED BY <1>3 DEF Groups

\* drainGroup keeps the slots.
LEMMA DrainGroupGood ==
  ASSUME NEW j \in Jids, NEW g, NEW c, NEW rs,
         Good(g, c, rs), waiting \in SUBSET Jids, sweep \in SUBSET Jids,
         DrainGroup(j, g, c, rs)
  PROVE  /\ Good(group', count', runs')
         /\ waiting' \in SUBSET Jids /\ sweep' \in SUBSET Jids
<1>1. CASE /\ group' = g /\ runs' = rs /\ count' = c
           /\ UNCHANGED <<waiting, sweep>>
  BY <1>1
<1>2. CASE Park(j, g, c, rs) /\ UNCHANGED sweep
  BY <1>2 DEF Park
<1>3. CASE /\ HasCapacityFor(j, g, c)
           /\ StartPending(j, g, c, rs)
           /\ UNCHANGED sweep
  BY <1>3, StartPendingGood
<1>4. CASE /\ group' = Collected(j, g) /\ runs' = rs /\ count' = c
           /\ waiting' = waiting \ {j}
           /\ sweep' = Candidates(j)
  <2>1. Collected(j, g) \in Groups
    BY CollectedType DEF Good
  <2>2. Good(group', count', runs')
    BY <1>4, <2>1, GoodGroups
  <2>. QED BY <1>4, <2>2 DEF Candidates
<1>. QED BY <1>1, <1>2, <1>3, <1>4 DEF DrainGroup

-----------------------------------------------------------------------------
(* Type correctness and the slot counters, for every operation.            *)

IInv == TypeOK /\ Good(group, count, runs)

EnvOK ==
  /\ stopped \in SUBSET Folders
  /\ ipc \in SUBSET Keys
  /\ restarts \in SUBSET [requested : ChatJids, target : Jids]
  /\ hostFolders \in SUBSET Folders
  /\ inactiveTasks \in SUBSET DbTasks
  /\ shuttingDown \in BOOLEAN

LEMMA IInvParts == IInv <=> Slots /\ EnvOK
BY DEF IInv, TypeOK, Slots, EnvOK, Good, Groups, Counts

LEMMA IInvPartsNext == IInv' <=> Slots' /\ EnvOK'
BY DEF IInv, TypeOK, Slots, EnvOK, Good, Groups, Counts

LEMMA ChatJidsAreJids == ChatJids \subseteq Jids
BY DEF ChatJids

LEMMA TargetType == ASSUME NEW j \in Jids PROVE TargetOf(j) \in Jids
<1>1. Runners(j, group) \subseteq Jids
  BY DEF Runners
<1>. QED BY <1>1 DEF TargetOf

LEMMA EnvSame == EnvOK /\ UNCHANGED env => EnvOK'
BY DEF EnvOK, env

LEMMA EnqueueMessageCheckStep ==
  ASSUME Slots, NEW j \in ChatJids, NEW u \in Initiators \cup {NoUser},
         NEW w, EnqueueMessageCheck(j, u, w)
  PROVE  Slots'
BY MessageCheckGood, ChatJidsAreJids DEF EnqueueMessageCheck, Slots

LEMMA EnqueueTaskStep ==
  ASSUME Slots, NEW t \in TaskIds, EnqueueTask(t)
  PROVE  Slots'
<1>. DEFINE j == HomeOf[t]  more == Append(group[j].pendingTasks, t)
<1>1. j \in Jids
  BY PlacementAssumption
<1>2. CASE Park(j, [group EXCEPT ![j].pendingTasks = Append(@, t)], count, runs)
  <2>1. group[j] \in GroupState
    BY <1>1, GroupOf DEF Slots
  <2>2. more \in Seq(TaskIds)
    BY <2>1 DEF GroupState
  <2>. HIDE DEF more
  <2>3. [group[j] EXCEPT !.pendingTasks = more] \in GroupState
    BY <2>1, <2>2 DEF GroupState
  <2>4. Good([group EXCEPT ![j] = [group[j] EXCEPT !.pendingTasks = more]], count, runs)
    BY <1>1, <2>3, GoodExcept DEF Slots
  <2>. QED BY <1>1, <1>2, <2>4 DEF Park, Slots, EnqueueTask, more
<1>3. CASE HasCapacityFor(j, group, count) /\ RunTask(j, group, count, runs)
  BY <1>1, <1>3, OccupyGood DEF RunTask, Slots, EnqueueTask
<1>. QED BY <1>2, <1>3 DEF EnqueueTask

LEMMA SweepStepStep ==
  ASSUME Slots, NEW j \in Jids, SweepStep(j)
  PROVE  Slots'
<1>0. sweep' \in SUBSET Jids
  BY DEF SweepStep, Slots
<1>1. CASE UNCHANGED <<group, runs, count, waiting>>
  BY <1>0, <1>1 DEF Slots
<1>2. CASE HasCapacityFor(j, group, count) /\ StartPending(j, group, count, runs)
  BY <1>0, <1>2, StartPendingGood DEF Slots
<1>3. CASE /\ group' = [group EXCEPT ![j].pendingTasks = <<>>]
           /\ waiting' = waiting \ {j}
           /\ UNCHANGED <<runs, count>>
  <2>1. [group[j] EXCEPT !.pendingTasks = <<>>] \in GroupState
    BY GroupOf, NoTasksType DEF Slots
  <2>2. Good([group EXCEPT ![j] = [group[j] EXCEPT !.pendingTasks = <<>>]], count, runs)
    BY <2>1, GoodExcept DEF Slots
  <2>. QED BY <1>0, <1>3, <2>2 DEF Slots
<1>. QED BY <1>1, <1>2, <1>3 DEF SweepStep

\* An operation that only rewrites one GroupState.
LEMMA OneGroupStep ==
  ASSUME Slots, NEW j \in Jids, NEW s \in GroupState,
         group' = [group EXCEPT ![j] = s],
         UNCHANGED <<runs, count, waiting, sweep>>
  PROVE  Slots'
BY GoodExcept DEF Slots

LEMMA RegisterProcessStep ==
  ASSUME Slots, NEW r \in runs, RegisterProcess(r)
  PROVE  Slots'
<1>1. r.jid \in Jids
  BY DEF Slots, Good, Run
<1>2. [group[r.jid] EXCEPT !.registered = TRUE] \in GroupState
  <2>1. group[r.jid] \in GroupState
    BY <1>1, GroupOf DEF Slots
  <2>. QED BY <2>1 DEF GroupState
<1>. QED BY <1>1, <1>2, OneGroupStep DEF RegisterProcess

LEMMA FinishMessagesStep ==
  ASSUME Slots, NEW r \in runs, NEW ok \in BOOLEAN, FinishMessages(r, ok)
  PROVE  Slots'
<1>. DEFINE j == r.jid
            tried == IF ok THEN RetryCleared(group[j]) ELSE RetryScheduled(group[j])
            rearm == UnreadIpc(j)
                     \/ (group[j].hasIpcInjectedMessages /\ ~StopRequested(j))
            left == [MessagesExited(tried) EXCEPT !.pendingMessages = @ \/ rearm]
            g == [group EXCEPT ![j] = left]
<1>1. j \in Jids /\ group[j] \in GroupState
  BY GroupOf DEF Slots, Good, Run
<1>2. MessagesExited(tried) \in GroupState
  BY <1>1, ExitTypes
<1>3. left \in GroupState
  <2>. DEFINE e == MessagesExited(tried)
  <2>1. (e.pendingMessages \/ rearm) \in BOOLEAN
    OBVIOUS
  <2>. HIDE DEF e, rearm
  <2>2. [e EXCEPT !.pendingMessages = e.pendingMessages \/ rearm] \in GroupState
    BY <1>2, <2>1 DEF GroupState, e
  <2>. QED BY <2>2 DEF e
<1>4. g \in Groups
  BY <1>1, <1>3 DEF Slots, Good, Groups
<1>. HIDE DEF g
<1>5. Good(g, Released(r), runs \ {r})
  BY <1>4, ReleasedGood DEF Slots
<1>6. CASE /\ group' = g /\ count' = Released(r) /\ runs' = runs \ {r}
           /\ UNCHANGED <<waiting, sweep>>
  BY <1>5, <1>6 DEF Slots
<1>7. CASE DrainGroup(j, g, Released(r), runs \ {r})
  BY <1>1, <1>5, <1>7, DrainGroupGood DEF Slots
<1>. QED BY <1>6, <1>7 DEF FinishMessages, g

LEMMA RecoveredType ==
  ASSUME Slots, NEW j \in Jids
  PROVE  Recovered(j) \in GroupState
<1>1. group[j] \in GroupState
  BY GroupOf DEF Slots
<1>2. [group[j] EXCEPT !.pendingMessages = TRUE] \in GroupState
  BY <1>1 DEF GroupState
<1>3. CASE RecoveryIds(j) = {}
  BY <1>1, <1>2, <1>3 DEF Recovered
<1>4. CASE RecoveryIds(j) # {}
  <2>. DEFINE t == CHOOSE i \in RecoveryIds(j) : TRUE
              more == Append(group[j].pendingTasks, t)
  <2>1. t \in TaskIds
    BY <1>4 DEF RecoveryIds
  <2>. HIDE DEF t
  <2>2. more \in Seq(TaskIds)
    BY <1>1, <2>1 DEF GroupState
  <2>. HIDE DEF more
  <2>3. [group[j] EXCEPT !.pendingTasks = more] \in GroupState
    BY <1>1, <2>2 DEF GroupState
  <2>. QED BY <1>1, <1>2, <2>3 DEF Recovered, more, t
<1>. QED BY <1>3, <1>4

LEMMA FinishTaskStep ==
  ASSUME Slots, NEW r \in runs, FinishTask(r)
  PROVE  Slots'
<1>. DEFINE j == r.jid
            e == Exited(Recovered(j))
            left == [e EXCEPT !.activeRunnerIsTask = FALSE]
            g == [group EXCEPT ![j] = left]
<1>1. j \in Jids
  BY DEF Slots, Good, Run
<1>2. e \in GroupState
  BY <1>1, RecoveredType, ExitTypes
<1>3. left \in GroupState
  BY <1>2 DEF GroupState
<1>4. g \in Groups
  BY <1>1, <1>3 DEF Slots, Good, Groups
<1>5. DrainGroup(j, g, Released(r), runs \ {r})
  BY DEF FinishTask
<1>. HIDE DEF g
<1>6. Good(g, Released(r), runs \ {r})
  BY <1>4, ReleasedGood DEF Slots
<1>. QED BY <1>1, <1>5, <1>6, DrainGroupGood DEF Slots

LEMMA RetryTimerFiresStep ==
  ASSUME Slots, NEW j \in Jids, NEW w, RetryTimerFires(j, w)
  PROVE  Slots'
<1>. DEFINE g == [group EXCEPT ![j].retryTimer = FALSE]
<1>1. [group[j] EXCEPT !.retryTimer = FALSE] \in GroupState
  <2>1. group[j] \in GroupState
    BY GroupOf DEF Slots
  <2>. QED BY <2>1 DEF GroupState
<1>2. Good(g, count, runs)
  BY <1>1, GoodExcept DEF Slots
<1>. HIDE DEF g
<1>3. CASE group' = g /\ UNCHANGED <<runs, count, waiting>>
  BY <1>2, <1>3 DEF RetryTimerFires, Slots
<1>4. CASE MessageCheck(j, NoUser, g, count, w)
  BY <1>2, <1>4, MessageCheckGood DEF RetryTimerFires, Slots
<1>. QED BY <1>3, <1>4 DEF RetryTimerFires, g

LEMMA InjectMessageStep ==
  ASSUME Slots, NEW j \in Jids, NEW m \in BOOLEAN, InjectMessage(j, m)
  PROVE  Slots'
<1>1. PICK i \in Resolved(j) :
        group' = [group EXCEPT ![i].hasIpcInjectedMessages = @ \/ m]
  BY DEF InjectMessage
<1>2. i \in Jids
  BY DEF Resolved, Runners
<1>. DEFINE mark == group[i].hasIpcInjectedMessages \/ m
<1>3. mark \in BOOLEAN
  OBVIOUS
<1>. HIDE DEF mark
<1>4. [group[i] EXCEPT !.hasIpcInjectedMessages = mark] \in GroupState
  <2>1. group[i] \in GroupState
    BY <1>2, GroupOf DEF Slots
  <2>. QED BY <1>3, <2>1 DEF GroupState
<1>5. group' = [group EXCEPT ![i] = [group[i] EXCEPT !.hasIpcInjectedMessages = mark]]
  BY <1>1 DEF mark
<1>6. UNCHANGED <<runs, count, waiting, sweep>>
  BY DEF InjectMessage
<1>. QED BY <1>2, <1>4, <1>5, <1>6, OneGroupStep

LEMMA InterruptQueryStep ==
  ASSUME Slots, NEW j \in Jids, InterruptQuery(j)
  PROVE  Slots'
<1>1. PICK i \in Resolved(j) : group' = [group EXCEPT ![i].retryTimer = FALSE]
  BY DEF InterruptQuery
<1>2. i \in Jids
  BY DEF Resolved, Runners
<1>3. [group[i] EXCEPT !.retryTimer = FALSE] \in GroupState
  <2>1. group[i] \in GroupState
    BY <1>2, GroupOf DEF Slots
  <2>. QED BY <2>1 DEF GroupState
<1>. QED BY <1>1, <1>2, <1>3, OneGroupStep DEF InterruptQuery

LEMMA RequestGracefulRestartStep ==
  ASSUME Slots, NEW j \in Jids, RequestGracefulRestart(j)
  PROVE  Slots'
<1>1. [group[j] EXCEPT !.pendingMessages = TRUE] \in GroupState
  <2>1. group[j] \in GroupState
    BY GroupOf DEF Slots
  <2>. QED BY <2>1 DEF GroupState
<1>. QED BY <1>1, OneGroupStep DEF RequestGracefulRestart

LEMMA StopGroupStep ==
  ASSUME Slots, NEW j \in Jids, StopGroup(j)
  PROVE  Slots'
<1>. DEFINE hit == {j, TargetOf(j)}
            h == [i \in Jids |->
                    IF i \in hit
                      THEN [RetryCleared(group[i]) EXCEPT
                              !.pendingMessages = FALSE, !.pendingTasks = <<>>]
                      ELSE group[i]]
<1>1. \A i \in Jids : group[i] \in GroupState
  BY GroupOf DEF Slots
<1>2. \A i \in Jids : [RetryCleared(group[i]) EXCEPT
          !.pendingMessages = FALSE, !.pendingTasks = <<>>] \in GroupState
  <2>. TAKE i \in Jids
  <2>. DEFINE s == [RetryCleared(group[i]) EXCEPT !.pendingMessages = FALSE]
  <2>1. RetryCleared(group[i]) \in GroupState
    BY <1>1, ExitTypes
  <2>2. s \in GroupState
    BY <2>1 DEF GroupState
  <2>. QED BY <2>2, NoTasksType
<1>3. h \in Groups
  <2>. HIDE DEF hit
  <2>. QED BY <1>1, <1>2 DEF Groups
<1>4. group' = h /\ UNCHANGED <<runs, count, sweep>> /\ waiting' = waiting \ hit
  BY DEF StopGroup
<1>. HIDE DEF h, hit
<1>. QED BY <1>3, <1>4, GoodGroups DEF Slots

LEMMA RestartBeginsStep ==
  ASSUME Slots, NEW j \in ChatJids, RestartBegins(j)
  PROVE  Slots'
<1>. DEFINE t == TargetOf(j)
<1>1. t \in Jids
  BY TargetType, ChatJidsAreJids
<1>2. group' = [group EXCEPT ![t].restarting = TRUE]
      /\ UNCHANGED <<runs, count, waiting, sweep>>
  BY DEF RestartBegins
<1>. HIDE DEF t
<1>3. [group[t] EXCEPT !.restarting = TRUE] \in GroupState
  <2>1. group[t] \in GroupState
    BY <1>1, GroupOf DEF Slots
  <2>. QED BY <2>1 DEF GroupState
<1>. QED BY <1>1, <1>2, <1>3, OneGroupStep

LEMMA RestartEndsStep ==
  ASSUME Slots, EnvOK, NEW call \in restarts, NEW w, RestartEnds(call, w)
  PROVE  Slots'
<1>. DEFINE g == [group EXCEPT ![call.target].restarting = FALSE]
<1>1. call.target \in Jids /\ call.requested \in Jids
  BY ChatJidsAreJids DEF EnvOK
<1>2. [group[call.target] EXCEPT !.restarting = FALSE] \in GroupState
  <2>1. group[call.target] \in GroupState
    BY <1>1, GroupOf DEF Slots
  <2>. QED BY <2>1 DEF GroupState
<1>3. Good(g, count, runs)
  BY <1>1, <1>2, GoodExcept DEF Slots
<1>. HIDE DEF g
<1>4. CASE group' = g /\ UNCHANGED <<runs, count, waiting>>
  BY <1>3, <1>4 DEF RestartEnds, Slots
<1>5. CASE MessageCheck(call.requested, NoUser, g, count, w)
  BY <1>1, <1>3, <1>5, MessageCheckGood DEF RestartEnds, Slots
<1>. QED BY <1>4, <1>5 DEF RestartEnds, g

LEMMA RestartIdleStep ==
  ASSUME Slots, NEW j \in ChatJids, NEW w, RestartIdle(j, w)
  PROVE  Slots'
BY MessageCheckGood, ChatJidsAreJids DEF RestartIdle, Slots

\* restartGroup on an unregistered run gives back activeCount only, so the
\* slot counters stay exact although activeCount drifts.
LEMMA RestartUnregisteredStep ==
  ASSUME Slots, NEW j \in ChatJids, NEW w, RestartUnregistered(j, w)
  PROVE  Slots'
<1>. DEFINE t == TargetOf(j)
            s == [group[t] EXCEPT !.active = FALSE, !.restarting = FALSE,
                                  !.pendingMessages = FALSE,
                                  !.drainSentinelWritten = FALSE,
                                  !.hasIpcInjectedMessages = FALSE]
            g == [group EXCEPT ![t] = s]
            all == IF count.all > 0 THEN count.all - 1 ELSE count.all
            c == [count EXCEPT !.all = all]
<1>1. t \in Jids /\ j \in Jids
  BY TargetType, ChatJidsAreJids
<1>2. s \in GroupState
  <2>1. group[t] \in GroupState
    BY <1>1, GroupOf DEF Slots
  <2>. HIDE DEF t
  <2>. QED BY <2>1 DEF GroupState
<1>3. Good(g, count, runs)
  BY <1>1, <1>2, GoodExcept DEF Slots
<1>4. count \in Counts
  BY DEF Slots, Good
<1>5. all \in Int
  BY <1>4 DEF Counts
<1>6. c \in Counts /\ c.container = count.container /\ c.host = count.host
  <2>. HIDE DEF all
  <2>. QED BY <1>4, <1>5 DEF Counts
<1>7. \/ group' = g /\ count' = c /\ UNCHANGED <<runs, waiting>>
      \/ MessageCheck(j, NoUser, g, c, w)
  BY DEF RestartUnregistered
<1>8. UNCHANGED sweep
  BY DEF RestartUnregistered
<1>. HIDE DEF g, c, s, t, all
<1>9. Good(g, c, runs)
  BY <1>3, <1>6 DEF Good
<1>10. CASE group' = g /\ count' = c /\ UNCHANGED <<runs, waiting>>
  BY <1>8, <1>9, <1>10 DEF Slots
<1>11. CASE MessageCheck(j, NoUser, g, c, w)
  BY <1>1, <1>8, <1>9, <1>11, MessageCheckGood DEF Slots
<1>. QED BY <1>7, <1>10, <1>11

LEMMA ShutdownStep ==
  ASSUME Slots, Shutdown
  PROVE  Slots'
<1>. DEFINE h == [j \in Jids |-> RetryCleared(group[j])]
<1>1. \A i \in Jids : RetryCleared(group[i]) \in GroupState
  BY GroupOf, ExitTypes DEF Slots
<1>2. h \in Groups
  BY <1>1 DEF Groups
<1>3. group' = h /\ UNCHANGED <<runs, count, waiting, sweep>>
  BY DEF Shutdown
<1>. HIDE DEF h
<1>. QED BY <1>2, <1>3, GoodGroups DEF Slots
-----------------------------------------------------------------------------
(* The environment variables.                                               *)

LEMMA InjectMessageEnv ==
  ASSUME EnvOK, NEW j \in Jids, NEW m \in BOOLEAN, InjectMessage(j, m)
  PROVE  EnvOK'
<1>1. PICK i \in Resolved(j) : ipc' = ipc \cup {KeyOf[i]}
  BY DEF InjectMessage
<1>2. KeyOf[i] \in Keys
  BY PlacementAssumption DEF Resolved, Runners
<1>. QED BY <1>1, <1>2 DEF InjectMessage, EnvOK

LEMMA ConsumeIpcEnv ==
  ASSUME EnvOK, NEW j \in Jids, ConsumeIpc(j)
  PROVE  EnvOK'
BY DEF ConsumeIpc, EnvOK

LEMMA StopGroupEnv ==
  ASSUME EnvOK, NEW j \in Jids, StopGroup(j)
  PROVE  EnvOK'
<1>1. TargetOf(j) \in Jids
  BY TargetType
<1>2. stopped' \in SUBSET Folders
  BY <1>1, PlacementAssumption DEF StopGroup, EnvOK
<1>. QED BY <1>2 DEF StopGroup, EnvOK

LEMMA RestartBeginsEnv ==
  ASSUME EnvOK, NEW j \in ChatJids, RestartBegins(j)
  PROVE  EnvOK'
<1>1. TargetOf(j) \in Jids
  BY TargetType, ChatJidsAreJids
<1>. QED BY <1>1 DEF RestartBegins, EnvOK

LEMMA RestartEndsEnv ==
  ASSUME EnvOK, NEW call \in restarts, NEW w, RestartEnds(call, w)
  PROVE  EnvOK'
BY DEF RestartEnds, EnvOK

LEMMA ChangeModeEnv ==
  ASSUME EnvOK, NEW f \in ModeFolders, ChangeMode(f)
  PROVE  EnvOK'
BY PlacementAssumption DEF ChangeMode, EnvOK

LEMMA ToggleTaskEnv ==
  ASSUME EnvOK, NEW t \in DbTasks, ToggleTask(t)
  PROVE  EnvOK'
BY DEF ToggleTask, EnvOK

-----------------------------------------------------------------------------
(* The inductive invariant.                                                 *)

LEMMA InitIInv == Init => IInv
<1>. SUFFICES ASSUME Init PROVE IInv
  OBVIOUS
<1>1. group \in Groups
  BY FreshGroupType DEF Init, Groups
<1>2. count \in Counts /\ count.container = 0 /\ count.host = 0
  BY DEF Init, Counts
<1>3. \A h \in BOOLEAN : HostRuns(runs, h) = {}
  BY DEF Init, HostRuns
<1>4. IsFiniteSet(runs) /\ Cardinality({}) = 0 /\ runs \in SUBSET Run
  BY FS_EmptySet DEF Init
<1>5. Good(group, count, runs)
  <2>1. /\ count.container = Cardinality(HostRuns(runs, FALSE))
        /\ count.host = Cardinality(HostRuns(runs, TRUE))
    BY <1>2, <1>3, <1>4
  <2>2. 0 <= MaxContainers /\ 0 <= MaxHostProcesses
    BY LimitTypes
  <2>. QED BY <1>1, <1>2, <1>4, <2>1, <2>2 DEF Good
<1>6. Slots
  BY <1>5 DEF Slots, Init
<1>7. EnvOK
  BY PlacementAssumption DEF EnvOK, Init
<1>. QED BY <1>6, <1>7, IInvParts

LEMMA ArrivalKeeps == IInv /\ Arrival => IInv'
<1>. SUFFICES ASSUME Slots, EnvOK, Arrival PROVE Slots' /\ EnvOK'
  BY IInvParts, IInvPartsNext
<1>1. CASE \E j \in ChatJids, u \in Initiators \cup {NoUser}, w \in WriteOutcomes :
             EnqueueMessageCheck(j, u, w)
  BY <1>1, EnqueueMessageCheckStep, EnvSame DEF EnqueueMessageCheck
<1>2. CASE \E t \in TaskIds : EnqueueTask(t)
  BY <1>2, EnqueueTaskStep, EnvSame DEF EnqueueTask
<1>3. CASE \E j \in ChatJids, m \in BOOLEAN : InjectMessage(j, m)
  BY <1>3, ChatJidsAreJids, InjectMessageStep, InjectMessageEnv
<1>4. CASE \E j \in AgentJids : InjectMessage(j, FALSE)
  BY <1>4, JidsAssumption, InjectMessageStep, InjectMessageEnv
<1>5. CASE \E j \in ChatJids : RequestGracefulRestart(j)
  BY <1>5, ChatJidsAreJids, RequestGracefulRestartStep, EnvSame
     DEF RequestGracefulRestart
<1>6. CASE \E j \in ChatJids, w \in WriteOutcomes : RestartIdle(j, w)
  BY <1>6, RestartIdleStep, EnvSame DEF RestartIdle
<1>7. CASE \E j \in ChatJids : RestartBegins(j)
  BY <1>7, RestartBeginsStep, RestartBeginsEnv
<1>. QED BY <1>1, <1>2, <1>3, <1>4, <1>5, <1>6, <1>7 DEF Arrival

\* An operation that changes environment variables only.
LEMMA EnvironmentOnly ==
  Slots /\ UNCHANGED <<group, runs, count, waiting, sweep>> => Slots'
BY DEF Slots

LEMMA EnvironmentKeeps == IInv /\ Environment => IInv'
<1>. SUFFICES ASSUME Slots, EnvOK, Environment PROVE Slots' /\ EnvOK'
  BY IInvParts, IInvPartsNext
<1>1. CASE \E j \in Jids : ConsumeIpc(j)
  BY <1>1, ConsumeIpcEnv, EnvironmentOnly DEF ConsumeIpc
<1>2. CASE \E j \in Jids : InterruptQuery(j)
  BY <1>2, InterruptQueryStep, EnvSame DEF InterruptQuery
<1>3. CASE \E f \in ModeFolders : ChangeMode(f)
  BY <1>3, ChangeModeEnv, EnvironmentOnly DEF ChangeMode
<1>4. CASE \E t \in DbTasks : ToggleTask(t)
  BY <1>4, ToggleTaskEnv, EnvironmentOnly DEF ToggleTask
<1>5. CASE Shutdown
  <2>1. EnvOK'
    BY <1>5 DEF Shutdown, EnvOK
  <2>. QED BY <1>5, <2>1, ShutdownStep
<1>. QED BY <1>1, <1>2, <1>3, <1>4, <1>5 DEF Environment

LEMMA ProgressKeeps == IInv /\ Progress => IInv'
<1>. SUFFICES ASSUME Slots, EnvOK, Progress PROVE Slots' /\ EnvOK'
  BY IInvParts, IInvPartsNext
<1>1. CASE \E j \in Jids : SweepStep(j)
  BY <1>1, SweepStepStep, EnvSame DEF SweepStep
<1>2. CASE \E r \in runs : RegisterProcess(r)
  BY <1>2, RegisterProcessStep, EnvSame DEF RegisterProcess
<1>3. CASE \E r \in runs : FinishTask(r)
  BY <1>3, FinishTaskStep, EnvSame DEF FinishTask
<1>4. CASE \E r \in runs, ok \in BOOLEAN : FinishMessages(r, ok)
  BY <1>4, FinishMessagesStep, EnvSame DEF FinishMessages
<1>5. CASE \E j \in ChatJids, w \in WriteOutcomes : RetryTimerFires(j, w)
  BY <1>5, ChatJidsAreJids, RetryTimerFiresStep, EnvSame DEF RetryTimerFires
<1>6. CASE \E call \in restarts, w \in WriteOutcomes : RestartEnds(call, w)
  BY <1>6, RestartEndsStep, RestartEndsEnv
<1>. QED BY <1>1, <1>2, <1>3, <1>4, <1>5, <1>6 DEF Progress

LEMMA ControlKeeps ==
  ASSUME IInv,
         \/ \E j \in Jids : StopGroup(j)
         \/ \E f \in Folders : StopWindowEnds(f)
         \/ \E j \in ChatJids, w \in WriteOutcomes : RestartUnregistered(j, w)
  PROVE  IInv'
<1>0. Slots /\ EnvOK
  BY IInvParts
<1>1. CASE \E j \in Jids : StopGroup(j)
  BY <1>0, <1>1, StopGroupStep, StopGroupEnv, IInvParts, IInvPartsNext
<1>2. CASE \E f \in Folders : StopWindowEnds(f)
  <2>1. EnvOK'
    BY <1>0, <1>2 DEF StopWindowEnds, EnvOK
  <2>2. Slots'
    BY <1>0, <1>2, EnvironmentOnly DEF StopWindowEnds
  <2>. QED BY <2>1, <2>2, IInvParts, IInvPartsNext
<1>3. CASE \E j \in ChatJids, w \in WriteOutcomes : RestartUnregistered(j, w)
  BY <1>0, <1>3, RestartUnregisteredStep, EnvSame, IInvParts, IInvPartsNext DEF RestartUnregistered
<1>. QED BY <1>1, <1>2, <1>3

LEMMA Inductive == IInv /\ [Next]_vars => IInv'
<1>. SUFFICES ASSUME IInv, [Next]_vars PROVE IInv'
  OBVIOUS
<1>1. CASE Next
  BY <1>1, ArrivalKeeps, EnvironmentKeeps, ProgressKeeps, ControlKeeps
     DEF Next, LocalNext, UndisturbedNext
<1>2. CASE UNCHANGED vars
  BY <1>2 DEF vars, IInv, TypeOK, Good, HostRuns
<1>. QED BY <1>1, <1>2

LEMMA Invariance == Spec => []IInv
BY InitIInv, Inductive, PTL DEF Spec

\* Every reachable state of the scheduler, with restartGroup on unregistered
\* runs included, is well typed: no handler leaves a GroupState, a run record
\* or a parked JID outside the type the others rely on.
THEOREM TypeCorrect == Spec => []TypeOK
<1>1. IInv => TypeOK
  BY DEF IInv
<1>. QED BY <1>1, Invariance, PTL

\* For every number of JIDs, keys, folders and limits, activeContainerCount and
\* activeHostProcessCount are exactly the numbers of runs in flight, whatever
\* mode changes, stops and restarts happen meanwhile.
THEOREM SlotsExact == Spec => []SlotsMatchRuns
<1>1. IInv => SlotsMatchRuns
  BY DEF IInv, Good, SlotsMatchRuns, RunsOn, HostRuns
<1>. QED BY <1>1, Invariance, PTL

\* For every choice of the limits the runs in flight stay within them: the
\* check in hasCapacityFor at each start is enough, although runs are counted
\* in the mode they were started in.
THEOREM LimitsKept == Spec => []RunsWithinLimits
<1>1. IInv => RunsWithinLimits
  BY DEF IInv, Good, RunsWithinLimits, RunsOn, HostRuns
<1>. QED BY <1>1, Invariance, PTL
-----------------------------------------------------------------------------
(* One run per serialization key, in single-process operation.  Tight adds   *)
(* to Good that a group is active exactly while a run of it is in flight,    *)
(* that runs in flight have different keys, and that activeCount is exact.   *)

ActiveIffRunning(g, rs) ==
  \A j \in Jids : g[j].active <=> \E r \in rs : r.jid = j

OneRun(rs) == \A r, q \in rs : KeyOf[r.jid] = KeyOf[q.jid] => r = q

Tight(g, c, rs) ==
  /\ Good(g, c, rs)
  /\ ActiveIffRunning(g, rs)
  /\ OneRun(rs)
  /\ c.all = Cardinality(rs)

SameActive(g, h) == \A j \in Jids : h[j].active = g[j].active

LEMMA TightSameActive ==
  ASSUME NEW g, NEW c, NEW rs, Tight(g, c, rs),
         NEW h \in Groups, SameActive(g, h)
  PROVE  Tight(h, c, rs)
BY DEF Tight, Good, ActiveIffRunning, SameActive

LEMMA SameRunners ==
  ASSUME NEW g, NEW h, SameActive(g, h), NEW j \in Jids
  PROVE  Runners(j, h) = Runners(j, g)
BY DEF SameActive, Runners

LEMMA SameActiveExcept ==
  ASSUME NEW g \in Groups, NEW j \in Jids, NEW s \in GroupState,
         s.active = g[j].active
  PROVE  /\ [g EXCEPT ![j] = s] \in Groups
         /\ SameActive(g, [g EXCEPT ![j] = s])
BY DEF Groups, SameActive

\* A key without an active group has no run in flight.
LEMMA IdleKey ==
  ASSUME NEW g, NEW c, NEW rs, Tight(g, c, rs),
         NEW j \in Jids, Runners(j, g) = {}, NEW r \in rs
  PROVE  KeyOf[r.jid] # KeyOf[j]
<1>1. r.jid \in Jids
  BY DEF Tight, Good, Run
<1>2. g[r.jid].active
  BY <1>1 DEF Tight, ActiveIffRunning
<1>. QED BY <1>1, <1>2 DEF Runners

LEMMA OccupyTight ==
  ASSUME NEW j \in Jids, NEW kind \in {"messages", "task"},
         NEW g, NEW c, NEW rs, NEW g0,
         Tight(g, c, rs), waiting \in SUBSET Jids,
         Runners(j, g) = {}, HasCapacityFor(j, g0, c),
         Occupy(j, kind, g, c, rs)
  PROVE  Tight(group', count', runs')
<1>. DEFINE no == CHOOSE n \in FreshNos(j, rs) : TRUE
            new == [jid |-> j, no |-> no, kind |-> kind, host |-> IsHost(j)]
<1>1. Good(g, c, rs) /\ Good(group', count', runs')
  BY OccupyGood DEF Tight
<1>2. runs' = rs \cup {new} /\ count'.all = c.all + 1
      /\ group' = [g EXCEPT ![j] = Started(g[j], kind)]
  BY DEF Occupy
<1>3. new.jid = j
  OBVIOUS
<1>. HIDE DEF new
<1>4. \A r \in rs : KeyOf[r.jid] # KeyOf[j]
  BY IdleKey
<1>5. new \notin rs
  BY <1>3, <1>4
<1>6. OneRun(runs')
  BY <1>2, <1>3, <1>4 DEF OneRun, Tight
<1>7. ActiveIffRunning(group', runs')
  <2>1. g \in [Jids -> GroupState] /\ g[j] \in GroupState
    BY <1>1 DEF Good, Groups
  <2>2. Started(g[j], kind).active
    BY <2>1 DEF Started, GroupState
  <2>3. group'[j].active /\ \A i \in Jids : i # j => group'[i] = g[i]
    BY <1>2, <2>1, <2>2
  <2>4. \A i \in Jids : g[i].active <=> \E r \in rs : r.jid = i
    BY DEF Tight, ActiveIffRunning
  <2>. SUFFICES ASSUME NEW i \in Jids
                PROVE  group'[i].active <=> \E r \in runs' : r.jid = i
    BY DEF ActiveIffRunning
  <2>5. CASE i = j
    BY <1>2, <1>3, <2>3, <2>5
  <2>6. CASE i # j
    BY <1>2, <1>3, <2>3, <2>4, <2>6
  <2>. QED BY <2>5, <2>6
<1>8. count'.all = Cardinality(runs')
  <2>1. Cardinality(runs') = Cardinality(rs) + 1
    BY <1>1, <1>2, <1>5, FS_AddElement DEF Good
  <2>. QED BY <1>2, <2>1 DEF Tight
<1>. QED BY <1>1, <1>6, <1>7, <1>8 DEF Tight

LEMMA MessageCheckTight ==
  ASSUME NEW j \in Jids, NEW user \in Initiators \cup {NoUser},
         NEW g, NEW c, NEW wrote,
         Tight(g, c, runs), waiting \in SUBSET Jids,
         MessageCheck(j, user, g, c, wrote)
  PROVE  Tight(group', count', runs')
<1>. DEFINE asked == IF user = NoUser THEN g
                     ELSE [g EXCEPT ![j].currentRunInitiator = user]
<1>1. g \in Groups /\ g[j] \in GroupState
  BY GroupOf DEF Tight, Good
<1>2. asked \in Groups /\ SameActive(g, asked)
  <2>. DEFINE s == [g[j] EXCEPT !.currentRunInitiator = user]
  <2>1. s \in GroupState /\ s.active = g[j].active
    BY <1>1 DEF GroupState
  <2>2. SameActive(g, g)
    BY DEF SameActive
  <2>. HIDE DEF s
  <2>3. [g EXCEPT ![j] = s] \in Groups /\ SameActive(g, [g EXCEPT ![j] = s])
    BY <1>1, <2>1, SameActiveExcept
  <2>4. asked = g \/ asked = [g EXCEPT ![j] = s]
    BY DEF s
  <2>. HIDE DEF asked
  <2>. QED BY <1>1, <2>2, <2>3, <2>4
<1>. HIDE DEF asked
<1>3. \A h \in Groups, b \in BOOLEAN :
        /\ [h EXCEPT ![j].pendingMessages = b] \in Groups
        /\ SameActive(h, [h EXCEPT ![j].pendingMessages = b])
  <2>. TAKE h \in Groups, b \in BOOLEAN
  <2>1. h[j] \in GroupState
    BY DEF Groups
  <2>2. /\ [h[j] EXCEPT !.pendingMessages = b] \in GroupState
        /\ [h[j] EXCEPT !.pendingMessages = b].active = h[j].active
    BY <2>1 DEF GroupState
  <2>. QED BY <2>2, SameActiveExcept
<1>4. CASE Park(j, Drained(j, [g EXCEPT ![j].pendingMessages = TRUE], wrote), c, runs)
  <2>. DEFINE h == [g EXCEPT ![j].pendingMessages = TRUE]
  <2>1. h \in Groups /\ SameActive(g, h)
    BY <1>1, <1>3
  <2>. HIDE DEF h
  <2>2. Drained(j, h, wrote) \in Groups
    BY <2>1, DrainedType
  <2>3. SameActive(h, Drained(j, h, wrote))
    <3>. SUFFICES ASSUME NEW i \in Jids
                  PROVE  Drained(j, h, wrote)[i].active = h[i].active
      BY DEF SameActive
    <3>1. h[i] \in GroupState
      BY <2>1 DEF Groups
    <3>2. [h[i] EXCEPT !.drainSentinelWritten = TRUE].active = h[i].active
      BY <3>1 DEF GroupState
    <3>. QED BY <3>2 DEF Drained
  <2>4. Tight(Drained(j, h, wrote), c, runs)
    BY <2>1, <2>2, <2>3, TightSameActive
  <2>. QED BY <1>4, <2>4 DEF Park, h
<1>5. Tight(asked, c, runs)
  BY <1>2, TightSameActive
<1>6. CASE Park(j, [asked EXCEPT ![j].pendingMessages = TRUE], c, runs)
  BY <1>2, <1>3, <1>5, <1>6, TightSameActive DEF Park
<1>7. CASE /\ Runners(j, g) = {} /\ HasCapacityFor(j, g, c)
           /\ RunForGroup(j, asked, c, runs)
  <2>. DEFINE h == [asked EXCEPT ![j].pendingMessages = FALSE]
  <2>1. h \in Groups /\ SameActive(asked, h)
    BY <1>2, <1>3
  <2>. HIDE DEF h
  <2>2. Tight(h, c, runs)
    BY <1>5, <2>1, TightSameActive
  <2>3. Runners(j, h) = {}
    BY <1>2, <1>7, <2>1, SameRunners
  <2>. QED BY <1>7, <2>2, <2>3, OccupyTight DEF RunForGroup, h
<1>. QED BY <1>4, <1>6, <1>7 DEF MessageCheck, asked
LEMMA StartPendingTight ==
  ASSUME NEW j \in Jids, NEW g, NEW c, NEW rs, NEW g0,
         Tight(g, c, rs), waiting \in SUBSET Jids,
         Runners(j, g) = {}, HasCapacityFor(j, g0, c),
         StartPending(j, g, c, rs)
  PROVE  Tight(group', count', runs')
<1>0. /\ g \in Groups /\ g[j] \in GroupState
      /\ g[j].pendingTasks \in Seq(TaskIds)
  BY GroupOf DEF Tight, Good, GroupState
<1>1. CASE /\ StartableTasks(g[j].pendingTasks) # {}
           /\ RunTask(j, [g EXCEPT ![j].pendingTasks = AfterFirstStartable(@)], c, rs)
  <2>. DEFINE rest == AfterFirstStartable(g[j].pendingTasks)
              s == [g[j] EXCEPT !.pendingTasks = rest]
              h == [g EXCEPT ![j] = s]
  <2>1. rest \in Seq(TaskIds)
    BY <1>0, <1>1, AfterFirstStartableType
  <2>2. RunTask(j, h, c, rs)
    BY <1>1
  <2>. HIDE DEF rest
  <2>3. s \in GroupState /\ s.active = g[j].active
    BY <1>0, <2>1 DEF GroupState
  <2>. HIDE DEF s
  <2>4. h \in Groups /\ SameActive(g, h)
    BY <1>0, <2>3, SameActiveExcept
  <2>. HIDE DEF h
  <2>5. Tight(h, c, rs) /\ Runners(j, h) = {}
    BY <2>4, TightSameActive, SameRunners
  <2>. QED BY <2>2, <2>5, OccupyTight DEF RunTask
<1>2. CASE RunForGroup(j, [g EXCEPT ![j].pendingTasks = <<>>], c, rs)
  <2>. DEFINE s == [g[j] EXCEPT !.pendingTasks = <<>>]
              h == [g EXCEPT ![j] = s]
              m == [h[j] EXCEPT !.pendingMessages = FALSE]
              k == [h EXCEPT ![j] = m]
  <2>1. s \in GroupState /\ s.active = g[j].active
    BY <1>0, NoTasksType DEF GroupState
  <2>2. Occupy(j, "messages", k, c, rs)
    BY <1>2 DEF RunForGroup
  <2>. HIDE DEF s
  <2>3. h \in Groups /\ SameActive(g, h)
    BY <1>0, <2>1, SameActiveExcept
  <2>. HIDE DEF h
  <2>4. h[j] \in GroupState
    BY <2>3 DEF Groups
  <2>5. m \in GroupState /\ m.active = h[j].active
    BY <2>4 DEF GroupState
  <2>. HIDE DEF m
  <2>6. k \in Groups /\ SameActive(h, k)
    BY <2>3, <2>5, SameActiveExcept
  <2>. HIDE DEF k
  <2>7. Tight(k, c, rs) /\ Runners(j, k) = {}
    BY <2>3, <2>6, TightSameActive, SameRunners
  <2>. QED BY <2>2, <2>7, OccupyTight
<1>. QED BY <1>1, <1>2 DEF StartPending

\* drainGroup after a run of j, when j is no longer active.
LEMMA DrainGroupTight ==
  ASSUME NEW j \in Jids, NEW g, NEW c, NEW rs,
         Tight(g, c, rs), ~g[j].active,
         waiting \in SUBSET Jids,
         DrainGroup(j, g, c, rs)
  PROVE  Tight(group', count', runs')
<1>1. CASE group' = g /\ runs' = rs /\ count' = c
  BY <1>1
<1>2. CASE Park(j, g, c, rs)
  BY <1>2 DEF Park
<1>3. CASE /\ Runners(j, g) \ {j} = {} /\ HasCapacityFor(j, g, c)
           /\ StartPending(j, g, c, rs)
  <2>1. Runners(j, g) = {}
    BY <1>3 DEF Runners
  <2>. QED BY <1>3, <2>1, StartPendingTight
<1>4. CASE group' = Collected(j, g) /\ runs' = rs /\ count' = c
  <2>. DEFINE s == [g[j] EXCEPT !.pendingTasks = <<>>]
  <2>1. g \in Groups /\ g[j] \in GroupState
    BY GroupOf DEF Tight, Good
  <2>2. s \in GroupState /\ s.active = g[j].active
    BY <2>1, NoTasksType DEF GroupState
  <2>3. FreshGroup.active = g[j].active
    <3>1. g[j].active \in BOOLEAN
      BY <2>1 DEF GroupState
    <3>. QED BY <3>1 DEF FreshGroup
  <2>. HIDE DEF s
  <2>4. PICK t \in {FreshGroup, s} : Collected(j, g) = [g EXCEPT ![j] = t]
    BY DEF Collected, s
  <2>5. t \in GroupState /\ t.active = g[j].active
    BY <2>2, <2>3, <2>4, FreshGroupType
  <2>6. Collected(j, g) \in Groups /\ SameActive(g, Collected(j, g))
    BY <2>1, <2>4, <2>5, SameActiveExcept
  <2>. QED BY <1>4, <2>6, TightSameActive
<1>. QED BY <1>1, <1>2, <1>3, <1>4 DEF DrainGroup

\* The end of a run leaves its group inactive and its key without a run.
LEMMA ReleasedTight ==
  ASSUME Tight(group, count, runs), NEW r \in runs,
         NEW s \in GroupState, ~s.active
  PROVE  Tight([group EXCEPT ![r.jid] = s], Released(r), runs \ {r})
<1>. DEFINE j == r.jid  g == [group EXCEPT ![j] = s]  rs == runs \ {r}
<1>1. group \in Groups /\ j \in Jids
  BY DEF Tight, Good, Run
<1>2. g \in Groups /\ g[j] = s /\ \A i \in Jids : i # j => g[i] = group[i]
  BY <1>1 DEF Groups
<1>. HIDE DEF g
<1>3. Good(g, Released(r), rs)
  BY <1>2, ReleasedGood DEF Tight
<1>4. OneRun(rs)
  BY DEF Tight, OneRun
<1>5. ActiveIffRunning(g, rs)
  <2>. SUFFICES ASSUME NEW i \in Jids
                PROVE  g[i].active <=> \E q \in rs : q.jid = i
    BY DEF ActiveIffRunning
  <2>1. CASE i = j
    <3>1. \A q \in rs : q.jid # j
      BY DEF Tight, OneRun
    <3>. QED BY <1>2, <2>1, <3>1
  <2>2. CASE i # j
    BY <1>2, <2>2 DEF Tight, ActiveIffRunning
  <2>. QED BY <2>1, <2>2
<1>6. Released(r).all = Cardinality(rs)
  <2>1. IsFiniteSet(runs) /\ Cardinality(runs) \in Nat
    BY FS_CardinalityType DEF Tight, Good
  <2>2. Cardinality(rs) = Cardinality(runs) - 1
    BY <2>1, FS_RemoveElement
  <2>. QED BY <2>2 DEF Released, Tight
<1>. QED BY <1>3, <1>4, <1>5, <1>6 DEF Tight, g

(* The same steps seen as steps of RunnerPool: what a handler starts.       *)

Busy(rs) == {<<r.jid, r.no, r.host>> : r \in rs}

\* One run of j begins next to the runs rs.
Begins(j, rs) ==
  \E n \in RunNos, h \in BOOLEAN :
    /\ Pool!Free(j, h, Busy(rs))
    /\ Busy(runs') = Busy(rs) \cup {<<j, n, h>>}

StartsAtMostOne(j, rs) == runs' = rs \/ Begins(j, rs)

\* There are at most as many occupied slots of a mode as runs of that mode.
LEMMA BusyBound ==
  ASSUME NEW g, NEW c, NEW rs, Good(g, c, rs), NEW h \in BOOLEAN
  PROVE  /\ Cardinality({s \in Busy(rs) : s[3] = h}) \in Nat
         /\ Cardinality(HostRuns(rs, h)) \in Nat
         /\ Cardinality({s \in Busy(rs) : s[3] = h}) <= Cardinality(HostRuns(rs, h))
<1>. DEFINE S == HostRuns(rs, h)
            T == {s \in Busy(rs) : s[3] = h}
            f == [r \in S |-> <<r.jid, r.no, r.host>>]
<1>1. IsFiniteSet(S)
  BY FS_Subset DEF Good, HostRuns
<1>2. f \in [S -> T]
  BY DEF HostRuns, Busy
<1>3. \A t \in T : \E r \in S : f[r] = t
  <2>. TAKE t \in T
  <2>1. PICK r \in rs : t = <<r.jid, r.no, r.host>>
    BY DEF Busy
  <2>2. r \in S
    BY <2>1 DEF HostRuns
  <2>. QED BY <2>1, <2>2
<1>. HIDE DEF S, T, f
<1>4. f \in Surjection(S, T)
  BY <1>2, <1>3 DEF Surjection
<1>5. IsFiniteSet(T) /\ Cardinality(T) <= Cardinality(S)
  BY <1>1, <1>4, FS_Surjection
<1>6. Cardinality(T) \in Nat /\ Cardinality(S) \in Nat
  BY <1>1, <1>5, FS_CardinalityType
<1>. QED BY <1>5, <1>6 DEF S, T

LEMMA OccupyBegins ==
  ASSUME NEW j \in Jids, NEW kind, NEW g, NEW h, NEW c, NEW rs, NEW g0,
         Tight(g, c, rs), Runners(j, g) = {}, HasCapacityFor(j, g0, c),
         Occupy(j, kind, h, c, rs)
  PROVE  Begins(j, rs)
<1>. DEFINE no == CHOOSE n \in FreshNos(j, rs) : TRUE
            new == [jid |-> j, no |-> no, kind |-> kind, host |-> IsHost(j)]
<1>1. PICK host \in BOOLEAN : host = IsHost(j)
  <2>1. IsHost(j) \in BOOLEAN
    BY DEF IsHost
  <2>. QED BY <2>1, Zenon
<1>2. /\ runs' = rs \cup {new}
      /\ new.jid = j /\ new.no = no /\ new.host = host
  BY <1>1 DEF Occupy
<1>. HIDE DEF new
<1>8. no \in RunNos
  BY DEF Occupy, FreshNos
<1>. HIDE DEF no
<1>3. Busy(runs') = Busy(rs) \cup {<<j, no, host>>}
  BY <1>2 DEF Busy
<1>4. \A s \in Busy(rs) : KeyOf[s[1]] # KeyOf[j]
  BY IdleKey DEF Busy
<1>. DEFINE n == Cardinality({s \in Busy(rs) : s[3] = host})
            m == Cardinality(HostRuns(rs, host))
<1>5. n < Pool!Limit(host)
  <2>1. Good(g, c, rs)
    BY DEF Tight
  <2>2. n \in Nat /\ m \in Nat /\ n <= m
    BY <2>1, BusyBound
  <2>3. Pool!Limit(host) \in Nat /\ m < Pool!Limit(host)
    <3>1. CASE host = TRUE
      <4>1. m = c.host /\ c.host < MaxHostProcesses
        BY <1>1, <2>1, <3>1 DEF HasCapacityFor, Good
      <4>2. Pool!Limit(host) = MaxHostProcesses
        BY <3>1 DEF Pool!Limit
      <4>. QED BY <4>1, <4>2, LimitTypes
    <3>2. CASE host = FALSE
      <4>1. m = c.container /\ c.container < MaxContainers
        BY <1>1, <2>1, <3>2 DEF HasCapacityFor, Good
      <4>2. Pool!Limit(host) = MaxContainers
        BY <3>2 DEF Pool!Limit
      <4>. QED BY <4>1, <4>2, LimitTypes
    <3>. QED BY <3>1, <3>2
  <2>. HIDE DEF n, m
  <2>. QED BY <2>2, <2>3
<1>6. Pool!Cardinality({s \in Busy(rs) : s[3] = host}) = n
  BY DEF Pool!Cardinality, Cardinality
<1>7. Pool!Free(j, host, Busy(rs))
  BY <1>4, <1>5, <1>6 DEF Pool!Free
<1>. QED BY <1>3, <1>7, <1>8 DEF Begins

LEMMA MessageCheckStarts ==
  ASSUME NEW j \in Jids, NEW user, NEW g, NEW c, NEW wrote,
         Tight(g, c, runs), MessageCheck(j, user, g, c, wrote)
  PROVE  StartsAtMostOne(j, runs)
BY OccupyBegins DEF MessageCheck, Park, RunForGroup, StartsAtMostOne

LEMMA StartPendingStarts ==
  ASSUME NEW j \in Jids, NEW g, NEW c, NEW rs, NEW g0,
         Tight(g, c, rs), Runners(j, g) = {}, HasCapacityFor(j, g0, c),
         StartPending(j, g, c, rs)
  PROVE  StartsAtMostOne(j, rs)
BY OccupyBegins DEF StartPending, RunTask, RunForGroup, StartsAtMostOne

LEMMA DrainGroupStarts ==
  ASSUME NEW j \in Jids, NEW g, NEW c, NEW rs,
         Tight(g, c, rs), ~g[j].active, DrainGroup(j, g, c, rs)
  PROVE  StartsAtMostOne(j, rs)
<1>1. CASE runs' = rs
  BY <1>1 DEF StartsAtMostOne
<1>2. CASE /\ Runners(j, g) \ {j} = {} /\ HasCapacityFor(j, g, c)
           /\ StartPending(j, g, c, rs)
  <2>1. Runners(j, g) = {}
    BY <1>2 DEF Runners
  <2>. QED BY <1>2, <2>1, StartPendingStarts
<1>. QED BY <1>1, <1>2 DEF DrainGroup, Park

Keyed == Tight(group, count, runs)

LEMMA EnqueueTaskKeyed ==
  ASSUME Slots, Keyed, NEW t \in TaskIds, EnqueueTask(t)
  PROVE  Keyed'
<1>. DEFINE j == HomeOf[t]  more == Append(group[j].pendingTasks, t)
            s == [group[j] EXCEPT !.pendingTasks = more]
<1>1. j \in Jids
  BY PlacementAssumption
<1>2. CASE Park(j, [group EXCEPT ![j].pendingTasks = Append(@, t)], count, runs)
  <2>1. group \in Groups /\ group[j] \in GroupState
    BY <1>1, GroupOf DEF Slots, Good
  <2>2. more \in Seq(TaskIds)
    BY <2>1 DEF GroupState
  <2>3. group' = [group EXCEPT ![j] = s] /\ count' = count /\ runs' = runs
    BY <1>2 DEF Park
  <2>. HIDE DEF more
  <2>4. s \in GroupState /\ s.active = group[j].active
    BY <2>1, <2>2 DEF GroupState
  <2>. HIDE DEF s
  <2>. QED BY <1>1, <2>1, <2>3, <2>4, SameActiveExcept, TightSameActive DEF Keyed
<1>3. CASE /\ Runners(j, group) = {} /\ HasCapacityFor(j, group, count)
           /\ RunTask(j, group, count, runs)
  BY <1>1, <1>3, OccupyTight DEF RunTask, Slots, Keyed
<1>. QED BY <1>2, <1>3 DEF EnqueueTask

LEMMA SweepStepKeyed ==
  ASSUME Slots, Keyed, NEW j \in Jids, SweepStep(j)
  PROVE  Keyed'
<1>1. CASE UNCHANGED <<group, runs, count>>
  BY <1>1 DEF Keyed
<1>2. CASE /\ Runners(j, group) = {} /\ HasCapacityFor(j, group, count)
           /\ StartPending(j, group, count, runs)
  BY <1>2, StartPendingTight DEF Slots, Keyed
<1>3. CASE /\ group' = [group EXCEPT ![j].pendingTasks = <<>>]
           /\ UNCHANGED <<runs, count>>
  <2>. DEFINE s == [group[j] EXCEPT !.pendingTasks = <<>>]
  <2>1. group \in Groups /\ group[j] \in GroupState
    BY GroupOf DEF Slots, Good
  <2>2. s \in GroupState /\ s.active = group[j].active
    BY <2>1, NoTasksType DEF GroupState
  <2>3. group' = [group EXCEPT ![j] = s]
    BY <1>3
  <2>. HIDE DEF s
  <2>. QED BY <1>3, <2>1, <2>2, <2>3, SameActiveExcept, TightSameActive DEF Keyed
<1>. QED BY <1>1, <1>2, <1>3 DEF SweepStep

LEMMA FinishMessagesKeyed ==
  ASSUME Slots, Keyed, NEW r \in runs, NEW ok \in BOOLEAN, FinishMessages(r, ok)
  PROVE  Keyed' /\ StartsAtMostOne(r.jid, runs \ {r})
<1>. DEFINE j == r.jid
            tried == IF ok THEN RetryCleared(group[j]) ELSE RetryScheduled(group[j])
            rearm == UnreadIpc(j)
                     \/ (group[j].hasIpcInjectedMessages /\ ~StopRequested(j))
            e == MessagesExited(tried)
            again == e.pendingMessages \/ rearm
            left == [e EXCEPT !.pendingMessages = again]
            g == [group EXCEPT ![j] = left]
<1>1. j \in Jids /\ group[j] \in GroupState
  BY GroupOf DEF Slots, Good, Run
<1>2. tried \in GroupState /\ e \in GroupState
  BY <1>1, ExitTypes
<1>. HIDE DEF tried
<1>3. ~e.active
  <2>1. Exited(tried) \in GroupState
    BY <1>2, ExitTypes
  <2>2. ~Exited(tried).active
    BY <1>2 DEF Exited, GroupState
  <2>. QED BY <2>1, <2>2 DEF MessagesExited, GroupState
<1>4. again \in BOOLEAN
  OBVIOUS
<1>. HIDE DEF e, again
<1>5. left \in GroupState /\ ~left.active
  BY <1>2, <1>3, <1>4 DEF GroupState
<1>6. \/ group' = g /\ count' = Released(r) /\ runs' = runs \ {r}
      \/ DrainGroup(j, g, Released(r), runs \ {r})
  BY DEF FinishMessages, tried, e, again
<1>. HIDE DEF left
<1>7. Tight(g, Released(r), runs \ {r})
  BY <1>5, ReleasedTight DEF Keyed
<1>8. ~g[j].active
  BY <1>1, <1>5 DEF Slots, Good, Groups
<1>. HIDE DEF g
<1>9. Keyed'
  BY <1>1, <1>6, <1>7, <1>8, DrainGroupTight DEF Slots, Keyed
<1>10. StartsAtMostOne(j, runs \ {r})
  BY <1>1, <1>6, <1>7, <1>8, DrainGroupStarts DEF StartsAtMostOne
<1>. QED BY <1>9, <1>10

LEMMA FinishTaskKeyed ==
  ASSUME Slots, Keyed, NEW r \in runs, FinishTask(r)
  PROVE  Keyed' /\ StartsAtMostOne(r.jid, runs \ {r})
<1>. DEFINE j == r.jid
            e == Exited(Recovered(j))
            left == [e EXCEPT !.activeRunnerIsTask = FALSE]
            g == [group EXCEPT ![j] = left]
<1>1. j \in Jids
  BY DEF Slots, Good, Run
<1>2. e \in GroupState /\ ~e.active
  <2>1. Recovered(j) \in GroupState
    BY <1>1, RecoveredType
  <2>. QED BY <2>1, ExitTypes DEF Exited, GroupState
<1>3. DrainGroup(j, g, Released(r), runs \ {r})
  BY DEF FinishTask
<1>. HIDE DEF e
<1>4. left \in GroupState /\ ~left.active
  BY <1>2 DEF GroupState
<1>. HIDE DEF left
<1>5. Tight(g, Released(r), runs \ {r})
  BY <1>4, ReleasedTight DEF Keyed
<1>6. ~g[j].active
  BY <1>1, <1>4 DEF Slots, Good, Groups
<1>. HIDE DEF g
<1>7. Keyed'
  BY <1>1, <1>3, <1>5, <1>6, DrainGroupTight DEF Slots, Keyed
<1>8. StartsAtMostOne(j, runs \ {r})
  BY <1>1, <1>3, <1>5, <1>6, DrainGroupStarts
<1>. QED BY <1>7, <1>8
LEMMA RetryTimerFiresKeyed ==
  ASSUME Slots, Keyed, NEW j \in Jids, NEW w, RetryTimerFires(j, w)
  PROVE  Keyed' /\ StartsAtMostOne(j, runs)
<1>. DEFINE s == [group[j] EXCEPT !.retryTimer = FALSE]
            g == [group EXCEPT ![j] = s]
<1>1. group \in Groups /\ group[j] \in GroupState
  BY GroupOf DEF Slots, Good
<1>2. s \in GroupState /\ s.active = group[j].active
  BY <1>1 DEF GroupState
<1>3. \/ group' = g /\ UNCHANGED <<runs, count>>
      \/ MessageCheck(j, NoUser, g, count, w)
  BY DEF RetryTimerFires
<1>. HIDE DEF s
<1>4. g \in Groups /\ SameActive(group, g)
  BY <1>1, <1>2, SameActiveExcept
<1>. HIDE DEF g
<1>5. Tight(g, count, runs)
  BY <1>4, TightSameActive DEF Keyed
<1>6. Keyed'
  BY <1>3, <1>5, MessageCheckTight DEF Slots, Keyed
<1>7. StartsAtMostOne(j, runs)
  BY <1>3, <1>5, MessageCheckStarts DEF StartsAtMostOne
<1>. QED BY <1>6, <1>7

LEMMA RestartEndsKeyed ==
  ASSUME Slots, EnvOK, Keyed, NEW call \in restarts, NEW w, RestartEnds(call, w)
  PROVE  Keyed' /\ StartsAtMostOne(call.requested, runs)
<1>. DEFINE t == call.target
            s == [group[t] EXCEPT !.restarting = FALSE]
            g == [group EXCEPT ![t] = s]
<1>1. t \in Jids /\ call.requested \in Jids
  BY ChatJidsAreJids DEF EnvOK
<1>2. group \in Groups /\ group[t] \in GroupState
  BY <1>1, GroupOf DEF Slots, Good
<1>3. s \in GroupState /\ s.active = group[t].active
  BY <1>2 DEF GroupState
<1>4. \/ group' = g /\ UNCHANGED <<runs, count>>
      \/ MessageCheck(call.requested, NoUser, g, count, w)
  BY DEF RestartEnds
<1>. HIDE DEF s, t
<1>5. g \in Groups /\ SameActive(group, g)
  BY <1>1, <1>2, <1>3, SameActiveExcept
<1>. HIDE DEF g
<1>6. Tight(g, count, runs)
  BY <1>5, TightSameActive DEF Keyed
<1>7. Keyed'
  BY <1>1, <1>4, <1>6, MessageCheckTight DEF Slots, Keyed
<1>8. StartsAtMostOne(call.requested, runs)
  BY <1>1, <1>4, <1>6, MessageCheckStarts DEF StartsAtMostOne
<1>. QED BY <1>7, <1>8

\* An operation that rewrites GroupStates but no active flag.
LEMMA KeyedSameActive ==
  ASSUME Slots, Keyed, NEW h \in Groups, SameActive(group, h),
         group' = h, UNCHANGED <<runs, count>>
  PROVE  Keyed'
BY TightSameActive DEF Keyed

LEMMA OneGroupKeyed ==
  ASSUME Slots, Keyed, NEW j \in Jids, NEW s \in GroupState,
         s.active = group[j].active,
         group' = [group EXCEPT ![j] = s], UNCHANGED <<runs, count>>
  PROVE  Keyed'
<1>1. group \in Groups
  BY DEF Slots, Good
<1>. QED BY <1>1, SameActiveExcept, KeyedSameActive

LEMMA RegisterProcessKeyed ==
  ASSUME Slots, Keyed, NEW r \in runs, RegisterProcess(r)
  PROVE  Keyed'
<1>1. r.jid \in Jids
  BY DEF Slots, Good, Run
<1>2. group[r.jid] \in GroupState
  BY <1>1, GroupOf DEF Slots
<1>. DEFINE s == [group[r.jid] EXCEPT !.registered = TRUE]
<1>3. s \in GroupState /\ s.active = group[r.jid].active
  BY <1>2 DEF GroupState
<1>4. group' = [group EXCEPT ![r.jid] = s] /\ UNCHANGED <<runs, count>>
  BY DEF RegisterProcess
<1>. HIDE DEF s
<1>. QED BY <1>1, <1>3, <1>4, OneGroupKeyed

LEMMA InjectMessageKeyed ==
  ASSUME Slots, Keyed, NEW j \in Jids, NEW m \in BOOLEAN, InjectMessage(j, m)
  PROVE  Keyed'
<1>1. PICK i \in Resolved(j) :
        group' = [group EXCEPT ![i].hasIpcInjectedMessages = @ \/ m]
  BY DEF InjectMessage
<1>2. i \in Jids
  BY DEF Resolved, Runners
<1>. DEFINE mark == group[i].hasIpcInjectedMessages \/ m
            s == [group[i] EXCEPT !.hasIpcInjectedMessages = mark]
<1>3. mark \in BOOLEAN /\ group[i] \in GroupState
  BY <1>2, GroupOf DEF Slots
<1>4. group' = [group EXCEPT ![i] = s] /\ UNCHANGED <<runs, count>>
  BY <1>1 DEF InjectMessage
<1>. HIDE DEF mark
<1>5. s \in GroupState /\ s.active = group[i].active
  BY <1>3 DEF GroupState
<1>. HIDE DEF s
<1>. QED BY <1>2, <1>4, <1>5, OneGroupKeyed

LEMMA InterruptQueryKeyed ==
  ASSUME Slots, Keyed, NEW j \in Jids, InterruptQuery(j)
  PROVE  Keyed'
<1>1. PICK i \in Resolved(j) : group' = [group EXCEPT ![i].retryTimer = FALSE]
  BY DEF InterruptQuery
<1>2. i \in Jids
  BY DEF Resolved, Runners
<1>. DEFINE s == [group[i] EXCEPT !.retryTimer = FALSE]
<1>3. group[i] \in GroupState
  BY <1>2, GroupOf DEF Slots
<1>4. s \in GroupState /\ s.active = group[i].active
  BY <1>3 DEF GroupState
<1>5. group' = [group EXCEPT ![i] = s] /\ UNCHANGED <<runs, count>>
  BY <1>1 DEF InterruptQuery
<1>. HIDE DEF s
<1>. QED BY <1>2, <1>4, <1>5, OneGroupKeyed

LEMMA RequestGracefulRestartKeyed ==
  ASSUME Slots, Keyed, NEW j \in Jids, RequestGracefulRestart(j)
  PROVE  Keyed'
<1>. DEFINE s == [group[j] EXCEPT !.pendingMessages = TRUE]
<1>1. group[j] \in GroupState
  BY GroupOf DEF Slots
<1>2. s \in GroupState /\ s.active = group[j].active
  BY <1>1 DEF GroupState
<1>3. group' = [group EXCEPT ![j] = s] /\ UNCHANGED <<runs, count>>
  BY DEF RequestGracefulRestart
<1>. HIDE DEF s
<1>. QED BY <1>2, <1>3, OneGroupKeyed

LEMMA RestartBeginsKeyed ==
  ASSUME Slots, Keyed, NEW j \in ChatJids, RestartBegins(j)
  PROVE  Keyed'
<1>. DEFINE t == TargetOf(j)
            s == [group[t] EXCEPT !.restarting = TRUE]
<1>1. t \in Jids
  BY TargetType, ChatJidsAreJids
<1>2. group' = [group EXCEPT ![t] = s] /\ UNCHANGED <<runs, count>>
  BY DEF RestartBegins
<1>. HIDE DEF t
<1>3. group[t] \in GroupState
  BY <1>1, GroupOf DEF Slots
<1>4. s \in GroupState /\ s.active = group[t].active
  BY <1>3 DEF GroupState
<1>. HIDE DEF s
<1>. QED BY <1>1, <1>2, <1>4, OneGroupKeyed

LEMMA RetryClearedActive ==
  ASSUME NEW s \in GroupState
  PROVE  RetryCleared(s).active = s.active
BY DEF RetryCleared, GroupState

LEMMA StopGroupKeyed ==
  ASSUME Slots, Slots', Keyed, NEW j \in Jids, StopGroup(j)
  PROVE  Keyed'
<1>. DEFINE hit == {j, TargetOf(j)}
<1>1. group' = [i \in Jids |->
                  IF i \in hit
                    THEN [RetryCleared(group[i]) EXCEPT
                            !.pendingMessages = FALSE, !.pendingTasks = <<>>]
                    ELSE group[i]]
      /\ UNCHANGED <<runs, count>>
  BY DEF StopGroup
<1>. HIDE DEF hit
<1>2. SameActive(group, group')
  <2>. SUFFICES ASSUME NEW i \in Jids PROVE group'[i].active = group[i].active
    BY DEF SameActive
  <2>1. group[i] \in GroupState /\ RetryCleared(group[i]) \in GroupState
    BY GroupOf, ExitTypes DEF Slots
  <2>2. RetryCleared(group[i]).active = group[i].active
    BY <2>1, RetryClearedActive
  <2>3. [RetryCleared(group[i]) EXCEPT !.pendingMessages = FALSE,
                                       !.pendingTasks = <<>>].active
          = RetryCleared(group[i]).active
    BY <2>1 DEF GroupState
  <2>. QED BY <1>1, <2>2, <2>3
<1>3. group' \in Groups
  BY DEF Slots, Good
<1>. QED BY <1>1, <1>2, <1>3, KeyedSameActive

LEMMA ShutdownKeyed ==
  ASSUME Slots, Slots', Keyed, Shutdown
  PROVE  Keyed'
<1>1. SameActive(group, group')
  BY GroupOf, RetryClearedActive DEF Slots, SameActive, Shutdown
<1>2. group' \in Groups
  BY DEF Slots, Good
<1>. QED BY <1>1, <1>2, KeyedSameActive DEF Shutdown

LEMMA KeyedUnchanged == Keyed /\ UNCHANGED <<group, runs, count>> => Keyed'
BY DEF Keyed

-----------------------------------------------------------------------------
LInv == IInv /\ Keyed

LEMMA InitLInv == Init => LInv
<1>. SUFFICES ASSUME Init PROVE LInv
  OBVIOUS
<1>1. IInv
  BY InitIInv
<1>2. ActiveIffRunning(group, runs)
  BY DEF Init, FreshGroup, ActiveIffRunning
<1>3. OneRun(runs)
  BY DEF Init, OneRun
<1>4. count.all = Cardinality(runs)
  BY FS_EmptySet DEF Init
<1>. QED BY <1>1, <1>2, <1>3, <1>4 DEF LInv, Keyed, Tight, IInv

LEMMA ArrivalKeyed == ASSUME LInv, Arrival PROVE Keyed'
<1>0. Slots /\ EnvOK /\ Keyed
  BY IInvParts DEF LInv
<1>1. CASE \E j \in ChatJids, u \in Initiators \cup {NoUser}, w \in WriteOutcomes :
             EnqueueMessageCheck(j, u, w)
  BY <1>0, <1>1, ChatJidsAreJids, MessageCheckTight
     DEF EnqueueMessageCheck, Keyed, Slots
<1>2. CASE \E t \in TaskIds : EnqueueTask(t)
  BY <1>0, <1>2, EnqueueTaskKeyed
<1>3. CASE \E j \in ChatJids, m \in BOOLEAN : InjectMessage(j, m)
  BY <1>0, <1>3, ChatJidsAreJids, InjectMessageKeyed
<1>4. CASE \E j \in AgentJids : InjectMessage(j, FALSE)
  BY <1>0, <1>4, JidsAssumption, InjectMessageKeyed
<1>5. CASE \E j \in ChatJids : RequestGracefulRestart(j)
  BY <1>0, <1>5, ChatJidsAreJids, RequestGracefulRestartKeyed
<1>6. CASE \E j \in ChatJids, w \in WriteOutcomes : RestartIdle(j, w)
  <2>1. PICK j \in ChatJids, w \in WriteOutcomes : RestartIdle(j, w)
    BY <1>6
  <2>2. MessageCheck(j, NoUser, group, count, w) /\ j \in Jids
    BY <2>1, ChatJidsAreJids DEF RestartIdle
  <2>. QED BY <1>0, <2>2, MessageCheckTight DEF Keyed, Slots
<1>7. CASE \E j \in ChatJids : RestartBegins(j)
  BY <1>0, <1>7, RestartBeginsKeyed
<1>. QED BY <1>1, <1>2, <1>3, <1>4, <1>5, <1>6, <1>7 DEF Arrival

LEMMA EnvironmentKeyed == ASSUME LInv, Slots', Environment PROVE Keyed'
<1>0. Slots /\ EnvOK /\ Keyed
  BY IInvParts DEF LInv
<1>1. CASE \E j \in Jids : ConsumeIpc(j)
  BY <1>0, <1>1, KeyedUnchanged DEF ConsumeIpc
<1>2. CASE \E j \in Jids : InterruptQuery(j)
  BY <1>0, <1>2, InterruptQueryKeyed
<1>3. CASE \E f \in ModeFolders : ChangeMode(f)
  BY <1>0, <1>3, KeyedUnchanged DEF ChangeMode
<1>4. CASE \E t \in DbTasks : ToggleTask(t)
  BY <1>0, <1>4, KeyedUnchanged DEF ToggleTask
<1>5. CASE Shutdown
  BY <1>0, <1>5, ShutdownKeyed
<1>. QED BY <1>1, <1>2, <1>3, <1>4, <1>5 DEF Environment

LEMMA ProgressKeyed == ASSUME LInv, Progress PROVE Keyed'
<1>0. Slots /\ EnvOK /\ Keyed
  BY IInvParts DEF LInv
<1>1. CASE \E j \in Jids : SweepStep(j)
  BY <1>0, <1>1, SweepStepKeyed
<1>2. CASE \E r \in runs : RegisterProcess(r)
  BY <1>0, <1>2, RegisterProcessKeyed
<1>3. CASE \E r \in runs : FinishTask(r)
  BY <1>0, <1>3, FinishTaskKeyed
<1>4. CASE \E r \in runs, ok \in BOOLEAN : FinishMessages(r, ok)
  BY <1>0, <1>4, FinishMessagesKeyed
<1>5. CASE \E j \in ChatJids, w \in WriteOutcomes : RetryTimerFires(j, w)
  BY <1>0, <1>5, ChatJidsAreJids, RetryTimerFiresKeyed
<1>6. CASE \E call \in restarts, w \in WriteOutcomes : RestartEnds(call, w)
  BY <1>0, <1>6, RestartEndsKeyed
<1>. QED BY <1>1, <1>2, <1>3, <1>4, <1>5, <1>6 DEF Progress

LEMMA LocalInductive == LInv /\ [LocalNext]_vars => LInv'
<1>. SUFFICES ASSUME LInv, [LocalNext]_vars PROVE LInv'
  OBVIOUS
<1>1. IInv'
  BY Inductive DEF LInv, Next
<1>2. Slots /\ Slots' /\ Keyed
  BY <1>1, IInvParts, IInvPartsNext DEF LInv
<1>3. CASE LocalNext
  <2>1. (\E j \in Jids : StopGroup(j)) => Keyed'
    BY <1>2, StopGroupKeyed
  <2>2. (\E f \in Folders : StopWindowEnds(f)) => Keyed'
    BY <1>2, KeyedUnchanged DEF StopWindowEnds
  <2>3. Keyed'
    BY <1>2, <1>3, <2>1, <2>2, ArrivalKeyed, EnvironmentKeyed, ProgressKeyed
       DEF LocalNext, UndisturbedNext
  <2>. QED BY <1>1, <2>3 DEF LInv
<1>4. CASE UNCHANGED vars
  BY <1>1, <1>2, <1>4, KeyedUnchanged DEF vars, LInv
<1>. QED BY <1>3, <1>4

LEMMA LocalInvariance == LocalSpec => []LInv
BY InitLInv, LocalInductive, PTL DEF LocalSpec

\* In single-process operation, with stops, retries, drains and restarts of
\* registered runners in any order, JIDs that share a serialization key never
\* have two invocations in flight: the look-up in findActiveRunnerFor before
\* each start is enough for any number of siblings.
THEOREM SingleRunner == LocalSpec => []OneRunPerKey
<1>1. LInv => OneRunPerKey
  BY DEF LInv, Keyed, Tight, OneRun, OneRunPerKey
<1>. QED BY <1>1, LocalInvariance, PTL

\* In single-process operation activeCount, which shutdown waits to see at
\* zero, is exactly the number of runs in flight.
THEOREM ActiveCountExact == LocalSpec => []ActiveCountMatchesRuns
<1>1. LInv => ActiveCountMatchesRuns
  BY DEF LInv, Keyed, Tight, ActiveCountMatchesRuns
<1>. QED BY <1>1, LocalInvariance, PTL

-----------------------------------------------------------------------------
(* Refinement: the scheduler implements the slot pool of RunnerPool.        *)

\* A step in which no run ends.
LEMMA StartIsPoolStep ==
  ASSUME NEW j \in Jids, StartsAtMostOne(j, runs)
  PROVE  Pool!Next \/ Busy(runs') = Busy(runs)
<1>1. CASE runs' = runs
  BY <1>1
<1>2. CASE Begins(j, runs)
  <2>1. PICK n \in RunNos, h \in BOOLEAN :
          /\ Pool!Free(j, h, Busy(runs))
          /\ Busy(runs') = Busy(runs) \cup {<<j, n, h>>}
    BY <1>2 DEF Begins
  <2>2. Pool!Begin(j, n, h)
    BY <2>1 DEF Pool!Begin, Busy
  <2>. QED BY <2>2 DEF Pool!Next
<1>. QED BY <1>1, <1>2 DEF StartsAtMostOne

\* A step in which the run r ends.
LEMMA FinishIsPoolStep ==
  ASSUME Keyed, NEW r \in runs, StartsAtMostOne(r.jid, runs \ {r})
  PROVE  Pool!Next
<1>. DEFINE j == r.jid  slot == <<r.jid, r.no, r.host>>
<1>1. slot \in Busy(runs) /\ slot[1] = j
  BY DEF Busy
<1>2. Busy(runs \ {r}) = Busy(runs) \ {slot}
  BY DEF Busy, Keyed, Tight, OneRun
<1>. HIDE DEF slot
<1>3. CASE runs' = runs \ {r}
  <2>1. Pool!End(slot)
    BY <1>1, <1>2, <1>3 DEF Pool!End, Busy
  <2>. QED BY <1>1, <2>1 DEF Pool!Next, Busy
<1>4. CASE Begins(j, runs \ {r})
  <2>1. PICK n \in RunNos, h \in BOOLEAN :
          /\ Pool!Free(j, h, Busy(runs \ {r}))
          /\ Busy(runs') = Busy(runs \ {r}) \cup {<<j, n, h>>}
    BY <1>4 DEF Begins
  <2>2. Pool!HandOver(slot, n, h)
    BY <1>1, <1>2, <2>1 DEF Pool!HandOver, Busy
  <2>. QED BY <1>1, <2>1, <2>2 DEF Pool!Next, Busy
<1>. QED BY <1>3, <1>4 DEF StartsAtMostOne

LEMMA LocalIsPoolStep ==
  ASSUME LInv, [LocalNext]_vars
  PROVE  Pool!Next \/ Busy(runs') = Busy(runs)
<1>0. Slots /\ EnvOK /\ Keyed
  BY IInvParts DEF LInv
<1>. USE <1>0
<1>1. (\E j \in ChatJids, u \in Initiators \cup {NoUser}, w \in WriteOutcomes :
         EnqueueMessageCheck(j, u, w)) => \E j \in Jids : StartsAtMostOne(j, runs)
  BY ChatJidsAreJids, MessageCheckStarts DEF EnqueueMessageCheck, Keyed
<1>2. (\E t \in TaskIds : EnqueueTask(t)) => \E j \in Jids : StartsAtMostOne(j, runs)
  BY PlacementAssumption, OccupyBegins
     DEF EnqueueTask, RunTask, Park, Keyed, StartsAtMostOne
<1>3. (\E j \in Jids : SweepStep(j)) => \E j \in Jids : StartsAtMostOne(j, runs)
  BY StartPendingStarts DEF SweepStep, Keyed, StartsAtMostOne
<1>4. (\E j \in ChatJids, w \in WriteOutcomes : RestartIdle(j, w))
        => \E j \in Jids : StartsAtMostOne(j, runs)
  BY ChatJidsAreJids, MessageCheckStarts DEF RestartIdle, Keyed
<1>5. (\E j \in ChatJids, w \in WriteOutcomes : RetryTimerFires(j, w))
        => \E j \in Jids : StartsAtMostOne(j, runs)
  BY ChatJidsAreJids, RetryTimerFiresKeyed
<1>6. (\E call \in restarts, w \in WriteOutcomes : RestartEnds(call, w))
        => \E j \in Jids : StartsAtMostOne(j, runs)
  <2>1. \A call \in restarts : call.requested \in Jids
    BY ChatJidsAreJids DEF EnvOK
  <2>. QED BY <2>1, RestartEndsKeyed
<1>7. (\E r \in runs : FinishTask(r)) => Pool!Next
  BY FinishTaskKeyed, FinishIsPoolStep
<1>8. (\E r \in runs, ok \in BOOLEAN : FinishMessages(r, ok)) => Pool!Next
  BY FinishMessagesKeyed, FinishIsPoolStep
<1>9. (\E j \in Jids : StartsAtMostOne(j, runs))
        => (Pool!Next \/ Busy(runs') = Busy(runs))
  BY StartIsPoolStep
<1>10. CASE Arrival
  BY <1>1, <1>2, <1>4, <1>9, <1>10
     DEF Arrival, InjectMessage, RequestGracefulRestart, RestartBegins
<1>11. CASE Environment
  BY <1>11 DEF Environment, ConsumeIpc, InterruptQuery, ChangeMode, ToggleTask,
               Shutdown
<1>12. CASE Progress
  BY <1>3, <1>5, <1>6, <1>7, <1>8, <1>9, <1>12 DEF Progress, RegisterProcess
<1>13. CASE (\E j \in Jids : StopGroup(j)) \/ (\E f \in Folders : StopWindowEnds(f))
  BY <1>13 DEF StopGroup, StopWindowEnds
<1>14. CASE UNCHANGED vars
  BY <1>14 DEF vars
<1>. QED BY <1>10, <1>11, <1>12, <1>13, <1>14 DEF LocalNext, UndisturbedNext

\* In single-process operation every handler, seen through the runs in flight,
\* takes a slot of an idle key, gives one back, or hands one over: the queues, retries, stops and drains implement the slot pool.
THEOREM PoolImplemented == LocalSpec => PoolSpec
<1>1. Init => Pool!Init
  BY DEF Init, Pool!Init
<1>2. LInv /\ [LocalNext]_vars => [Pool!Next]_(Busy(runs))
  <2>1. Busy(runs)' = Busy(runs')
    BY DEF Busy
  <2>. QED BY <2>1, LocalIsPoolStep
<1>3. LInv /\ [LocalNext]_vars
        => [Pool!Next]_{<<r.jid, r.no, r.host>> : r \in runs}
  BY <1>2 DEF Busy
<1>. QED BY <1>1, <1>3, LocalInvariance, PTL DEF LocalSpec, PoolSpec, Pool!Spec
=============================================================================
