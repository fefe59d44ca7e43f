--------------------------- MODULE DispatchProofs ---------------------------
(***************************************************************************)
(* Proofs about Dispatch, for any number of pods, lanes, turns and runners: *)
(* every variable keeps its type, a turn is executed once per claim, and a  *)
(* turn that counts as handled was taken by somebody.                       *)
(***************************************************************************)
EXTENDS Dispatch, FiniteSetTheorems, TLAPS

\* The places of t in a queue, and the calls that have claimed t, or failed to,
\* and go on to push it.
Places(q, t) == {i \in DOMAIN q : q[i] = t}
Pushing(c, t) ==
  {p \in Pods : c[p][LaneOf[t]].turn = t /\ c[p][LaneOf[t]].stage = "pushing"}

\* The key of a claim covers one push.
Held(C, t) == IF t \in C THEN 1 ELSE 0

\* TurnRunsOnce is not inductive: what is in the queue and what will be pushed
\* counts like what was executed.
Counted ==
  \A t \in Turns :
    runs[t] + Cardinality(Places(queue, t)) + Cardinality(Pushing(call, t))
      <= Held(claimed, t) + lapses[t]

Taken(n, q, dropped, c, t) ==
  n[t] > 0 \/ Places(q, t) # {} \/ t \in dropped \/ Pushing(c, t) # {}

Now(t) == Taken(runs, queue, lost, call, t)
Then(t) == Taken(runs', queue', lost', call', t)

\* Whoever finds a claim may rely on it, and whoever waits has pushed.
Accounted ==
  /\ \A t \in claimed : Now(t)
  /\ \A p \in Pods : \A t \in settled[p] : Now(t)
  /\ \A p \in Pods, l \in Lanes :
       call[p][l].stage = "waiting" => Now(call[p][l].turn)

\* A call is about a turn of its lane.
OwnTurn(c, l) == c.stage # "idle" => c.turn \in Turns /\ LaneOf[c.turn] = l

OwnTurns == \A p \in Pods, l \in Lanes : OwnTurn(call[p][l], l)

Typed == TypeOK /\ OwnTurns

-----------------------------------------------------------------------------
(* Types.                                                                  *)

LEMMA IdleTyped == Idle \in Call /\ \A l \in Lanes : OwnTurn(Idle, l)
  BY DEF Idle, Call, OwnTurn

LEMMA BlockedTyped == Blocked \in Runner
  BY DEF Blocked, Runner

LEMMA InitTyped == Init => Typed
<1> SUFFICES ASSUME Init PROVE Typed
  OBVIOUS
<1>1. call \in [Pods -> [Lanes -> Call]] /\ OwnTurns
  BY IdleTyped DEF Init, OwnTurns
<1>2. runner \in [Runners -> Runner]
  BY BlockedTyped DEF Init
<1>3. queue \in Seq(Turns) /\ outputs \in [Pods -> Seq(Outcomes)]
  BY DEF Init
<1>4. settled \in [Pods -> SUBSET Turns] /\ runs \in [Turns -> Nat]
  BY DEF Init
<1>5. calls \in Nat /\ lapses \in [Turns -> Nat] /\ faults \in Nat
  BY DEF Init
<1> QED
  BY <1>1, <1>2, <1>3, <1>4, <1>5 DEF Init, Typed, TypeOK

\* A call goes to its next stage.
LEMMA StageTyped ==
  ASSUME Typed, NEW p \in Pods, NEW l \in Lanes,
         NEW stage \in {"entering", "claiming", "pushing", "waiting"},
         call[p][l].stage # "idle", To(p, l, stage)
  PROVE  call' \in [Pods -> [Lanes -> Call]] /\ OwnTurns'
<1> DEFINE c == [call[p][l] EXCEPT !.stage = stage]
<1>1. c \in Call /\ OwnTurn(c, l)
  <2>1. call[p][l] \in Call /\ OwnTurn(call[p][l], l)
    BY DEF Typed, TypeOK, OwnTurns
  <2>2. c \in Call /\ c.turn = call[p][l].turn
    BY <2>1 DEF Call
  <2> QED
    BY <2>1, <2>2 DEF OwnTurn
<1>2. call' = [call EXCEPT ![p] = [call[p] EXCEPT ![l] = c]]
  BY DEF To, Typed, TypeOK
<1> HIDE DEF c
<1> QED
  BY <1>1, <1>2 DEF Typed, TypeOK, OwnTurns

LEMMA FinishTyped ==
  ASSUME Typed, NEW p \in Pods, NEW l \in Lanes, call[p][l].stage # "idle",
         NEW success \in BOOLEAN, Finish(p, l, success)
  PROVE  /\ call' \in [Pods -> [Lanes -> Call]] /\ OwnTurns'
         /\ settled' \in [Pods -> SUBSET Turns]
         /\ handler' \in [Pods -> Lanes \cup {None}]
         /\ feed' \in [Pods -> {"off", "pending", "on", "outputs", "closes", "nothing"}]
         /\ outputs' \in [Pods -> Seq(Outcomes)]
<1>1. Idle \in Call /\ OwnTurn(Idle, l)
  BY IdleTyped
<1>2. call' = [call EXCEPT ![p] = [call[p] EXCEPT ![l] = Idle]]
  BY DEF Finish, Typed, TypeOK
<1>3. call' \in [Pods -> [Lanes -> Call]] /\ OwnTurns'
  BY <1>1, <1>2 DEF Typed, TypeOK, OwnTurns
<1>4. call[p][l].turn \in Turns
  BY DEF Typed, OwnTurns, OwnTurn
<1>5. settled' \in [Pods -> SUBSET Turns]
  BY <1>4 DEF Finish, Typed, TypeOK
<1>6. /\ handler' \in [Pods -> Lanes \cup {None}]
      /\ feed' \in [Pods -> {"off", "pending", "on", "outputs", "closes", "nothing"}]
      /\ outputs' \in [Pods -> Seq(Outcomes)]
  <2>1. <<>> \in Seq(Outcomes)
    OBVIOUS
  <2>2. \/ UNCHANGED <<feed, outputs>>
        \/ feed' = [feed EXCEPT ![p] = "off"] /\ outputs' = [outputs EXCEPT ![p] = <<>>]
    BY DEF Finish
  <2>3. handler' = [handler EXCEPT ![p] = None]
    BY DEF Finish
  <2> HIDE DEF Outcomes
  <2> QED
    BY <2>1, <2>2, <2>3 DEF Typed, TypeOK
<1> QED
  BY <1>3, <1>5, <1>6

LEMMA DeliverTyped ==
  ASSUME Typed, Deliver
  PROVE  runner' \in [Runners -> Runner] /\ bridge' \subseteq Pods
<1>1. \A r \in Runners : [runner[r] EXCEPT !.close = TRUE] \in Runner
  BY DEF Typed, TypeOK, Runner
<1> QED
  BY <1>1 DEF Deliver, Typed, TypeOK

LEMMA PublishTyped ==
  ASSUME Typed, NEW status \in Outcomes, Publish(status)
  PROVE  outputs' \in [Pods -> Seq(Outcomes)]
<1>1. \A p \in Pods : Append(outputs[p], status) \in Seq(Outcomes)
  BY DEF Typed, TypeOK
<1> QED
  BY <1>1 DEF Publish, Typed, TypeOK

LEMMA EnterTyped ==
  ASSUME Typed, NEW r \in Runners,
         \/ Return(r)
         \/ \E phase \in {"adapting", "query", "answered", "following", "waiting"} :
              Enter(r, phase)
         \/ \E phase \in {"closing", "ending"} :
              runner' = [runner EXCEPT ![r] =
                           [runner[r] EXCEPT !.close = FALSE, !.phase = phase]]
         \/ \E phase \in {"stdin", "down"} :
              runner' = [runner EXCEPT ![r] = [Blocked EXCEPT !.phase = phase]]
         \/ \E t \in Turns : runner' = [runner EXCEPT ![r] =
              [Blocked EXCEPT !.phase = "starting", !.turn = t]]
  PROVE  runner' \in [Runners -> Runner]
<1>1. Blocked \in Runner
  BY BlockedTyped
<1>2. \A phase \in {"adapting", "query", "answered", "following", "waiting", "stdin",
                      "down"} :
        /\ [runner[r] EXCEPT !.phase = phase] \in Runner
        /\ [Blocked EXCEPT !.phase = phase] \in Runner
  BY <1>1 DEF Typed, TypeOK, Runner
<1>3. \A t \in Turns : [Blocked EXCEPT !.phase = "starting", !.turn = t] \in Runner
  BY <1>1 DEF Runner
<1>4. \A phase : Enter(r, phase) =>
        runner' = [runner EXCEPT ![r] = [runner[r] EXCEPT !.phase = phase]]
  BY DEF Enter, Typed, TypeOK
<1>5. \A phase \in {"closing", "ending"} :
        [runner[r] EXCEPT !.close = FALSE, !.phase = phase] \in Runner
  BY DEF Typed, TypeOK, Runner
<1>6. \E x \in Runner : runner' = [runner EXCEPT ![r] = x]
  BY <1>1, <1>2, <1>3, <1>4, <1>5 DEF Return
<1> QED
  BY <1>6 DEF Typed, TypeOK

LEMMA FaultTyped ==
  ASSUME Typed, Fault \/ UNCHANGED faults
  PROVE  faults' \in Nat
  BY DEF Fault, Typed, TypeOK

LEMMA CallStepTyped ==
  ASSUME Typed, NEW p \in Pods, NEW l \in Lanes, CallStep(p, l)
  PROVE  Typed'
<1>1. CASE Register(p, l)
  <2>1. call' \in [Pods -> [Lanes -> Call]] /\ OwnTurns'
    BY <1>1, StageTyped DEF Register
  <2> QED
    BY <1>1, <2>1 DEF Register, redis, history, Typed, TypeOK
<1>2. CASE Claim(p, l)
  <2>1. call[p][l].stage = "claiming" /\ call[p][l].turn \in Turns
    BY <1>2 DEF Claim, Typed, OwnTurns, OwnTurn
  <2>2. /\ claimed' \subseteq Turns
        /\ lapses' \in [Turns -> Nat] /\ faults' \in Nat
    <3> DEFINE t == call[p][l].turn
    <3>1. \/ UNCHANGED lapses
          \/ lapses' = [lapses EXCEPT ![t] = lapses[t] + 1]
      BY <1>2 DEF Claim
    <3>2. lapses[t] + 1 \in Nat
      BY <2>1 DEF Typed, TypeOK
    <3>3. lapses' \in [Turns -> Nat]
      BY <2>1, <3>1, <3>2 DEF Typed, TypeOK
    <3>4. faults' \in Nat
      BY <1>2, FaultTyped DEF Claim
    <3>5. claimed' \in {claimed, claimed \cup {call[p][l].turn}}
      BY <1>2 DEF Claim
    <3> QED
      BY <2>1, <3>3, <3>4, <3>5 DEF Typed, TypeOK
  <2>3. CASE Skip(p, l)
    BY <1>2, <2>1, <2>2, <2>3, FinishTyped DEF Skip, Claim, Typed, TypeOK
  <2>4. CASE To(p, l, "pushing") /\ UNCHANGED watch
    BY <1>2, <2>1, <2>2, <2>4, StageTyped DEF Claim, watch, Typed, TypeOK
  <2> QED
    BY <1>2, <2>3, <2>4 DEF Claim
<1>3. CASE Push(p, l)
  <2>1. call[p][l].stage = "pushing" /\ call[p][l].turn \in Turns
    BY <1>3 DEF Push, Typed, OwnTurns, OwnTurn
  <2>2. <<call[p][l].turn>> \o queue \in Seq(Turns)
    BY <2>1 DEF Typed, TypeOK
  <2>3. /\ queue' \in Seq(Turns) /\ lost' \subseteq Turns /\ faults' \in Nat
    <3>1. queue' \in {queue, <<call[p][l].turn>> \o queue}
      BY <1>3 DEF Push
    <3>2. lost' \in {lost, lost \cup {call[p][l].turn}}
      BY <1>3 DEF Push
    <3>3. faults' \in Nat
      BY <1>3, FaultTyped DEF Push
    <3> QED
      BY <2>1, <2>2, <3>1, <3>2, <3>3 DEF Typed, TypeOK
  <2>4. CASE Skip(p, l)
    BY <1>3, <2>1, <2>3, <2>4, FinishTyped DEF Skip, Push, Typed, TypeOK
  <2>5. CASE To(p, l, "waiting") /\ UNCHANGED watch
    BY <1>3, <2>1, <2>3, <2>5, StageTyped DEF Push, watch, Typed, TypeOK
  <2> QED
    BY <1>3, <2>4, <2>5 DEF Push
<1>4. CASE Settle(p, l)
  <2>1. /\ runner' \in [Runners -> Runner] /\ bridge' \subseteq Pods
        /\ faults' \in Nat
    BY <1>4, DeliverTyped DEF Settle, PublishClose, Fault, Typed, TypeOK
  <2> QED
    BY <1>4, <2>1, FinishTyped DEF Settle, redis, Typed, TypeOK
<1> QED
  BY <1>1, <1>2, <1>3, <1>4 DEF CallStep

LEMMA BeginTyped ==
  ASSUME Typed, NEW p \in Pods, NEW t \in Turns, Begin(p, t)
  PROVE  Typed'
<1> DEFINE c == [Idle EXCEPT !.stage = "entering", !.turn = t]
<1>1. LaneOf[t] \in Lanes
  BY LanesAssumption
<1>2. c \in Call /\ OwnTurn(c, LaneOf[t])
  BY IdleTyped DEF Call, OwnTurn
<1>3. call' = [call EXCEPT ![p] = [call[p] EXCEPT ![LaneOf[t]] = c]]
  BY <1>1 DEF Begin, Typed, TypeOK
<1> HIDE DEF c
<1>4. call' \in [Pods -> [Lanes -> Call]] /\ OwnTurns'
  BY <1>1, <1>2, <1>3 DEF Typed, TypeOK, OwnTurns
<1> QED
  BY <1>4 DEF Begin, redis, Typed, TypeOK

LEMMA HandleOutputTyped ==
  ASSUME Typed, NEW p \in Pods, HandleOutput(p)
  PROVE  Typed'
<1> DEFINE l == handler[p]
<1>1. Tail(outputs[p]) \in Seq(Outcomes) /\ Head(outputs[p]) \in Outcomes
  BY DEF HandleOutput, Typed, TypeOK
<1>2. CASE call' = call
  BY <1>1, <1>2 DEF HandleOutput, redis, history, OwnTurns, Typed, TypeOK
<1>3. CASE call' = [call EXCEPT ![p][l].got = Head(outputs[p])] /\ l # None
  <2> DEFINE c == [call[p][l] EXCEPT !.got = Head(outputs[p])]
  <2>1. l \in Lanes
    BY <1>3 DEF Typed, TypeOK
  <2>2. call[p][l] \in Call /\ OwnTurn(call[p][l], l)
    BY <2>1 DEF Typed, TypeOK, OwnTurns
  <2>3. c \in Call /\ c.turn = call[p][l].turn /\ c.stage = call[p][l].stage
    BY <1>1, <2>2 DEF Call
  <2>4. OwnTurn(c, l)
    BY <2>2, <2>3 DEF OwnTurn
  <2>5. call' = [call EXCEPT ![p] = [call[p] EXCEPT ![l] = c]]
    BY <1>3, <2>1 DEF Typed, TypeOK
  <2> HIDE DEF c, l
  <2>6. call' \in [Pods -> [Lanes -> Call]] /\ OwnTurns'
    BY <2>1, <2>3, <2>4, <2>5 DEF Typed, TypeOK, OwnTurns
  <2> QED
    BY <1>1, <2>6 DEF HandleOutput, redis, history, Typed, TypeOK
<1> QED
  BY <1>2, <1>3 DEF HandleOutput

LEMMA CrashTyped ==
  ASSUME Typed, NEW p \in Pods, Crash(p)
  PROVE  Typed'
<1>1. call' \in [Pods -> [Lanes -> Call]] /\ OwnTurns'
  BY IdleTyped DEF Crash, Typed, TypeOK, OwnTurns
<1>2. lost' \subseteq Turns
  <2>1. \A l \in Lanes : call[p][l].stage = "pushing" => call[p][l].turn \in Turns
    BY DEF Typed, OwnTurns, OwnTurn
  <2> QED
    BY <2>1 DEF Crash, Typed, TypeOK
<1>3. outputs' \in [Pods -> Seq(Outcomes)]
  <2>1. <<>> \in Seq(Outcomes)
    OBVIOUS
  <2> QED
    BY <2>1 DEF Crash, Typed, TypeOK
<1> QED
  BY <1>1, <1>2, <1>3 DEF Crash, Fault, redis, Typed, TypeOK

LEMMA PodStepTyped ==
  ASSUME Typed, NEW p \in Pods, PodStep(p)
  PROVE  Typed'
<1>1. CASE Confirm(p)
  <2>1. /\ feed' \in [Pods -> {"off", "pending", "on", "outputs", "closes", "nothing"}]
        /\ faults' \in Nat
    BY <1>1, FaultTyped DEF Confirm, Typed, TypeOK
  <2> QED
    BY <1>1, <2>1 DEF Confirm, redis, OwnTurns, Typed, TypeOK
<1>2. CASE Bridge(p)
  BY <1>2 DEF Bridge, history, OwnTurns, Typed, TypeOK
<1> QED
  BY <1>1, <1>2, HandleOutputTyped DEF PodStep

LEMMA CloseStdinTyped ==
  ASSUME Typed, CloseStdin
  PROVE  Typed'
  BY DeliverTyped DEF CloseStdin, redis, history, OwnTurns, Typed, TypeOK

LEMMA ClaimExpiresTyped ==
  ASSUME Typed, NEW t \in Turns, ClaimExpires(t)
  PROVE  Typed'
  BY DEF ClaimExpires, host, watch, OwnTurns, Typed, TypeOK

\* A runner's step leaves the calls alone.
LEMMA RunnerStepTyped ==
  ASSUME Typed, NEW r \in Runners,
         RunnerStep(r) \/ RunnerTurn(r)
  PROVE  Typed'
<1>1. CASE Pop(r)
  <2>1. Head(queue) \in Turns /\ Tail(queue) \in Seq(Turns)
    BY <1>1 DEF Pop, Typed, TypeOK
  <2>2. runner' \in [Runners -> Runner]
    BY <1>1, <2>1, EnterTyped DEF Pop
  <2> QED
    BY <1>1, <2>1, <2>2 DEF Pop, host, watch, OwnTurns, Typed, TypeOK
<1>2. CASE Subscribe(r)
  BY <1>2, EnterTyped DEF Subscribe, host, watch, history, OwnTurns, Typed, TypeOK
<1>3. CASE AdapterReturns(r)
  BY <1>3, EnterTyped, PublishTyped
  DEF AdapterReturns, redis, history, Outcomes, OwnTurns, Typed, TypeOK
<1>4. CASE ClosedInQuery(r)
  BY <1>4, EnterTyped, PublishTyped
  DEF ClosedInQuery, redis, history, Outcomes, OwnTurns, Typed, TypeOK
<1>5. CASE QueryEnds(r)
  BY <1>5, EnterTyped, PublishTyped
  DEF QueryEnds, redis, history, Outcomes, OwnTurns, Typed, TypeOK
<1>6. CASE LeaveWaiting(r)
  BY <1>6, EnterTyped
  DEF LeaveWaiting, Leave, ConsumeClose, host, watch, history, OwnTurns, Typed, TypeOK
<1>7. CASE Restart(r)
  BY <1>7, EnterTyped DEF Restart, host, watch, history, OwnTurns, Typed, TypeOK
<1>8. CASE Answer(r)
  BY <1>8, EnterTyped, PublishTyped
  DEF Answer, redis, history, Outcomes, OwnTurns, Typed, TypeOK
<1>9. CASE FailRunner(r)
  <2>1. runner' \in [Runners -> Runner]
    BY <1>9, EnterTyped DEF FailRunner
  <2>2. outputs' \in [Pods -> Seq(Outcomes)]
    BY <1>9, PublishTyped DEF FailRunner, Outcomes
  <2>3. faults' \in Nat
    BY <1>9, FaultTyped DEF FailRunner
  <2> QED
    BY <1>9, <2>1, <2>2, <2>3 DEF FailRunner, redis, OwnTurns, Typed, TypeOK
<1>10. CASE TakeClose(r)
  <2>1. \E phase \in {"closing", "ending"} :
          runner' = [runner EXCEPT ![r] =
                       [runner[r] EXCEPT !.close = FALSE, !.phase = phase]]
    BY <1>10 DEF TakeClose, Typed, TypeOK, Runner
  <2>2. runner' \in [Runners -> Runner]
    BY <2>1, EnterTyped
  <2> QED
    BY <1>10, <2>2
    DEF TakeClose, ConsumeClose, host, watch, history, OwnTurns, Typed, TypeOK
<1>11. CASE Follow(r)
  BY <1>11, EnterTyped, PublishTyped
  DEF Follow, redis, history, Outcomes, OwnTurns, Typed, TypeOK
<1>12. CASE FollowEnds(r)
  BY <1>12, EnterTyped, PublishTyped
  DEF FollowEnds, redis, history, Outcomes, OwnTurns, Typed, TypeOK
<1>13. CASE LeaveFollowing(r)
  BY <1>13, EnterTyped, PublishTyped
  DEF LeaveFollowing, Leave, history, Outcomes, OwnTurns, Typed, TypeOK
<1>14. CASE RetryQuery(r)
  <2>1. runner' \in [Runners -> Runner]
    BY <1>14, EnterTyped DEF RetryQuery
  <2>2. outputs' \in [Pods -> Seq(Outcomes)]
    BY <1>14, PublishTyped DEF RetryQuery, Outcomes, Typed, TypeOK
  <2>3. faults' \in Nat
    BY <1>14, FaultTyped DEF RetryQuery
  <2> QED
    BY <1>14, <2>1, <2>2, <2>3 DEF RetryQuery, redis, OwnTurns, Typed, TypeOK
<1> QED
  BY <1>1, <1>2, <1>3, <1>4, <1>5, <1>6, <1>7, <1>8, <1>9, <1>10, <1>11, <1>12,
     <1>13, <1>14
  DEF RunnerStep, RunnerTurn

LEMMA StepTyped == Typed /\ [Next]_vars => Typed'
<1> SUFFICES ASSUME Typed, [Next]_vars PROVE Typed'
  OBVIOUS
<1>1. CASE UNCHANGED vars
  BY <1>1 DEF vars, redis, host, watch, history, OwnTurns, Typed, TypeOK
<1>2. CASE Next
  BY <1>2, BeginTyped, CallStepTyped, PodStepTyped, CrashTyped, CloseStdinTyped,
     ClaimExpiresTyped, RunnerStepTyped DEF Next
<1> QED
  BY <1>1, <1>2

\* Every variable keeps its type.
THEOREM TypeCorrect == Spec => []TypeOK
<1>1. Typed => TypeOK
  BY DEF Typed
<1> QED
  BY <1>1, InitTyped, StepTyped, PTL DEF Spec

-----------------------------------------------------------------------------
(* Counting.                                                               *)

LEMMA PlacesFinite ==
  ASSUME NEW q \in Seq(Turns), NEW t
  PROVE  IsFiniteSet(Places(q, t)) /\ Cardinality(Places(q, t)) \in Nat
<1>1. DOMAIN q = 1..Len(q) /\ Len(q) \in Nat
  OBVIOUS
<1>2. IsFiniteSet(DOMAIN q)
  BY <1>1, FS_Interval
<1>3. Places(q, t) \in SUBSET (DOMAIN q)
  BY DEF Places
<1> QED
  BY <1>2, <1>3, FS_Subset, FS_CardinalityType

\* The new head is one place more for its turn; the other places move by one.
LEMMA PlacesPrepended ==
  ASSUME NEW q \in Seq(Turns), NEW u \in Turns, NEW t
  PROVE  Cardinality(Places(<<u>> \o q, t))
           = Cardinality(Places(q, t)) + (IF u = t THEN 1 ELSE 0)
<1> DEFINE old == Places(q, t)
           moved == {i \in 2..(Len(q) + 1) : q[i - 1] = t}
           f == [i \in old |-> i + 1]
<1>1. \A i \in old : i \in 1..Len(q) /\ q[i] = t
  BY DEF Places
<1>2. f \in [old -> moved]
  BY <1>1
<1>3. \A i, j \in old : f[i] = f[j] => i = j
  BY <1>1
<1>4. \A j \in moved : \E i \in old : f[i] = j
  <2> SUFFICES ASSUME NEW j \in moved PROVE \E i \in old : f[i] = j
    OBVIOUS
  <2>1. j - 1 \in old
    BY DEF Places
  <2> QED
    BY <2>1
<1>5. f \in Bijection(old, moved)
  BY <1>2, <1>3, <1>4 DEF Bijection, Injection, IsInjective, Surjection
<1>6. ExistsBijection(old, moved)
  BY <1>5 DEF ExistsBijection
<1>7. IsFiniteSet(moved) /\ Cardinality(moved) = Cardinality(old)
  BY <1>6, PlacesFinite, FS_Bijection
<1>8. Places(<<u>> \o q, t) = moved \cup (IF u = t THEN {1} ELSE {})
  BY DEF Places
<1>9. 1 \notin moved
  OBVIOUS
<1> HIDE DEF moved, old
<1>10. CASE u = t
  BY <1>7, <1>8, <1>9, <1>10, FS_AddElement DEF old
<1>11. CASE u # t
  <2>1. Places(<<u>> \o q, t) = moved
    BY <1>8, <1>11
  <2> QED
    BY <1>7, <1>11, <2>1, PlacesFinite DEF old
<1> QED
  BY <1>10, <1>11

LEMMA PushingFinite ==
  ASSUME NEW c, NEW t
  PROVE  IsFiniteSet(Pushing(c, t)) /\ Cardinality(Pushing(c, t)) \in Nat
<1>1. Pushing(c, t) \in SUBSET Pods
  BY DEF Pushing
<1> QED
  BY <1>1, DispatchPodsAssumption, FS_Subset, FS_CardinalityType

-----------------------------------------------------------------------------
(* What a step of a call makes of Pushing.                                 *)

\* The call of lane l on p becomes c.
Moves(p, l, c) ==
  /\ call'[p][l] = c
  /\ \A q \in Pods, m \in Lanes :
       q # p \/ m # l => call'[q][m] = call[q][m]

LEMMA PushingChanged ==
  ASSUME Typed, NEW p \in Pods, NEW l \in Lanes, NEW c,
         Moves(p, l, c), NEW t \in Turns
  PROVE  /\ LaneOf[t] # l => Pushing(call', t) = Pushing(call, t)
         /\ LaneOf[t] = l =>
              Pushing(call', t) = IF c.turn = t /\ c.stage = "pushing"
                            THEN Pushing(call, t) \cup {p} ELSE Pushing(call, t) \ {p}
<1>1. LaneOf[t] \in Lanes
  BY LanesAssumption
<1>2. \A q \in Pods : q # p \/ LaneOf[t] # l =>
        (q \in Pushing(call', t) <=> q \in Pushing(call, t))
  BY <1>1 DEF Pushing, Moves
<1>3. LaneOf[t] = l =>
        (p \in Pushing(call', t) <=> c.turn = t /\ c.stage = "pushing")
  BY DEF Pushing, Moves
<1>4. Pushing(call', t) \subseteq Pods /\ Pushing(call, t) \subseteq Pods
  BY DEF Pushing
<1> QED
  BY <1>2, <1>3, <1>4

\* A call that neither was at its push nor gets there.
LEMMA PushingKept ==
  ASSUME Typed, NEW p \in Pods, NEW l \in Lanes, NEW c,
         Moves(p, l, c),
         call[p][l].stage # "pushing", c.stage # "pushing", NEW t \in Turns
  PROVE  Pushing(call', t) = Pushing(call, t)
<1>1. LaneOf[t] = l => p \notin Pushing(call, t)
  BY DEF Pushing
<1> QED
  BY <1>1, PushingChanged

LEMMA StageCall ==
  ASSUME Typed, NEW p \in Pods, NEW l \in Lanes, NEW stage, To(p, l, stage)
  PROVE  \E c : /\ Moves(p, l, c)
                /\ c.turn = call[p][l].turn /\ c.stage = stage
<1> DEFINE c == [call[p][l] EXCEPT !.stage = stage]
<1>1. call[p][l] \in Call
  BY DEF Typed, TypeOK
<1>2. c.turn = call[p][l].turn /\ c.stage = stage
  BY <1>1 DEF Call
<1>3. Moves(p, l, c)
  BY DEF Moves, To, Typed, TypeOK
<1> QED
  BY <1>2, <1>3

LEMMA FinishCall ==
  ASSUME Typed, NEW p \in Pods, NEW l \in Lanes, NEW success, Finish(p, l, success)
  PROVE  Moves(p, l, Idle)
  BY DEF Moves, Finish, Typed, TypeOK

\* A claim is followed by a push ...
LEMMA PushingBegins ==
  ASSUME Typed, NEW p \in Pods, NEW l \in Lanes, To(p, l, "pushing"),
         call[p][l].stage = "claiming", NEW t \in Turns
  PROVE  /\ t # call[p][l].turn => Pushing(call', t) = Pushing(call, t)
         /\ t = call[p][l].turn =>
              /\ Pushing(call', t) # {}
              /\ Cardinality(Pushing(call', t)) = Cardinality(Pushing(call, t)) + 1
<1>1. PICK c : /\ Moves(p, l, c)
               /\ c.turn = call[p][l].turn /\ c.stage = "pushing"
  BY StageCall
<1>2. LaneOf[t] = l => p \notin Pushing(call, t)
  BY DEF Pushing
<1>3. LaneOf[call[p][l].turn] = l
  BY DEF Typed, OwnTurns, OwnTurn
<1>4. CASE t # call[p][l].turn
  BY <1>1, <1>2, <1>4, PushingChanged
<1>5. CASE t = call[p][l].turn
  <2>1. Pushing(call', t) = Pushing(call, t) \cup {p}
    BY <1>1, <1>3, <1>5, PushingChanged
  <2> QED
    BY <1>2, <1>3, <1>5, <2>1, PushingFinite, FS_AddElement
<1> QED
  BY <1>4, <1>5

\* ... and the push takes the call out of Pushing.
LEMMA PushingEnds ==
  ASSUME Typed, NEW p \in Pods, NEW l \in Lanes, NEW c,
         Moves(p, l, c),
         call[p][l].stage = "pushing", c.stage # "pushing", NEW t \in Turns
  PROVE  /\ t # call[p][l].turn => Pushing(call', t) = Pushing(call, t)
         /\ t = call[p][l].turn =>
              Cardinality(Pushing(call', t)) = Cardinality(Pushing(call, t)) - 1
<1>1. LaneOf[call[p][l].turn] = l
  BY DEF Typed, OwnTurns, OwnTurn
<1>2. CASE t # call[p][l].turn
  <2>1. LaneOf[t] = l => p \notin Pushing(call, t)
    BY <1>2 DEF Pushing
  <2> QED
    BY <1>2, <2>1, PushingChanged
<1>3. CASE t = call[p][l].turn
  <2>1. Pushing(call', t) = Pushing(call, t) \ {p} /\ p \in Pushing(call, t)
    BY <1>1, <1>3, PushingChanged DEF Pushing
  <2>2. Cardinality(Pushing(call, t) \ {p}) = Cardinality(Pushing(call, t)) - 1
    BY <2>1, PushingFinite, FS_RemoveElement
  <2> QED
    BY <1>3, <2>1, <2>2
<1> QED
  BY <1>2, <1>3

-----------------------------------------------------------------------------
(* What keeps the two invariants.                                          *)

Inv == Typed /\ Counted /\ Accounted

LEMMA InitInv == Init => Inv
<1> SUFFICES ASSUME Init PROVE Inv
  OBVIOUS
<1>1. ASSUME NEW t \in Turns
      PROVE  Places(queue, t) = {} /\ Pushing(call, t) = {}
  <2>1. LaneOf[t] \in Lanes
    BY LanesAssumption
  <2>2. \A p \in Pods : call[p][LaneOf[t]].stage = "idle"
    BY <2>1 DEF Init, Idle
  <2>3. queue = <<>>
    BY DEF Init
  <2> QED
    BY <2>2, <2>3 DEF Places, Pushing
<1>2. Cardinality({}) = 0
  BY FS_EmptySet
<1>3. Counted
  <2> SUFFICES ASSUME NEW t \in Turns
               PROVE  runs[t] + Cardinality(Places(queue, t))
                        + Cardinality(Pushing(call, t)) <= Held(claimed, t) + lapses[t]
    BY DEF Counted
  <2>1. runs[t] = 0 /\ lapses[t] = 0 /\ claimed = {}
    BY DEF Init
  <2> QED
    BY <1>1, <1>2, <2>1 DEF Held
<1>4. Accounted
  BY DEF Init, Accounted, Idle
<1> QED
  BY <1>3, <1>4, InitTyped DEF Inv

LEMMA AccountedKept ==
  ASSUME Typed, Accounted,
         \A t \in Turns : Now(t) => Then(t),
         claimed' \subseteq Turns,
         \A t \in claimed' : t \in claimed \/ Then(t),
         \A p \in Pods : \A t \in settled'[p] :
           t \in settled[p] \/ t \in claimed \/ Then(t),
         \A p \in Pods, l \in Lanes :
           call'[p][l].stage = "waiting" =>
             \/ Then(call'[p][l].turn)
             \/ /\ call[p][l].stage = "waiting"
                /\ call'[p][l].turn = call[p][l].turn
  PROVE  Accounted'
<1>1. \A t \in claimed : Then(t)
  BY DEF Accounted, Typed, TypeOK
<1>2. \A p \in Pods : \A t \in settled[p] : Then(t)
  BY DEF Accounted, Typed, TypeOK
<1>3. \A p \in Pods, l \in Lanes :
        call[p][l].stage = "waiting" => Then(call[p][l].turn)
  BY DEF Accounted, Typed, OwnTurns, OwnTurn
<1>4. \A t \in claimed' : Then(t)
  BY <1>1
<1>5. \A p \in Pods : \A t \in settled'[p] : Then(t)
  BY <1>1, <1>2
<1>6. \A p \in Pods, l \in Lanes :
        call'[p][l].stage = "waiting" => Then(call'[p][l].turn)
  BY <1>3
<1> QED
  BY <1>4, <1>5, <1>6 DEF Accounted, Now, Then

\* A step that leaves the queue, the claims and the pushes alone.
LEMMA QuietStepKeeps ==
  ASSUME Inv, Typed', UNCHANGED <<queue, claimed, runs, lapses, lost>>,
         \A t \in Turns : Pushing(call', t) = Pushing(call, t),
         \A p \in Pods : \A t \in settled'[p] : t \in settled[p] \/ Now(t),
         \A p \in Pods, l \in Lanes :
           call'[p][l].stage = "waiting" =>
             call[p][l].stage = "waiting" /\ call'[p][l].turn = call[p][l].turn
  PROVE  Inv'
<1>1. \A t \in Turns : Now(t) <=> Then(t)
  BY DEF Now, Then, Taken
<1>2. \A p \in Pods : settled'[p] \subseteq Turns
  BY DEF Typed, TypeOK
<1>3. Accounted'
  BY <1>1, <1>2, AccountedKept DEF Inv, Typed, TypeOK
<1>4. Counted'
  BY DEF Inv, Counted
<1> QED
  BY <1>3, <1>4 DEF Inv

LEMMA CallsUntouchedKeeps ==
  ASSUME Inv, Typed', UNCHANGED <<queue, claimed, runs, lapses, lost, call, settled>>
  PROVE  Inv'
  BY QuietStepKeeps

LEMMA FinishQuiet ==
  ASSUME Inv, Typed', NEW p \in Pods, NEW l \in Lanes, NEW success \in BOOLEAN,
         Finish(p, l, success), call[p][l].stage \notin {"idle", "pushing"},
         success => Now(call[p][l].turn),
         UNCHANGED <<queue, claimed, runs, lapses, lost>>
  PROVE  Inv'
<1>1. Moves(p, l, Idle) /\ Idle.stage = "idle"
  BY FinishCall DEF Inv, Idle
<1>2. \A t \in Turns : Pushing(call', t) = Pushing(call, t)
  BY <1>1, PushingKept DEF Inv
<1>3. \A q \in Pods : \A t \in settled'[q] : t \in settled[q] \/ Now(t)
  BY DEF Finish, Inv, Typed, TypeOK
<1>4. \A q \in Pods, m \in Lanes :
        call'[q][m].stage = "waiting" =>
          call[q][m].stage = "waiting" /\ call'[q][m].turn = call[q][m].turn
  BY <1>1 DEF Moves
<1> QED
  BY <1>2, <1>3, <1>4, QuietStepKeeps

LEMMA RegisterKeeps ==
  ASSUME Inv, Typed', NEW p \in Pods, NEW l \in Lanes, Register(p, l)
  PROVE  Inv'
<1>1. PICK c : Moves(p, l, c) /\ c.turn = call[p][l].turn /\ c.stage = "claiming"
  BY StageCall DEF Register, Inv
<1>2. \A t \in Turns : Pushing(call', t) = Pushing(call, t)
  BY <1>1, PushingKept DEF Register, Inv
<1>3. \A q \in Pods, m \in Lanes :
        call'[q][m].stage = "waiting" =>
          call[q][m].stage = "waiting" /\ call'[q][m].turn = call[q][m].turn
  BY <1>1 DEF Moves
<1> QED
  BY <1>2, <1>3, QuietStepKeeps DEF Register, redis, history

LEMMA BeginKeeps ==
  ASSUME Inv, Typed', NEW p \in Pods, NEW t \in Turns, Begin(p, t)
  PROVE  Inv'
<1> DEFINE l == LaneOf[t]
           c == [Idle EXCEPT !.stage = "entering", !.turn = t]
<1>1. l \in Lanes /\ c.stage = "entering" /\ call[p][l].stage = "idle"
  BY LanesAssumption DEF Idle, Begin
<1>2. Moves(p, l, c)
  BY <1>1 DEF Begin, Moves, Inv, Typed, TypeOK
<1> HIDE DEF c, l
<1>3. \A u \in Turns : Pushing(call', u) = Pushing(call, u)
  BY <1>1, <1>2, PushingKept DEF Inv
<1>4. \A q \in Pods, m \in Lanes :
        call'[q][m].stage = "waiting" =>
          call[q][m].stage = "waiting" /\ call'[q][m].turn = call[q][m].turn
  BY <1>1, <1>2 DEF Moves
<1> QED
  BY <1>3, <1>4, QuietStepKeeps DEF Begin, redis

LEMMA HandleOutputKeeps ==
  ASSUME Inv, Typed', NEW p \in Pods, HandleOutput(p)
  PROVE  Inv'
<1> DEFINE l == handler[p]
<1>1. CASE call' = call
  BY <1>1, CallsUntouchedKeeps DEF HandleOutput, redis, history
<1>2. CASE call' = [call EXCEPT ![p][l].got = Head(outputs[p])] /\ l # None
  <2>1. l \in Lanes
    BY <1>2 DEF Inv, Typed, TypeOK
  <2>2. \A q \in Pods, m \in Lanes :
          /\ call'[q][m].stage = call[q][m].stage
          /\ call'[q][m].turn = call[q][m].turn
    BY <1>2, <2>1 DEF Inv, Typed, TypeOK, Call
  <2>3. \A t \in Turns : Pushing(call', t) = Pushing(call, t)
    BY <2>2, LanesAssumption DEF Pushing
  <2> QED
    BY <2>2, <2>3, QuietStepKeeps DEF HandleOutput, redis, history
<1> QED
  BY <1>1, <1>2 DEF HandleOutput

LEMMA RoomIsNat ==
  ASSUME Typed, NEW t \in Turns
  PROVE  /\ runs[t] \in Nat /\ lapses[t] \in Nat
         /\ Held(claimed, t) \in {0, 1} /\ Held(claimed', t) \in {0, 1}
         /\ Cardinality(Places(queue, t)) \in Nat
         /\ Cardinality(Pushing(call, t)) \in Nat
         /\ Cardinality(Pushing(call', t)) \in Nat
  BY PlacesFinite, PushingFinite DEF Typed, TypeOK, Held

\* A claim makes room for the push it begins; so does a lapse.
LEMMA ClaimKeeps ==
  ASSUME Inv, Typed', NEW p \in Pods, NEW l \in Lanes, Claim(p, l)
  PROVE  Inv'
<1> DEFINE t == call[p][l].turn
<1>1. call[p][l].stage = "claiming" /\ t \in Turns
  BY DEF Claim, Inv, Typed, OwnTurns, OwnTurn
<1>2. CASE t \in claimed /\ Skip(p, l) /\ UNCHANGED <<claimed, lapses, faults>>
  <2>1. Now(t)
    BY <1>2 DEF Inv, Accounted
  <2> QED
    BY <1>1, <1>2, <2>1, FinishQuiet DEF Claim, Skip
<1>3. CASE /\ To(p, l, "pushing") /\ UNCHANGED watch
           /\ \/ t \notin claimed /\ claimed' = claimed \cup {t} /\ UNCHANGED lapses
              \/ /\ claimed' \in {claimed, claimed \cup {t}}
                 /\ lapses' = [lapses EXCEPT ![t] = lapses[t] + 1]
  <2>1. UNCHANGED <<queue, runs, lost>>
    BY DEF Claim
  <2>2. \A u \in Turns :
          /\ u # t => Pushing(call', u) = Pushing(call, u)
          /\ u = t =>
               /\ Pushing(call', u) # {}
               /\ Cardinality(Pushing(call', u)) = Cardinality(Pushing(call, u)) + 1
    BY <1>1, <1>3, PushingBegins DEF Inv
  <2>3. ASSUME NEW u \in Turns
        PROVE  runs'[u] + Cardinality(Places(queue', u)) + Cardinality(Pushing(call', u))
                 <= Held(claimed', u) + lapses'[u]
    <3>1. runs[u] + Cardinality(Places(queue, u)) + Cardinality(Pushing(call, u))
            <= Held(claimed, u) + lapses[u]
      BY DEF Inv, Counted
    <3>2. CASE u # t
      <4>1. Held(claimed', u) = Held(claimed, u) /\ lapses'[u] = lapses[u]
        BY <1>3, <3>2 DEF Held, Inv, Typed, TypeOK
      <4> QED
        BY <2>1, <2>2, <3>1, <3>2, <4>1
    <3>3. CASE u = t
      <4>1. Held(claimed', u) + lapses'[u] >= Held(claimed, u) + lapses[u] + 1
        <5>1. lapses[u] \in Nat
          BY RoomIsNat DEF Inv
        <5>2. CASE t \notin claimed /\ claimed' = claimed \cup {t} /\ UNCHANGED lapses
          BY <3>3, <5>1, <5>2 DEF Held
        <5>3. CASE /\ claimed' \in {claimed, claimed \cup {t}}
                   /\ lapses' = [lapses EXCEPT ![t] = lapses[t] + 1]
          <6>1. lapses'[u] = lapses[u] + 1
            BY <1>1, <3>3, <5>3 DEF Inv, Typed, TypeOK
          <6>2. Held(claimed', u) \in {0, 1} /\ (u \in claimed => u \in claimed')
            BY <5>3 DEF Held
          <6> QED
            BY <5>1, <6>1, <6>2 DEF Held
        <5> QED
          BY <1>3, <5>2, <5>3
      <4>2. /\ Cardinality(Pushing(call', u)) = Cardinality(Pushing(call, u)) + 1
            /\ queue' = queue /\ runs' = runs
        BY <2>1, <2>2, <3>3
      <4>3. lapses'[u] \in Nat
        BY DEF Typed, TypeOK
      <4>4. /\ runs[u] \in Nat /\ lapses[u] \in Nat
            /\ Held(claimed, u) \in {0, 1} /\ Held(claimed', u) \in {0, 1}
            /\ Cardinality(Places(queue, u)) \in Nat
            /\ Cardinality(Pushing(call, u)) \in Nat
        BY RoomIsNat DEF Inv
      <4> QED
        BY <3>1, <4>1, <4>2, <4>3, <4>4
    <3> QED
      BY <3>2, <3>3
  <2>4. Counted'
    BY <2>3 DEF Counted
  <2>5. \A u \in Turns : (Now(u) => Then(u)) /\ (u = t => Then(u))
    BY <2>1, <2>2 DEF Now, Then, Taken
  <2>6. PICK c : Moves(p, l, c) /\ c.turn = t /\ c.stage = "pushing"
    BY <1>3, StageCall DEF Inv
  <2>7. \A q \in Pods, m \in Lanes :
          call'[q][m].stage = "waiting" =>
            call[q][m].stage = "waiting" /\ call'[q][m].turn = call[q][m].turn
    BY <2>6 DEF Moves
  <2>8. UNCHANGED settled /\ claimed' \subseteq claimed \cup {t}
    BY <1>3 DEF watch
  <2>9. claimed' \subseteq Turns /\ \A q \in Pods : settled[q] \subseteq Turns
    BY DEF Inv, Typed, TypeOK
  <2>10. Accounted'
    BY <1>1, <2>5, <2>7, <2>8, <2>9, AccountedKept DEF Inv
  <2> QED
    BY <2>4, <2>10 DEF Inv
<1> QED
  BY <1>2, <1>3 DEF Claim

\* A push moves a turn from Pushing into the queue, or loses it.
LEMMA PushKeeps ==
  ASSUME Inv, Typed', NEW p \in Pods, NEW l \in Lanes, Push(p, l)
  PROVE  Inv'
<1> DEFINE t == call[p][l].turn
<1>1. call[p][l].stage = "pushing" /\ t \in Turns /\ LaneOf[t] = l
  BY DEF Push, Inv, Typed, OwnTurns, OwnTurn
<1>2. UNCHANGED <<claimed, runs, lapses>>
  BY DEF Push
<1>3. /\ queue' = queue \/ queue' = <<t>> \o queue
      /\ lost \subseteq lost'
      /\ queue' = <<t>> \o queue \/ t \in lost'
  BY DEF Push
<1>4. queue \in Seq(Turns)
  BY DEF Inv, Typed, TypeOK
<1>5. PICK c : /\ Moves(p, l, c) /\ c.turn \in {t, None}
               /\ c.stage # "pushing" /\ (c.stage = "waiting" => c.turn = t)
  <2>1. CASE To(p, l, "waiting")
    BY <2>1, StageCall DEF Inv
  <2>2. CASE Skip(p, l)
    <3>1. Moves(p, l, Idle)
      BY <2>2, FinishCall DEF Skip, Inv
    <3> QED
      BY <3>1 DEF Idle
  <2> QED
    BY <2>1, <2>2 DEF Push
<1>6. \A u \in Turns :
        /\ u # t => Pushing(call', u) = Pushing(call, u)
        /\ u = t => Cardinality(Pushing(call', u)) = Cardinality(Pushing(call, u)) - 1
  BY <1>1, <1>5, PushingEnds DEF Inv
<1>7. \A u \in Turns :
        /\ Cardinality(Places(queue', u)) <= Cardinality(Places(queue, u)) + (IF u = t THEN 1 ELSE 0)
        /\ Places(queue, u) # {} => Places(queue', u) # {}
        /\ queue' = <<t>> \o queue => Places(queue', t) # {}
  <2> SUFFICES ASSUME NEW u \in Turns
               PROVE  /\ Cardinality(Places(queue', u))
                           <= Cardinality(Places(queue, u)) + (IF u = t THEN 1 ELSE 0)
                      /\ Places(queue, u) # {} => Places(queue', u) # {}
                      /\ queue' = <<t>> \o queue => Places(queue', t) # {}
    OBVIOUS
  <2>1. Cardinality(Places(queue, u)) \in Nat
    BY <1>4, PlacesFinite
  <2>2. CASE queue' = queue /\ queue' # <<t>> \o queue
    BY <2>1, <2>2
  <2>3. CASE queue' = <<t>> \o queue
    <3>1. Cardinality(Places(queue', u)) = Cardinality(Places(queue, u)) + (IF u = t THEN 1 ELSE 0)
      BY <1>1, <1>4, <2>3, PlacesPrepended
    <3>2. \A i \in Places(queue, u) : i + 1 \in Places(queue', u)
      BY <1>1, <1>4, <2>3 DEF Places
    <3>3. 1 \in Places(queue', t)
      BY <1>1, <1>4, <2>3 DEF Places
    <3> QED
      BY <2>1, <3>1, <3>2, <3>3
  <2> QED
    BY <1>3, <2>2, <2>3
<1>8. ASSUME NEW u \in Turns
      PROVE  runs'[u] + Cardinality(Places(queue', u)) + Cardinality(Pushing(call', u))
               <= Held(claimed', u) + lapses'[u]
  <2>1. runs[u] + Cardinality(Places(queue, u)) + Cardinality(Pushing(call, u))
          <= Held(claimed, u) + lapses[u]
    BY DEF Inv, Counted
  <2>2. Cardinality(Places(queue', u)) \in Nat
    BY PlacesFinite DEF Typed, TypeOK
  <2> QED
    BY <1>2, <1>6, <1>7, <2>1, <2>2, RoomIsNat DEF Inv
<1>9. Counted'
  BY <1>8 DEF Counted
<1>10. \A u \in Turns : (Now(u) => Then(u)) /\ (u = t => Then(u))
  <2>1. Then(t)
    BY <1>1, <1>3, <1>7 DEF Then, Taken
  <2>2. ASSUME NEW u \in Turns, Now(u), u # t
        PROVE  Then(u)
    BY <1>2, <1>3, <1>6, <1>7, <2>2 DEF Now, Then, Taken
  <2> QED
    BY <2>1, <2>2
<1>11. \A q \in Pods : \A u \in settled'[q] : u \in settled[q] \/ u = t
  <2>1. settled' \in {settled, [settled EXCEPT ![p] = settled[p] \cup {t}]}
    BY DEF Push, Skip, Finish, watch
  <2>2. settled \in [Pods -> SUBSET Turns]
    BY DEF Inv, Typed, TypeOK
  <2> HIDE DEF t
  <2>3. CASE settled' = settled
    BY <2>3
  <2>4. CASE settled' = [settled EXCEPT ![p] = settled[p] \cup {t}]
    BY <2>2, <2>4
  <2> QED
    BY <2>1, <2>3, <2>4
<1>12. \A q \in Pods, m \in Lanes :
         call'[q][m].stage = "waiting" =>
           \/ Then(call'[q][m].turn)
           \/ call[q][m].stage = "waiting" /\ call'[q][m].turn = call[q][m].turn
  BY <1>1, <1>5, <1>10 DEF Moves
<1>13. Accounted'
  BY <1>1, <1>2, <1>10, <1>11, <1>12, AccountedKept DEF Inv, Typed, TypeOK
<1> QED
  BY <1>9, <1>13 DEF Inv

LEMMA SettleKeeps ==
  ASSUME Inv, Typed', NEW p \in Pods, NEW l \in Lanes, Settle(p, l)
  PROVE  Inv'
<1>1. call[p][l].stage = "waiting" /\ Now(call[p][l].turn)
  BY DEF Settle, Inv, Accounted
<1> QED
  BY <1>1, FinishQuiet DEF Settle, redis

\* What was about to be pushed is lost with its pod.
LEMMA CrashKeeps ==
  ASSUME Inv, Typed', NEW p \in Pods, Crash(p)
  PROVE  Inv'
<1>1. UNCHANGED <<queue, claimed, runs, lapses, settled>>
  BY DEF Crash, redis
<1>2. /\ \A l \in Lanes : call'[p][l].stage = "idle"
      /\ \A q \in Pods \ {p} : call'[q] = call[q]
  BY DEF Crash, Idle, Inv, Typed, TypeOK
<1>3. ASSUME NEW t \in Turns
      PROVE  /\ Pushing(call', t) = Pushing(call, t) \ {p}
             /\ p \in Pushing(call, t) => t \in lost'
  <2>1. LaneOf[t] \in Lanes
    BY LanesAssumption
  <2>2. Pushing(call', t) = Pushing(call, t) \ {p}
    BY <1>2, <2>1 DEF Pushing
  <2>3. p \in Pushing(call, t) => t \in lost'
    BY <2>1 DEF Pushing, Crash
  <2> QED
    BY <2>2, <2>3
<1>4. lost \subseteq lost'
  BY DEF Crash
<1>5. ASSUME NEW t \in Turns
      PROVE  runs'[t] + Cardinality(Places(queue', t)) + Cardinality(Pushing(call', t))
               <= Held(claimed', t) + lapses'[t]
  <2>1. runs[t] + Cardinality(Places(queue, t)) + Cardinality(Pushing(call, t))
          <= Held(claimed, t) + lapses[t]
    BY DEF Inv, Counted
  <2>2. /\ Cardinality(Pushing(call', t)) <= Cardinality(Pushing(call, t))
    <3>1. Pushing(call', t) \in SUBSET Pushing(call, t)
      BY <1>3
    <3> QED
      BY <3>1, PushingFinite, FS_Subset
  <2> QED
    BY <1>1, <2>1, <2>2, RoomIsNat DEF Inv
<1>6. \A t \in Turns : Now(t) => Then(t)
  BY <1>1, <1>3, <1>4 DEF Now, Then, Taken
<1>7. \A q \in Pods, m \in Lanes :
        call'[q][m].stage = "waiting" =>
          call[q][m].stage = "waiting" /\ call'[q][m].turn = call[q][m].turn
  BY <1>2
<1>8. Accounted'
  BY <1>1, <1>6, <1>7, AccountedKept DEF Inv, Typed, TypeOK
<1>9. Counted'
  BY <1>5 DEF Counted
<1> QED
  BY <1>8, <1>9 DEF Inv

LEMMA ClaimExpiresKeeps ==
  ASSUME Inv, Typed', NEW t \in Turns, ClaimExpires(t)
  PROVE  Inv'
<1>1. /\ UNCHANGED <<queue, runs, lost, call, settled>>
      /\ t \in claimed /\ claimed' = claimed \ {t}
      /\ lapses' = [lapses EXCEPT ![t] = lapses[t] + 1]
  BY DEF ClaimExpires, host, watch
<1>2. ASSUME NEW u \in Turns
      PROVE  runs'[u] + Cardinality(Places(queue', u)) + Cardinality(Pushing(call', u))
               <= Held(claimed', u) + lapses'[u]
  <2>1. runs[u] + Cardinality(Places(queue, u)) + Cardinality(Pushing(call, u))
          <= Held(claimed, u) + lapses[u]
    BY DEF Inv, Counted
  <2>2. lapses[u] \in Nat
    BY RoomIsNat DEF Inv
  <2>3. Held(claimed', u) + lapses'[u] = Held(claimed, u) + lapses[u]
    <3>1. CASE u = t
      BY <1>1, <2>2, <3>1 DEF Held, Inv, Typed, TypeOK
    <3>2. CASE u # t
      BY <1>1, <3>2 DEF Held, Inv, Typed, TypeOK
    <3> QED
      BY <3>1, <3>2
  <2> QED
    BY <1>1, <2>1, <2>3
<1>3. Counted'
  BY <1>2 DEF Counted
<1>4. \A u \in Turns : Now(u) => Then(u)
  BY <1>1 DEF Now, Then, Taken
<1>5. Accounted'
  BY <1>1, <1>4, AccountedKept DEF Inv, Typed, TypeOK
<1> QED
  BY <1>3, <1>5 DEF Inv

\* A runner takes the head of the queue: one place less, one run more.
LEMMA PopKeeps ==
  ASSUME Inv, Typed', NEW r \in Runners, Pop(r)
  PROVE  Inv'
<1> DEFINE h == Head(queue)
<1>1. /\ UNCHANGED <<claimed, lost, call, settled, lapses>>
      /\ queue # <<>> /\ queue' = Tail(queue)
      /\ runs' = [runs EXCEPT ![h] = runs[h] + 1]
  BY DEF Pop, host, watch
<1>2. /\ h \in Turns /\ queue' \in Seq(Turns) /\ queue = <<h>> \o queue'
  BY <1>1 DEF Inv, Typed, TypeOK
<1>3. ASSUME NEW u \in Turns
      PROVE  /\ Cardinality(Places(queue, u))
                  = Cardinality(Places(queue', u)) + (IF u = h THEN 1 ELSE 0)
             /\ u # h /\ Places(queue, u) # {} => Places(queue', u) # {}
  <2>1. Cardinality(Places(queue, u))
          = Cardinality(Places(queue', u)) + (IF u = h THEN 1 ELSE 0)
    <3> HIDE DEF h
    <3>1. Cardinality(Places(<<h>> \o queue', u))
            = Cardinality(Places(queue', u)) + (IF h = u THEN 1 ELSE 0)
      BY <1>2, PlacesPrepended
    <3> QED
      BY <1>2, <3>1
  <2>2. ASSUME u # h, Places(queue', u) = {} PROVE Places(queue, u) = {}
    <3>1. Cardinality(Places(queue, u)) = 0
      BY <2>1, <2>2, FS_EmptySet
    <3>2. IsFiniteSet(Places(queue, u))
      BY PlacesFinite DEF Inv, Typed, TypeOK
    <3> QED
      BY <3>1, <3>2, FS_EmptySet
  <2> QED
    BY <2>1, <2>2
<1>4. ASSUME NEW u \in Turns
      PROVE  runs'[u] + Cardinality(Places(queue', u)) + Cardinality(Pushing(call', u))
               <= Held(claimed', u) + lapses'[u]
  <2>1. runs[u] + Cardinality(Places(queue, u)) + Cardinality(Pushing(call, u))
          <= Held(claimed, u) + lapses[u]
    BY DEF Inv, Counted
  <2>2. runs[u] \in Nat /\ Cardinality(Places(queue', u)) \in Nat
    BY <1>2, RoomIsNat, PlacesFinite DEF Inv
  <2>3. runs'[u] = runs[u] + (IF u = h THEN 1 ELSE 0)
    BY <1>1, <1>2, <2>2 DEF Inv, Typed, TypeOK
  <2>4. runs'[u] + Cardinality(Places(queue', u))
          = runs[u] + Cardinality(Places(queue, u))
    BY <1>3, <2>2, <2>3
  <2> QED
    BY <1>1, <2>1, <2>4
<1>5. Counted'
  BY <1>4 DEF Counted
<1>6. ASSUME NEW u \in Turns, Now(u) PROVE Then(u)
  <2>1. runs[u] \in Nat
    BY RoomIsNat DEF Inv
  <2>2. CASE u = h
    BY <1>1, <2>1, <2>2 DEF Then, Taken, Inv, Typed, TypeOK
  <2>3. CASE u # h
    <3>1. runs'[u] = runs[u]
      BY <1>1, <2>3 DEF Inv, Typed, TypeOK
    <3> QED
      BY <1>1, <1>3, <1>6, <2>3, <3>1 DEF Now, Then, Taken
  <2> QED
    BY <2>2, <2>3
<1>7. Accounted'
  BY <1>1, <1>6, AccountedKept DEF Inv, Typed, TypeOK
<1> QED
  BY <1>5, <1>7 DEF Inv

LEMMA StepInv == Inv /\ [Next]_vars => Inv'
<1> SUFFICES ASSUME Inv, [Next]_vars PROVE Inv'
  OBVIOUS
<1>1. Typed'
  BY StepTyped DEF Inv
<1>2. CASE UNCHANGED vars
  BY <1>1, <1>2, CallsUntouchedKeeps DEF vars, redis, host, watch, history
<1>3. ASSUME NEW p \in Pods, NEW l \in Lanes, CallStep(p, l)
      PROVE  Inv'
  BY <1>1, <1>3, RegisterKeeps, ClaimKeeps, PushKeeps, SettleKeeps DEF CallStep
<1>4. ASSUME NEW p \in Pods, PodStep(p) \/ Crash(p)
      PROVE  Inv'
  <2>1. CASE Confirm(p) \/ Bridge(p)
    BY <1>1, <2>1, CallsUntouchedKeeps DEF Confirm, Bridge, redis, history
  <2> QED
    BY <1>1, <1>4, <2>1, HandleOutputKeeps, CrashKeeps DEF PodStep
<1>5. CASE CloseStdin
  BY <1>1, <1>5, CallsUntouchedKeeps DEF CloseStdin, redis, history
<1>6. ASSUME NEW r \in Runners, RunnerStep(r) \/ RunnerTurn(r)
      PROVE  Inv'
  <2>1. CASE Pop(r)
    BY <1>1, <2>1, PopKeeps
  <2>2. CASE ~Pop(r)
    <3>1. UNCHANGED <<queue, claimed, runs, lapses, lost, call, settled>>
      BY <1>6, <2>2
      DEF RunnerStep, RunnerTurn, Subscribe, AdapterReturns, TakeClose,
          ClosedInQuery, QueryEnds, FollowEnds, LeaveWaiting, LeaveFollowing,
          Restart, Answer, Follow, RetryQuery, FailRunner, redis, host, watch, history
    <3> QED
      BY <1>1, <3>1, CallsUntouchedKeeps
  <2> QED
    BY <2>1, <2>2
<1> QED
  BY <1>1, <1>2, <1>3, <1>4, <1>5, <1>6, BeginKeeps, ClaimExpiresKeeps DEF Next

LEMMA Invariance == Spec => []Inv
<1> QED
  BY InitInv, StepInv, PTL DEF Spec

\* For any number of pods, retries, crashes, failed commands and runners: a
\* turn is executed, and waits in the queue, once per claim that was written and
\* once more for each claim that lapsed.
THEOREM TurnsRunOnce == Spec => []TurnRunsOnce
<1>1. Inv => TurnRunsOnce
  <2> SUFFICES ASSUME Inv, NEW t \in Turns
               PROVE  runs[t] + Cardinality(Copies(t)) <= 1 + lapses[t]
    BY DEF TurnRunsOnce
  <2>1. Copies(t) = Places(queue, t)
    BY DEF Copies, Places
  <2>2. runs[t] + Cardinality(Places(queue, t)) + Cardinality(Pushing(call, t))
          <= Held(claimed, t) + lapses[t]
    BY DEF Inv, Counted
  <2>3. Held(claimed, t) <= 1
    BY DEF Held
  <2> QED
    BY <2>1, <2>2, <2>3, RoomIsNat DEF Inv
<1> QED
  BY <1>1, Invariance, PTL

\* A turn that counts as handled on any pod was taken by a runner, is in the
\* queue or about to be, unless its push was interrupted.
THEOREM SettledTurnsAreTaken == Spec => []SettledIsTaken
<1>1. Inv => SettledIsTaken
  <2> SUFFICES ASSUME Inv, NEW p \in Pods, NEW t \in settled[p]
               PROVE  \/ runs[t] > 0 \/ Copies(t) # {} \/ t \in lost
                      \/ \E q \in Pods : /\ call[q][LaneOf[t]].turn = t
                                         /\ call[q][LaneOf[t]].stage = "pushing"
    BY DEF SettledIsTaken
  <2>1. Now(t)
    BY DEF Inv, Accounted
  <2> QED
    BY <2>1 DEF Now, Taken, Copies, Places, Pushing
<1> QED
  BY <1>1, Invariance, PTL
=============================================================================
