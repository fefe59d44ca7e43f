------------------------ MODULE MessageTakersProofs ------------------------
(***************************************************************************)
(* Further proofs about MessageFlow, on top of its invariant IInv: a       *)
(* living agent drops nothing it was handed, what the loop has seen keeps  *)
(* something that will look at it again, and the IM chats implement Inbox. *)
(***************************************************************************)
EXTENDS MessageFlowProofs, WellFoundedInduction, FiniteSetTheorems

-----------------------------------------------------------------------------
(* What agents and the input directory hold.                               *)

\* Only an agent in a query holds messages.
AgentShape ==
  \A c \in Chats :
    agent[c].phase # "query" => agent[c].prompt = {} /\ agent[c].piped = {}

\* What was handed over was given.
HandsGiven ==
  \A c \in Chats :
    dir[c] \subseteq given /\ agent[c].prompt \subseteq given
      /\ agent[c].piped \subseteq given

Hands == AgentShape /\ HandsGiven

\* Chats other than c keep their agents and directories.
OthersRest(c) ==
  \A d \in Chats : d # c => agent'[d] = agent[d] /\ dir'[d] = dir[d]

\* One agent and its directory change.
LEMMA HandsKept ==
  ASSUME Hands, given \subseteq given', NEW c \in Chats, OthersRest(c),
         agent'[c].phase # "query" => agent'[c].prompt = {} /\ agent'[c].piped = {},
         dir'[c] \subseteq given', agent'[c].prompt \subseteq given',
         agent'[c].piped \subseteq given'
  PROVE  Hands'
  BY DEF Hands, AgentShape, HandsGiven, OthersRest

LEMMA HandsRest ==
  ASSUME Hands, given \subseteq given', UNCHANGED <<agent, dir>>
  PROVE  Hands'
  BY DEF Hands, AgentShape, HandsGiven

\* Messages are put into input files.
LEMMA InjectHands ==
  ASSUME TypeOK, Hands, NEW c \in Chats, NEW S, Inject(c, S), agent' = agent
  PROVE  /\ Hands'
         /\ OthersRest(c) /\ dir'[c] = dir[c] \cup S
<1>1. /\ OthersRest(c) /\ dir'[c] = dir[c] \cup S /\ given' = given \cup S
  BY DEF Inject, OthersRest, TypeOK
<1>2. given \subseteq given' /\ dir'[c] \subseteq given'
  BY <1>1 DEF Hands, HandsGiven
<1>3. /\ agent'[c].prompt \subseteq given' /\ agent'[c].piped \subseteq given'
      /\ agent'[c].phase # "query" => agent'[c].prompt = {} /\ agent'[c].piped = {}
  BY <1>2 DEF Hands, HandsGiven, AgentShape
<1> QED BY <1>1, <1>2, <1>3, HandsKept

\* What the steps of an agent do to what it holds.  Whatever it was handed is
\* still in its hands or its directory, or was handled, unless the stream of
\* the query is closed.
LEMMA AgentStartHands ==
  ASSUME TypeOK, Hands, NEW c \in Chats, AgentStart(c)
  PROVE  /\ Hands' /\ OthersRest(c)
         /\ dir[c] \cup agent[c].prompt \cup agent[c].piped \subseteq agent'[c].prompt
<1>1. /\ agent' = [agent EXCEPT ![c] = Query(run[c].taken \cup dir[c])]
      /\ dir' = [dir EXCEPT ![c] = {}] /\ given' = given \cup run[c].taken
      /\ agent[c].phase = "starting"
  BY DEF AgentStart
<1>2. /\ agent'[c].phase = "query" /\ agent'[c].prompt = run[c].taken \cup dir[c]
      /\ agent'[c].piped = {} /\ dir'[c] = {} /\ OthersRest(c)
  BY <1>1 DEF TypeOK, Query, OthersRest
<1>3. agent'[c].prompt \subseteq given'
  BY <1>1, <1>2 DEF Hands, HandsGiven
<1>4. Hands'
  BY <1>1, <1>2, <1>3, HandsKept
<1> QED BY <1>1, <1>2, <1>4 DEF Hands, AgentShape

LEMMA PipeHands ==
  ASSUME TypeOK, Hands, NEW c \in Chats, Pipe(c)
  PROVE  /\ Hands' /\ OthersRest(c)
         /\ dir[c] \cup agent[c].prompt \cup agent[c].piped
              \subseteq agent'[c].prompt \cup agent'[c].piped
<1>1. /\ agent' = [agent EXCEPT ![c] = [agent[c] EXCEPT !.piped = @ \cup dir[c]]]
      /\ dir' = [dir EXCEPT ![c] = {}] /\ given' = given
      /\ agent[c].phase = "query"
  BY DEF Pipe, history
<1>2. /\ agent'[c].phase = "query" /\ agent'[c].prompt = agent[c].prompt
      /\ agent'[c].piped = agent[c].piped \cup dir[c]
      /\ dir'[c] = {} /\ OthersRest(c)
  BY <1>1 DEF TypeOK, Agent, OthersRest
<1>3. Hands'
  BY <1>1, <1>2, HandsKept DEF Hands, HandsGiven
<1> QED BY <1>2, <1>3

LEMMA ResultHands ==
  ASSUME TypeOK, Hands, NEW c \in Chats, Result(c)
  PROVE  /\ Hands' /\ OthersRest(c) /\ dir' = dir
         /\ agent'[c].prompt = agent[c].prompt /\ agent'[c].piped = agent[c].piped
<1>1. /\ agent' = [agent EXCEPT ![c] = [agent[c] EXCEPT !.result = TRUE]]
      /\ dir' = dir /\ given' = given
  BY DEF Result
<1>2. /\ agent'[c].phase = agent[c].phase /\ agent'[c].prompt = agent[c].prompt
      /\ agent'[c].piped = agent[c].piped /\ OthersRest(c)
  BY <1>1 DEF TypeOK, Agent, OthersRest
<1>3. Hands'
  BY <1>1, <1>2, HandsKept DEF Hands, HandsGiven, AgentShape
<1> QED BY <1>1, <1>2, <1>3

\* The agent leaves its query, or was not in one.
LEMMA EmptyHanded ==
  ASSUME TypeOK, Hands, given' = given, NEW c \in Chats, NEW x,
         x.phase # "query" /\ x.prompt = {} /\ x.piped = {},
         agent' = [agent EXCEPT ![c] = x],
         \A d \in Chats : d # c => dir'[d] = dir[d],
         dir'[c] \subseteq given
  PROVE  Hands' /\ OthersRest(c)
<1>1. /\ agent'[c].phase # "query" /\ agent'[c].prompt = {}
      /\ agent'[c].piped = {} /\ OthersRest(c)
  BY DEF TypeOK, OthersRest
<1> QED BY <1>1, HandsKept

LEMMA InterruptHands ==
  ASSUME TypeOK, Hands, NEW c \in Chats, Interrupt(c)
  PROVE  /\ Hands' /\ OthersRest(c)
         /\ dir[c] \cup agent[c].prompt \cup agent[c].piped
              \subseteq dir'[c] \cup handled'
<1>1. /\ agent' = [agent EXCEPT ![c] = IdleAgent]
      /\ dir' = [dir EXCEPT ![c] = @ \cup agent[c].piped]
      /\ handled' = handled \cup agent[c].prompt /\ given' = given
  BY DEF Interrupt
<1>2. IdleAgent.phase = "idle" /\ IdleAgent.prompt = {} /\ IdleAgent.piped = {}
  BY DEF IdleAgent, NoAgent
<1>3. /\ dir'[c] = dir[c] \cup agent[c].piped
      /\ \A d \in Chats : d # c => dir'[d] = dir[d]
  BY <1>1 DEF TypeOK
<1>4. dir'[c] \subseteq given
  BY <1>3 DEF Hands, HandsGiven
<1>5. Hands' /\ OthersRest(c)
  BY <1>1, <1>2, <1>3, <1>4, EmptyHanded
<1> QED BY <1>1, <1>3, <1>5

LEMMA CloseStreamHands ==
  ASSUME TypeOK, Hands, NEW c \in Chats, CloseStream(c)
  PROVE  /\ Hands' /\ OthersRest(c) /\ StreamCloses(c)
<1>1. /\ agent' = [agent EXCEPT ![c] = IdleAgent] /\ dir' = dir /\ given' = given
      /\ agent[c].result /\ sig[c] = {}
  BY DEF CloseStream, history
<1>2. IdleAgent.phase = "idle" /\ IdleAgent.prompt = {} /\ IdleAgent.piped = {}
  BY DEF IdleAgent, NoAgent
<1>3. Hands' /\ OthersRest(c)
  BY <1>1, <1>2, EmptyHanded DEF Hands, HandsGiven
<1> QED BY <1>1, <1>2, <1>3 DEF StreamCloses, TypeOK

LEMMA WakeHands ==
  ASSUME TypeOK, Hands, NEW c \in Chats, Wake(c)
  PROVE  /\ Hands' /\ OthersRest(c)
         /\ dir[c] \cup agent[c].prompt \cup agent[c].piped = agent'[c].prompt
<1>1. /\ agent' = [agent EXCEPT ![c] = Query(dir[c])]
      /\ dir' = [dir EXCEPT ![c] = {}] /\ given' = given
      /\ agent[c].phase = "idle"
  BY DEF Wake, history
<1>2. /\ agent'[c].phase = "query" /\ agent'[c].prompt = dir[c]
      /\ agent'[c].piped = {} /\ dir'[c] = {} /\ OthersRest(c)
  BY <1>1 DEF TypeOK, Query, OthersRest
<1>3. Hands'
  BY <1>1, <1>2, HandsKept DEF Hands, HandsGiven
<1> QED BY <1>1, <1>2, <1>3 DEF Hands, AgentShape

LEMMA ExitHands ==
  ASSUME TypeOK, Hands, NEW c \in Chats, NEW how, Exit(c, how), dir' = dir,
         given' = given
  PROVE  /\ Hands' /\ OthersRest(c) /\ run'[c].stage = "exited"
<1>1. /\ agent' = [agent EXCEPT ![c] = NoAgent]
      /\ run' = [run EXCEPT ![c].stage = "exited", ![c].exit = how]
  BY DEF Exit
<1>2. Hands' /\ OthersRest(c)
  BY <1>1, EmptyHanded DEF NoAgent, Hands, HandsGiven
<1> QED BY <1>1, <1>2 DEF TypeOK, Run

LEMMA RegisterHands ==
  ASSUME IInv, Hands, NEW c \in Chats, Register(c)
  PROVE  /\ Hands' /\ OthersRest(c) /\ ~Live(c)
<1>1. /\ agent' = [agent EXCEPT ![c] = [agent[c] EXCEPT !.phase = "starting"]]
      /\ dir' = dir /\ given' = given /\ run[c].stage = "booting"
  BY DEF Register, history
<1>2. agent[c].phase = "off"
  BY <1>1 DEF IInv, RunsAnswered, Answered
<1>3. /\ agent'[c].prompt = agent[c].prompt /\ agent'[c].piped = agent[c].piped
      /\ agent'[c].phase = "starting" /\ OthersRest(c)
  BY <1>1 DEF IInv, TypeOK, Agent, OthersRest
<1>4. Hands'
  BY <1>1, <1>2, <1>3, HandsKept DEF Hands, HandsGiven, AgentShape
<1> QED BY <1>1, <1>3, <1>4 DEF Live

LEMMA CrashHands ==
  ASSUME Hands, Crash
  PROVE  Hands' /\ \A c \in Chats : run'[c].stage # "live"
<1>1. /\ agent' = [c \in Chats |-> NoAgent] /\ run' = [c \in Chats |-> NoRun]
      /\ dir' = dir /\ given' = given
  BY DEF Crash, history
<1>2. Hands'
  BY <1>1 DEF Hands, AgentShape, HandsGiven, NoAgent
<1> QED BY <1>1, <1>2 DEF NoRun

\* The action LivingAgentKeeps is about, for one chat.
KeepsHands(c) ==
  Live(c) /\ run'[c].stage = "live" /\ ~StreamCloses(c)
    => dir[c] \cup agent[c].prompt \cup agent[c].piped
         \subseteq dir'[c] \cup agent'[c].prompt \cup agent'[c].piped
                   \cup handled'

LEMMA OthersKeep ==
  ASSUME NEW c \in Chats, OthersRest(c), KeepsHands(c)
  PROVE  \A d \in Chats : KeepsHands(d)
  BY DEF OthersRest, KeepsHands

LEMMA RestKeepHands ==
  ASSUME Hands, given \subseteq given', UNCHANGED <<agent, dir>>
  PROVE  Hands' /\ \A d \in Chats : KeepsHands(d)
  BY HandsRest DEF KeepsHands

LEMMA AgentKeepsHands ==
  ASSUME TypeOK, Hands, NEW c \in Chats, AgentStep(c)
  PROVE  Hands' /\ \A d \in Chats : KeepsHands(d)
<1>1. CASE AgentStart(c)
  BY <1>1, AgentStartHands, OthersKeep DEF KeepsHands
<1>2. CASE Pipe(c)
  BY <1>2, PipeHands, OthersKeep DEF KeepsHands
<1>3. CASE Result(c)
  BY <1>3, ResultHands, OthersKeep DEF KeepsHands
<1>4. CASE Interrupt(c)
  BY <1>4, InterruptHands, OthersKeep DEF KeepsHands
<1>5. CASE CloseStream(c)
  BY <1>5, CloseStreamHands, OthersKeep DEF KeepsHands
<1>6. CASE Wake(c)
  BY <1>6, WakeHands, OthersKeep DEF KeepsHands
<1>7. CASE Leave(c)
  <2>1. (\E how : Exit(c, how)) /\ dir' = dir /\ given' = given
    BY <1>7 DEF Leave, history
  <2>2. Hands' /\ OthersRest(c) /\ run'[c].stage = "exited"
    BY <2>1, ExitHands
  <2> QED BY <2>2, OthersKeep DEF KeepsHands
<1> QED BY <1>1, <1>2, <1>3, <1>4, <1>5, <1>6, <1>7 DEF AgentStep

LEMMA VisitKeepsHands ==
  ASSUME TypeOK, Hands, NEW c \in Chats, Visit(c)
  PROVE  Hands' /\ \A d \in Chats : KeepsHands(d)
<1>1. CASE VisitSends(c)
  <2>1. Inject(c, ToSend(c) \ Commands) /\ agent' = agent
    BY <1>1 DEF VisitSends, Visit
  <2>2. Hands' /\ OthersRest(c) /\ dir[c] \subseteq dir'[c]
    BY <2>1, InjectHands
  <2> QED BY <2>1, <2>2, OthersKeep DEF KeepsHands
<1>2. CASE VisitDenied(c) \/ VisitReplies(c) \/ VisitEnqueues(c)
  <2>1. UNCHANGED <<agent, dir, given>>
    BY <1>2 DEF Visit, VisitDenied, VisitReplies, VisitEnqueues
  <2> QED BY <2>1, RestKeepHands
<1> QED BY <1>1, <1>2 DEF Visit

LEMMA WebKeepsHands ==
  ASSUME IInv, Hands, NEW m \in Msgs, WebReply(m) \/ WebSend(m)
  PROVE  Hands' /\ \A d \in Chats : KeepsHands(d)
<1>1. CASE WebSend(m) /\ Live(msg[m]) /\ Inject(msg[m], {m})
  <2>1. msg[m] \in Chats
    BY <1>1, ChatsAssumption DEF WebSend, IInv, Cursors, Sources, TypeOK
  <2>2. agent' = agent
    BY <1>1 DEF WebSend
  <2>3. Hands' /\ OthersRest(msg[m]) /\ dir[msg[m]] \subseteq dir'[msg[m]]
    BY <1>1, <2>1, <2>2, InjectHands DEF IInv
  <2> QED BY <2>1, <2>2, <2>3, OthersKeep DEF KeepsHands
<1>2. CASE UNCHANGED <<agent, dir, given>>
  BY <1>2, RestKeepHands
<1> QED BY <1>1, <1>2 DEF WebReply, WebSend

LEMMA HandsStep ==
  ASSUME IInv, Hands, [Next]_vars
  PROVE  Hands' /\ \A d \in Chats : KeepsHands(d)
<1>1. TypeOK
  BY DEF IInv
<1>2. ASSUME UNCHANGED <<agent, dir, given>>
      PROVE  Hands' /\ \A d \in Chats : KeepsHands(d)
  BY <1>2, RestKeepHands
<1>3. ASSUME NEW c \in Chats, RunStep(c)
      PROVE  Hands' /\ \A d \in Chats : KeepsHands(d)
  <2>1. CASE Register(c)
    BY <2>1, RegisterHands, OthersKeep DEF KeepsHands
  <2>2. CASE StartRun(c) \/ EndRun(c) \/ RetryFires(c)
    BY <1>2, <2>2 DEF StartRun, EndRun, RetryFires, history
  <2> QED BY <1>3, <2>1, <2>2 DEF RunStep
<1>4. ASSUME NEW c \in Chats, Trouble(c)
      PROVE  Hands' /\ \A d \in Chats : KeepsHands(d)
  <2>1. CASE Fail(c)
    <3>1. (\E how : Exit(c, how)) /\ dir' = dir /\ given' = given
      BY <2>1 DEF Fail, history
    <3>2. Hands' /\ OthersRest(c) /\ run'[c].stage = "exited"
      BY <1>1, <3>1, ExitHands
    <3> QED BY <3>2, OthersKeep DEF KeepsHands
  <2>2. CASE BootFails(c) \/ CloseStdin(c) \/ InterruptQuery(c)
    BY <1>2, <2>2 DEF BootFails, CloseStdin, InterruptQuery, history
  <2> QED BY <1>4, <2>1, <2>2 DEF Trouble
<1>5. CASE Crash
  BY <1>5, CrashHands DEF KeepsHands
<1>6. CASE Poll
  BY <1>2, <1>6 DEF Poll, history
<1>7. ASSUME NEW c \in Chats, NEW m \in Msgs, Arrive(c, m) \/ WebArrive(c, m)
      PROVE  Hands' /\ \A d \in Chats : KeepsHands(d)
  BY <1>2, <1>7 DEF Arrive, WebArrive, history
<1>8. CASE UNCHANGED vars
  BY <1>2, <1>8 DEF vars, history
<1> QED
  BY <1>1, <1>3, <1>4, <1>5, <1>6, <1>7, <1>8, AgentKeepsHands, VisitKeepsHands,
     WebKeepsHands DEF Next, ImNext

LEMMA HandsInvariant == Spec => []Hands
<1>1. Init => Hands
  BY DEF Init, Hands, AgentShape, HandsGiven, NoAgent
<1>2. IInv /\ Hands /\ [Next]_vars => Hands'
  BY HandsStep
<1> QED BY <1>1, <1>2, Invariance, PTL DEF Spec

\* What lies in the input directory of a living agent, or is in its hands, is
\* still there after any step or was dealt with: over starts, interrupts, and
\* what the host does beside it; only the closing of a stream drops something.
THEOREM AgentsKeepMessages == Spec => LivingAgentKeeps
<1>1. ASSUME IInv, Hands, [Next]_vars
      PROVE  [\A c \in Chats :
                Live(c) /\ run'[c].stage = "live" /\ ~StreamCloses(c)
                  => dir[c] \cup agent[c].prompt \cup agent[c].piped
                       \subseteq dir'[c] \cup agent'[c].prompt
                                 \cup agent'[c].piped \cup handled']_vars
  BY <1>1, HandsStep DEF KeepsHands
<1> QED BY <1>1, Invariance, HandsInvariant, PTL DEF Spec, LivingAgentKeeps

-----------------------------------------------------------------------------
(* A set of messages has a last one.                                       *)

LEMMA LeastNatural ==
  ASSUME NEW S \in SUBSET Nat, S # {}
  PROVE  \E n \in S : \A k \in S : n <= k
<1> DEFINE R == {p \in Nat \X Nat : p[1] < p[2]}
<1>1. IsWellFoundedOn(R, Nat)
  BY NatLessThanWellFounded DEF OpToRel
<1>2. \A j, k \in Nat : <<j, k>> \in R <=> j < k
  OBVIOUS
<1> HIDE DEF R
<1>3. PICK n \in S : \A k \in S : ~(<<k, n>> \in R)
  BY <1>1, WFMin
<1>4. ASSUME NEW k \in S PROVE n <= k
  <2>1. k \in Nat /\ n \in Nat /\ ~(k < n)
    BY <1>2, <1>3
  <2> QED BY <2>1
<1> QED BY <1>4

\* Otherwise take the smallest set without a last message, and remove one.
LEMMA HasLast ==
  ASSUME NEW S \in SUBSET Msgs, S # {}
  PROVE  \E n \in S : IsLast(n, S)
<1> DEFINE Bad == {T \in SUBSET Msgs : T # {} /\ \A n \in T : ~IsLast(n, T)}
           Sizes == {Cardinality(T) : T \in Bad}
<1>1. \A T \in SUBSET Msgs : IsFiniteSet(T) /\ Cardinality(T) \in Nat
  BY MsgsAssumption, FS_Subset, FS_CardinalityType
<1>2. SUFFICES ASSUME S \in Bad PROVE FALSE
  OBVIOUS
<1>3. Sizes \in SUBSET Nat /\ Sizes # {}
  BY <1>1, <1>2
<1>4. PICK T \in Bad : \A k \in Sizes : Cardinality(T) <= k
  BY <1>3, LeastNatural
<1>5. PICK x \in T : ~IsLast(x, T)
  BY <1>4
<1> DEFINE U == T \ {x}
<1>6. U \in SUBSET Msgs /\ x \in Nat /\ \A n \in T : n \in Nat
  BY <1>4, <1>5, CursorIsNat
<1>7. Cardinality(U) = Cardinality(T) - 1
  BY <1>1, <1>4, <1>5, FS_RemoveElement
<1>8. U \notin Bad
  BY <1>1, <1>4, <1>6, <1>7
<1>9. U # {}
  BY <1>5, <1>6 DEF IsLast
<1>10. PICK y \in U : IsLast(y, U)
  BY <1>6, <1>8, <1>9
<1>11. IsLast(x, T) \/ IsLast(y, T)
  BY <1>6, <1>10 DEF IsLast
<1> QED BY <1>4, <1>5, <1>10, <1>11

-----------------------------------------------------------------------------
(* IM chats without plugin commands implement Inbox.                       *)

\* In the order of chat c, S begins where what was taken up ends.
NextInLine(c, S) ==
  /\ S \subseteq Msgs /\ \A m \in S : msg[m] = c
  /\ \A n \in S, m \in Msgs : msg[m] = c /\ m <= n => m \in S \cup TakenUp

\* A step that takes up nothing, or what is next in line in one chat.
TakesInLine ==
  /\ msg' = msg
  /\ \/ given' \cup handled' = TakenUp
     \/ \E c \in Chats, S \in SUBSET Msgs :
          NextInLine(c, S) /\ given' \cup handled' = TakenUp \cup S

\* No message came over the web, and no message is a command.
ImOnlyState == web = {} /\ Commands = {}

\* What the step assumes: IInv, Hands and only IM messages.
ImInv == IInv /\ Hands /\ ImOnlyState

LEMMA PassedIsTaken ==
  ASSUME ImInv, NEW c \in Chats, NEW m \in Msgs, msg[m] = c, m <= pull[c]
  PROVE  m \in TakenUp
<1>1. Clear(msg, injected, handled, c, pull[c]) /\ injected \subseteq given
  BY DEF ImInv, ImOnlyState, IInv, Cursors, Sources, Pulls, NoWeb
<1> QED BY <1>1 DEF Clear, Passable, TakenUp, ImInv, ImOnlyState

LEMMA SinceInLine ==
  ASSUME ImInv, NEW c \in Chats, NEW k \in Cursor, k <= pull[c]
  PROVE  NextInLine(c, Since(c, k))
<1> SUFFICES ASSUME NEW n \in Since(c, k), NEW m \in Msgs, msg[m] = c, m <= n
             PROVE  m \in Since(c, k) \cup TakenUp
  BY DEF NextInLine, Since
<1>1. m \in Nat /\ k \in Nat /\ pull[c] \in Nat
  BY CursorIsNat DEF ImInv, IInv, TypeOK
<1>2. m > k \/ m <= pull[c]
  BY <1>1
<1> QED BY <1>2, PassedIsTaken DEF Since

LEMMA ToSendInLine ==
  ASSUME ImInv, NEW c \in Chats
  PROVE  NextInLine(c, ToSend(c))
<1>1. pull[c] \in Cursor /\ pull[c] \in Nat
  BY CursorIsNat DEF ImInv, IInv, TypeOK
<1>2. CASE Since(c, pull[c]) # {}
  BY <1>1, <1>2, SinceInLine DEF ToSend
<1>3. CASE Since(c, pull[c]) = {}
  <2>1. ToSend(c) = batch[c] /\ batch[c] \subseteq Msgs /\ \A m \in batch[c] : msg[m] = c
    BY <1>3 DEF ToSend, ImInv, IInv, TypeOK, Cursors, Sources
  <2>2. ASSUME NEW m \in Msgs, msg[m] = c
        PROVE  m \in TakenUp
    <3>1. m \in Nat /\ ~(m > pull[c])
      BY <1>3, <2>2, CursorIsNat DEF Since
    <3>2. m <= pull[c]
      BY <1>1, <3>1
    <3> QED BY <2>2, <3>2, PassedIsTaken
  <2> QED BY <2>1, <2>2 DEF NextInLine
<1> QED BY <1>2, <1>3

LEMMA TakenInLine ==
  ASSUME ImInv, NEW c \in Chats
  PROVE  NextInLine(c, run[c].taken)
<1>1. /\ run[c].taken \subseteq Msgs /\ \A m \in run[c].taken : msg[m] = c
      /\ TakenIsClear(msg, injected, handled, run[c].taken, c)
      /\ injected \subseteq given
  BY DEF ImInv, ImOnlyState, IInv, Takes, NoWeb, Cursors, Sources
<1> QED BY <1>1
    DEF NextInLine, TakenIsClear, Passable, TakenUp, ImInv, ImOnlyState

LEMMA VisitInLine ==
  ASSUME ImInv, NEW c \in Chats, Visit(c)
  PROVE  TakesInLine
<1>1. msg' = msg /\ pull[c] \in Cursor /\ pull[c] \in Nat
  BY CursorIsNat DEF Visit, ImInv, IInv, TypeOK
<1>2. CASE VisitDenied(c)
  <2> DEFINE S(last) == batch[c] \cup {m \in Since(c, pull[c]) : m <= last}
  <2>1. PICK last \in batch[c] :
          /\ IsLast(last, batch[c])
          /\ handled' = handled \cup S(last)
    BY <1>2 DEF VisitDenied
  <2>2. /\ batch[c] \subseteq Msgs /\ \A m \in batch[c] : msg[m] = c
        /\ last \in Nat
    BY CursorIsNat DEF ImInv, IInv, TypeOK, Cursors, Sources
  <2>3. \A n \in S(last) : n \in Msgs /\ msg[n] = c /\ n <= last
    BY <2>1, <2>2 DEF IsLast, Since
  <2>4. ASSUME NEW n \in S(last), NEW m \in Msgs, msg[m] = c, m <= n
        PROVE  m \in S(last) \cup TakenUp
    <3> HIDE DEF S
    <3>0. n \in Nat /\ n <= last
      BY <2>3, <2>4, CursorIsNat
    <3>1. m \in Nat /\ m <= last
      BY <2>2, <2>4, <3>0, CursorIsNat
    <3> USE DEF S
    <3>2. CASE m > pull[c]
      BY <2>4, <3>1, <3>2 DEF Since
    <3>3. CASE m <= pull[c]
      BY <2>4, <3>3, PassedIsTaken
    <3> QED BY <1>1, <3>1, <3>2, <3>3
  <2>5. NextInLine(c, S(last)) /\ S(last) \in SUBSET Msgs
    BY <2>3, <2>4 DEF NextInLine
  <2>6. given' = given
    BY <1>2 DEF VisitDenied
  <2> HIDE DEF S
  <2>7. given' \cup handled' = TakenUp \cup S(last)
    BY <2>1, <2>6 DEF TakenUp
  <2> QED BY <1>1, <2>5, <2>7 DEF TakesInLine
<1>3. CASE VisitReplies(c)
  BY <1>3 DEF VisitReplies, IsLast, ImInv, ImOnlyState
<1>4. CASE VisitSends(c)
  <2>1. given' = given \cup ToSend(c) /\ handled' = handled
    BY <1>4 DEF VisitSends, Inject, ImInv, ImOnlyState
  <2>2. NextInLine(c, ToSend(c)) /\ ToSend(c) \in SUBSET Msgs
    BY ToSendInLine DEF NextInLine
  <2>3. given' \cup handled' = TakenUp \cup ToSend(c)
    BY <2>1 DEF TakenUp
  <2> QED BY <1>1, <2>2, <2>3 DEF TakesInLine
<1>5. CASE VisitEnqueues(c)
  BY <1>1, <1>5 DEF VisitEnqueues, TakesInLine, TakenUp, ImInv, ImOnlyState
<1> QED BY <1>2, <1>3, <1>4, <1>5 DEF Visit

LEMMA StartRunInLine ==
  ASSUME ImInv, NEW c \in Chats, StartRun(c)
  PROVE  TakesInLine
<1>1. msg' = msg /\ given' = given
  BY DEF StartRun
<1>2. pull[c] \in Cursor /\ pull[c] \in Nat /\ 0 \in Cursor
  BY CursorIsNat DEF ImInv, IInv, TypeOK, Cursor
<1>3. pull[c] <= pull[c] /\ 0 <= pull[c]
  BY <1>2
<1>4. ASSUME NEW k \in Cursor, k <= pull[c], handled' = handled \cup Since(c, k)
      PROVE  TakesInLine
  <2>1. NextInLine(c, Since(c, k)) /\ Since(c, k) \in SUBSET Msgs
    BY <1>4, SinceInLine DEF NextInLine
  <2>2. given' \cup handled' = TakenUp \cup Since(c, k)
    BY <1>1, <1>4 DEF TakenUp
  <2> QED BY <1>1, <2>1, <2>2 DEF TakesInLine
<1>5. CASE NothingToDo(c)
  BY <1>1, <1>5 DEF NothingToDo, TakesInLine, TakenUp
<1>6. CASE ColdStart(c)
  BY <1>2, <1>3, <1>4, <1>6 DEF ColdStart
<1>7. CASE StartReplies(c) \/ StartDenied(c)
  BY <1>2, <1>3, <1>4, <1>7 DEF StartReplies, StartDenied
<1>8. CASE Boot(c)
  BY <1>1, <1>8 DEF Boot, TakesInLine, TakenUp, ImInv, ImOnlyState
<1> QED BY <1>5, <1>6, <1>7, <1>8 DEF StartRun

LEMMA StepInLine ==
  ASSUME ImInv, [ImNext]_vars
  PROVE  TakesInLine \/ \E c \in Chats, m \in Msgs : Arrive(c, m)
<1>1. ASSUME UNCHANGED <<msg, given, handled>>
      PROVE  TakesInLine
  BY <1>1 DEF TakesInLine, TakenUp
<1>2. ASSUME NEW c \in Chats, msg' = msg,
             given' \cup handled' = TakenUp \cup run[c].taken
      PROVE  TakesInLine
  <2>1. run[c].taken \in SUBSET Msgs
    BY TakenInLine DEF NextInLine
  <2> QED BY <1>2, <2>1, TakenInLine DEF TakesInLine
<1>3. ASSUME NEW c \in Chats, AgentStep(c)
      PROVE  TakesInLine
  <2>1. agent[c].prompt \subseteq given /\ agent[c].piped \subseteq given
    BY DEF ImInv, Hands, HandsGiven
  <2>2. CASE AgentStart(c)
    BY <1>2, <2>2 DEF AgentStart, hostIdle, TakenUp
  <2>3. CASE Result(c)
    <3>1. msg' = msg /\ given' = given
      BY <2>3 DEF Result
    <3>2. handled \subseteq handled' /\ handled' \subseteq handled \cup given
      BY <2>1, <2>3 DEF Result
    <3> QED BY <3>1, <3>2 DEF TakesInLine, TakenUp
  <2>4. CASE Interrupt(c)
    BY <2>1, <2>4 DEF Interrupt, TakesInLine, TakenUp
  <2>5. CASE Pipe(c) \/ CloseStream(c) \/ Wake(c) \/ Leave(c)
    BY <1>1, <2>5 DEF Pipe, CloseStream, Wake, Leave, hostIdle, history
  <2> QED BY <1>3, <2>2, <2>3, <2>4, <2>5 DEF AgentStep
<1>4. ASSUME NEW c \in Chats, RunStep(c)
      PROVE  TakesInLine
  <2>1. CASE StartRun(c)
    BY <2>1, StartRunInLine
  <2>2. CASE EndRun(c)
    <3>1. /\ msg' = msg /\ given' = given
          /\ handled' \in {handled, handled \cup run[c].taken}
      BY <2>2 DEF EndRun
    <3>2. CASE handled' = handled
      BY <1>1, <3>1, <3>2
    <3>3. CASE handled' = handled \cup run[c].taken
      BY <1>2, <3>1, <3>3 DEF TakenUp
    <3> QED BY <3>1, <3>2, <3>3
  <2>3. CASE Register(c) \/ RetryFires(c)
    BY <1>1, <2>3 DEF Register, RetryFires, history
  <2> QED BY <1>4, <2>1, <2>2, <2>3 DEF RunStep
<1>5. ASSUME NEW c \in Chats, Trouble(c)
      PROVE  TakesInLine
  BY <1>1, <1>5 DEF Trouble, BootFails, Fail, CloseStdin, InterruptQuery,
                    hostIdle, history
<1>6. CASE Poll \/ Crash
  BY <1>1, <1>6 DEF Poll, Crash, history
<1>7. CASE UNCHANGED vars
  BY <1>1, <1>7 DEF vars, history
<1> QED
  BY <1>3, <1>4, <1>5, <1>6, <1>7, VisitInLine DEF ImNext

\* Only stored messages were taken up.
TakenAreStored == \A m \in Msgs : m \in TakenUp => msg[m] # NoChat

\* The parameters of the abstract inbox.
InArrived == [c \in Chats |-> {m \in Msgs : msg[m] = c}]
InTaken == [c \in Chats |-> {m \in TakenUp : msg[m] = c}]

LEMMA TakesNothing ==
  ASSUME msg' = msg, given' \cup handled' = TakenUp
  PROVE  TakenAreStored => TakenAreStored' /\ UNCHANGED Box!inbox
<1>1. (TakenUp)' = TakenUp
  BY DEF TakenUp
<1> QED BY <1>1 DEF TakenAreStored, Box!inbox

LEMMA TakesOne ==
  ASSUME TypeOK, TakenAreStored, NEW c \in Chats, NEW S \in SUBSET Msgs,
         NextInLine(c, S), S # {}, msg' = msg, given' \cup handled' = TakenUp \cup S
  PROVE  TakenAreStored' /\ Box!Take(c)
<1>1. (TakenUp)' = TakenUp \cup S
  BY DEF TakenUp
<1>2. \A m \in S : msg[m] = c
  BY DEF NextInLine
<1>3. TakenAreStored'
  BY <1>1, <1>2, ChatsAssumption DEF TakenAreStored
<1>4. PICK n \in S : IsLast(n, S)
  BY HasLast
<1>5. \A m \in Msgs : m \in S => m <= n
  BY <1>4 DEF IsLast
<1>6. \A m \in Msgs : msg[m] = c /\ m <= n => m \in TakenUp \cup S
  BY DEF NextInLine
<1>7. TakenUp \subseteq Msgs /\ n \in Msgs
  BY DEF TypeOK, TakenUp
<1>8. {m \in (TakenUp)' : msg'[m] = c}
        = {m \in TakenUp : msg[m] = c} \cup {m \in {k \in Msgs : msg[k] = c} : m <= n}
  BY <1>1, <1>2, <1>5, <1>6, <1>7
<1>9. \A d \in Chats : d # c =>
        {m \in (TakenUp)' : msg'[m] = d} = {m \in TakenUp : msg[m] = d}
  BY <1>1, <1>2
<1>10. (InTaken)' = [InTaken EXCEPT ![c] =
                       @ \cup {m \in InArrived[c] : m <= n}]
  BY <1>8, <1>9 DEF InTaken, InArrived
<1>11. (InArrived)' = InArrived
  BY DEF InArrived
<1> QED BY <1>3, <1>7, <1>10, <1>11 DEF Box!Take, InTaken, InArrived

LEMMA ArrivesInBox ==
  ASSUME TypeOK, TakenAreStored, NEW c \in Chats, NEW m \in Msgs, Arrive(c, m)
  PROVE  TakenAreStored' /\ Box!Arrive(c, m)
<1>1. /\ \A n \in Msgs : n >= m => msg[n] = NoChat
      /\ msg' = [msg EXCEPT ![m] = c] /\ given' = given /\ handled' = handled
  BY DEF Arrive, Store, history
<1>2. (TakenUp)' = TakenUp /\ TakenUp \subseteq Msgs /\ m \in Nat
  BY <1>1, CursorIsNat DEF TakenUp, TypeOK
<1>3. msg[m] = NoChat /\ m \notin TakenUp
  <2>1. m >= m
    BY <1>2
  <2> QED BY <1>1, <2>1 DEF TakenAreStored
<1>4. \A n \in Msgs : msg'[n] = IF n = m THEN c ELSE msg[n]
  BY <1>1 DEF TypeOK
<1>5. TakenAreStored'
  BY <1>2, <1>3, <1>4 DEF TakenAreStored
<1>6. \A d \in Chats :
        {n \in (TakenUp)' : msg'[n] = d} = {n \in TakenUp : msg[n] = d}
  BY <1>2, <1>3, <1>4
<1>7. (InTaken)' = InTaken
  BY <1>6 DEF InTaken
<1>8. \A d \in Chats : {n \in Msgs : msg'[n] = d} =
        IF d = c THEN {n \in Msgs : msg[n] = c} \cup {m} ELSE {n \in Msgs : msg[n] = d}
  BY <1>3, <1>4, ChatsAssumption
<1>9. (InArrived)' = [InArrived EXCEPT ![c] = @ \cup {m}]
  BY <1>8 DEF InArrived
<1>10. \A d \in Chats : \A n \in InArrived[d] : n < m
  <2> SUFFICES ASSUME NEW d \in Chats, NEW n \in Msgs, msg[n] = d
               PROVE  n < m
    BY DEF InArrived
  <2>1. ~(n >= m) /\ n \in Nat
    BY <1>1, ChatsAssumption, CursorIsNat
  <2> QED BY <1>2, <2>1
<1> QED BY <1>5, <1>7, <1>9, <1>10 DEF Box!Arrive, InTaken, InArrived

LEMMA BoxStep ==
  ASSUME ImInv, TakenAreStored, [ImNext]_vars
  PROVE  TakenAreStored' /\ [Box!Next]_(Box!inbox)
<1>1. TypeOK
  BY DEF ImInv, IInv
<1>2. CASE \E c \in Chats, m \in Msgs : Arrive(c, m)
  BY <1>1, <1>2, ArrivesInBox DEF Box!Next
<1>3. CASE TakesInLine /\ given' \cup handled' = TakenUp
  BY <1>3, TakesNothing DEF TakesInLine
<1>4. CASE TakesInLine /\ given' \cup handled' # TakenUp
  <2>1. PICK c \in Chats, S \in SUBSET Msgs :
          NextInLine(c, S) /\ given' \cup handled' = TakenUp \cup S
    BY <1>4 DEF TakesInLine
  <2>2. S # {} /\ msg' = msg
    BY <1>4, <2>1 DEF TakesInLine
  <2> QED BY <1>1, <2>1, <2>2, TakesOne DEF Box!Next
<1> QED BY <1>2, <1>3, <1>4, StepInLine

LEMMA WebUntouched ==
  ASSUME [ImNext]_vars
  PROVE  web' = web
<1>1. ASSUME NEW c \in Chats, Visit(c) \/ AgentStep(c) \/ RunStep(c) \/ Trouble(c)
      PROVE  web' = web
  BY <1>1 DEF Visit, AgentStep, AgentStart, Pipe, Result, Interrupt, CloseStream,
     Wake, Leave, RunStep, StartRun, Register, EndRun, RetryFires, Trouble,
     BootFails, Fail, CloseStdin, InterruptQuery, history
<1>2. ASSUME NEW c \in Chats, NEW m \in Msgs, Arrive(c, m)
      PROVE  web' = web
  BY <1>2 DEF Arrive, history
<1> QED BY <1>1, <1>2 DEF ImNext, Poll, Crash, vars, history

\* Without plugin commands the IM chats implement the inbox: whatever is
\* injected, put into prompts, refused, retried or replayed after a crash, a
\* message is never taken up before an earlier one of its chat.
THEOREM ImChatsAreInboxes ==
  ASSUME Commands = {}
  PROVE  ImSpec => Box!SafeSpec
<1>1. Init => Box!Init /\ TakenAreStored /\ web = {}
  BY ChatsAssumption DEF Init, Box!Init, TakenAreStored, TakenUp
<1>2. [ImNext]_vars => [Next]_vars
  BY DEF Next
<1>3. ImSpec => Spec
  BY <1>2, PTL DEF ImSpec, Spec
<1>4. ImSpec => [](web = {})
  <2>1. web = {} /\ [ImNext]_vars => (web = {})'
    BY WebUntouched
  <2> QED BY <1>1, <2>1, PTL DEF ImSpec
<1>5. IInv /\ Hands /\ web = {} /\ TakenAreStored /\ [ImNext]_vars
        => TakenAreStored' /\ [Box!Next]_(Box!inbox)
  BY BoxStep DEF ImInv, ImOnlyState
<1> QED
  BY <1>1, <1>3, <1>4, <1>5, Invariance, HandsInvariant, PTL
     DEF ImSpec, Box!SafeSpec
-----------------------------------------------------------------------------
(* What the end of a run depends on.                                       *)

\* An agent that has seen its prompt was given it; so a run that ends without
\* an error has given what it took.
GoneWell(r, a, g) ==
  /\ a.phase \in {"query", "idle"} \/ r.exit \in {"closed", "done", "reset"}
       => r.taken \subseteq g
  /\ r.stage = "exited" => r.exit # "none"

\* Every retry stands for a failure, and so does a run that ends with an error.
Counted(n, r, f) == n + (IF r.exit = "error" THEN 1 ELSE 0) <= f

RunsEnd ==
  \A c \in Chats :
    GoneWell(run[c], agent[c], given) /\ Counted(retries[c], run[c], failures)

\* Chats other than c keep their runs.
OtherRuns(c) ==
  \A d \in Chats :
    d # c => run'[d] = run[d] /\ agent'[d] = agent[d] /\ retries'[d] = retries[d]

LEMMA FlowCounts ==
  TypeOK => \A c \in Chats : retries[c] \in Nat /\ retries[c] <= MaxRetries
                             /\ failures \in Nat /\ crashes \in Nat
  BY FlowBoundsAssumption DEF TypeOK

LEMMA RunsEndKept ==
  ASSUME TypeOK, TypeOK', RunsEnd, given \subseteq given', failures <= failures',
         NEW c \in Chats, OtherRuns(c),
         GoneWell(run'[c], agent'[c], given'),
         Counted(retries'[c], run'[c], failures')
  PROVE  RunsEnd'
<1> SUFFICES ASSUME NEW d \in Chats, d # c
             PROVE  GoneWell(run'[d], agent'[d], given')
                    /\ Counted(retries'[d], run'[d], failures')
  BY DEF RunsEnd
<1>1. run'[d] = run[d] /\ agent'[d] = agent[d] /\ retries'[d] = retries[d]
  BY DEF OtherRuns
<1>2. retries[d] \in Nat /\ failures \in Nat /\ failures' \in Nat
  BY FlowCounts DEF TypeOK
<1>3. GoneWell(run[d], agent[d], given) /\ Counted(retries[d], run[d], failures)
  BY DEF RunsEnd
<1>4. GoneWell(run'[d], agent'[d], given')
  BY <1>1, <1>3 DEF GoneWell
<1>5. Counted(retries'[d], run'[d], failures')
  BY <1>1, <1>2, <1>3 DEF Counted
<1> QED BY <1>4, <1>5

LEMMA RunsEndRest ==
  ASSUME RunsEnd, given \subseteq given', UNCHANGED <<run, agent, retries, failures>>
  PROVE  RunsEnd'
  BY DEF RunsEnd, GoneWell, Counted

\* The fields of a run that this part is about stay as they are.
SameRun(c) ==
  run'[c].taken = run[c].taken /\ run'[c].stage = run[c].stage
    /\ run'[c].exit = run[c].exit

LEMMA AgentRunsEnd ==
  ASSUME TypeOK, TypeOK', RunsEnd, NEW c \in Chats,
         AgentStart(c) \/ Pipe(c) \/ Result(c) \/ Interrupt(c) \/ CloseStream(c)
           \/ Wake(c)
  PROVE  RunsEnd' /\ SameRun(c)
<1>1. GoneWell(run[c], agent[c], given) /\ Counted(retries[c], run[c], failures)
  BY DEF RunsEnd
<1>2. given \subseteq given' /\ retries' = retries /\ failures' = failures
  BY DEF AgentStart, Pipe, Result, Interrupt, CloseStream, Wake, hostIdle, history
<1>3. \A d \in Chats : d # c => run'[d] = run[d] /\ agent'[d] = agent[d]
  BY DEF AgentStart, Pipe, Result, Interrupt, Interrupted, CloseStream, Wake, Reply,
         TypeOK
<1>4. SameRun(c)
  <2>1. CASE Reply(c)
    BY <2>1, ReplyRun DEF SameRun
  <2>2. CASE run' = run
    BY <2>2 DEF SameRun
  <2> QED BY <2>1, <2>2 DEF AgentStart, Pipe, Result, Interrupt, Interrupted,
                            CloseStream, Wake
<1>5. run'[c].taken \subseteq given' \/ agent'[c].phase = agent[c].phase
  <2>1. CASE AgentStart(c)
    BY <1>4, <2>1 DEF AgentStart, SameRun
  <2>2. CASE agent[c].phase \in {"query", "idle"}
    BY <1>1, <1>2, <1>4, <2>2 DEF GoneWell, SameRun
  <2> QED BY <2>1, <2>2 DEF Pipe, Result, Interrupt, CloseStream, Wake
<1>6. GoneWell(run'[c], agent'[c], given')
  BY <1>1, <1>2, <1>4, <1>5 DEF GoneWell, SameRun
<1>7. Counted(retries'[c], run'[c], failures')
  BY <1>1, <1>2, <1>4 DEF Counted, SameRun
<1>8. OtherRuns(c) /\ failures <= failures'
  BY <1>2, <1>3 DEF OtherRuns, TypeOK
<1> QED BY <1>2, <1>4, <1>6, <1>7, <1>8, RunsEndKept

\* A run exits, and says how.
LEMMA ExitRunsEnd ==
  ASSUME TypeOK, TypeOK', RunsEnd, NEW c \in Chats, NEW how, Exit(c, how),
         how \in {"closed", "done", "reset", "error"}, UNCHANGED <<given, retries>>,
         how # "error" => agent[c].phase \in {"query", "idle"},
         failures' = IF how \in {"error", "reset"} THEN failures + 1 ELSE failures
  PROVE  /\ RunsEnd'
         /\ run'[c].taken = run[c].taken /\ run'[c].stage = "exited"
<1>1. GoneWell(run[c], agent[c], given) /\ Counted(retries[c], run[c], failures)
  BY DEF RunsEnd
<1>2. /\ agent' = [agent EXCEPT ![c] = NoAgent]
      /\ run' = [run EXCEPT ![c].stage = "exited", ![c].exit = how]
  BY DEF Exit
<1>3. /\ run'[c].taken = run[c].taken /\ run'[c].exit = how
      /\ run'[c].stage = "exited" /\ agent'[c].phase = "off"
      /\ \A d \in Chats : d # c => run'[d] = run[d] /\ agent'[d] = agent[d]
  BY <1>2 DEF TypeOK, Run, NoAgent
<1>4. retries[c] \in Nat /\ failures \in Nat
  BY FlowCounts
<1>5. GoneWell(run'[c], agent'[c], given')
  BY <1>1, <1>3 DEF GoneWell
<1>6. Counted(retries'[c], run'[c], failures')
  BY <1>1, <1>3, <1>4 DEF Counted
<1>7. OtherRuns(c) /\ failures <= failures'
  BY <1>3, <1>4 DEF OtherRuns
<1> QED BY <1>3, <1>5, <1>6, <1>7, RunsEndKept

LEMMA RegisterRunsEnd ==
  ASSUME TypeOK, TypeOK', RunsEnd, NEW c \in Chats, Register(c)
  PROVE  /\ RunsEnd'
         /\ run'[c].taken = run[c].taken /\ run'[c].stage = "live"
<1>1. GoneWell(run[c], agent[c], given) /\ Counted(retries[c], run[c], failures)
  BY DEF RunsEnd
<1>2. /\ run' = [run EXCEPT ![c] = [run[c] EXCEPT !.stage = "live"]]
      /\ agent' = [agent EXCEPT ![c] = [agent[c] EXCEPT !.phase = "starting"]]
      /\ UNCHANGED <<retries, failures, given>>
  BY DEF Register, history
<1>3. /\ run'[c].taken = run[c].taken /\ run'[c].exit = run[c].exit
      /\ run'[c].stage = "live" /\ agent'[c].phase = "starting"
      /\ \A d \in Chats : d # c => run'[d] = run[d] /\ agent'[d] = agent[d]
  BY <1>2 DEF TypeOK, Run, Agent
<1>4. GoneWell(run'[c], agent'[c], given')
  BY <1>1, <1>2, <1>3 DEF GoneWell
<1>5. Counted(retries'[c], run'[c], failures')
  BY <1>1, <1>2, <1>3 DEF Counted
<1>6. OtherRuns(c) /\ failures <= failures'
  BY <1>2, <1>3 DEF OtherRuns, TypeOK
<1> QED BY <1>2, <1>3, <1>4, <1>5, <1>6, RunsEndKept

LEMMA BootFailsRunsEnd ==
  ASSUME TypeOK, TypeOK', RunsEnd, NEW c \in Chats, BootFails(c)
  PROVE  /\ RunsEnd'
         /\ run'[c].taken = run[c].taken /\ run'[c].stage = "exited"
<1>1. GoneWell(run[c], agent[c], given) /\ Counted(retries[c], run[c], failures)
  BY DEF RunsEnd
<1>2. /\ run' = [run EXCEPT ![c].stage = "exited", ![c].exit = "error"]
      /\ failures' = failures + 1 /\ UNCHANGED <<retries, agent, given>>
  BY DEF BootFails, history
<1>3. /\ run'[c].taken = run[c].taken /\ run'[c].exit = "error"
      /\ run'[c].stage = "exited"
      /\ \A d \in Chats : d # c => run'[d] = run[d]
  BY <1>2 DEF TypeOK, Run
<1>4. retries[c] \in Nat /\ failures \in Nat
  BY FlowCounts
<1>5. GoneWell(run'[c], agent'[c], given')
  BY <1>1, <1>2, <1>3 DEF GoneWell
<1>6. Counted(retries'[c], run'[c], failures')
  BY <1>1, <1>2, <1>3, <1>4 DEF Counted
<1>7. OtherRuns(c)
  BY <1>2, <1>3 DEF OtherRuns
<1>8. failures <= failures'
  BY <1>2, <1>4
<1> QED BY <1>2, <1>3, <1>5, <1>6, <1>7, <1>8, RunsEndKept

LEMMA StartRunRunsEnd ==
  ASSUME IInv, TypeOK', RunsEnd, NEW c \in Chats, StartRun(c)
  PROVE  RunsEnd'
<1>1. TypeOK /\ run[c].stage = "none" /\ agent[c].phase = "off"
  BY DEF IInv, RunsAnswered, Answered, StartRun
<1>2. GoneWell(run[c], agent[c], given) /\ Counted(retries[c], run[c], failures)
  BY DEF RunsEnd
<1>3. UNCHANGED <<agent, given, failures>>
  BY DEF StartRun
<1>4. /\ \A d \in Chats : d # c => run'[d] = run[d]
      /\ run'[c] = run[c] \/ (run'[c].exit = "none" /\ run'[c].stage = "booting")
  <2>1. CASE run' = run
    BY <2>1
  <2>2. CASE Boot(c)
    <3> DEFINE r == [NoRun EXCEPT !.stage = "booting",
                                  !.taken = Since(c, pull[c]) \ Commands]
    <3>1. run' = [run EXCEPT ![c] = r]
      BY <2>2 DEF Boot
    <3>2. r.exit = "none" /\ r.stage = "booting"
      BY DEF NoRun
    <3> HIDE DEF r
    <3> QED BY <1>1, <3>1, <3>2 DEF TypeOK
  <2> QED BY <2>1, <2>2 DEF StartRun, NothingToDo, ColdStart, StartReplies, StartDenied
<1>5. retries'[c] \in {0, retries[c]} /\ \A d \in Chats : d # c => retries'[d] = retries[d]
  BY <1>1 DEF StartRun, TypeOK
<1>6. retries[c] \in Nat /\ failures \in Nat
  BY <1>1, FlowCounts
<1>7. GoneWell(run'[c], agent'[c], given')
  BY <1>1, <1>2, <1>3, <1>4 DEF GoneWell
<1>8. Counted(retries'[c], run'[c], failures')
  BY <1>2, <1>3, <1>4, <1>5, <1>6 DEF Counted
<1>9. OtherRuns(c) /\ failures <= failures'
  BY <1>3, <1>4, <1>5, <1>6 DEF OtherRuns
<1> QED BY <1>1, <1>3, <1>7, <1>8, <1>9, RunsEndKept

LEMMA EndRunRunsEnd ==
  ASSUME IInv, TypeOK', RunsEnd, NEW c \in Chats, EndRun(c)
  PROVE  RunsEnd'
<1>1. TypeOK /\ run[c].stage = "exited" /\ agent[c].phase = "off"
  BY DEF IInv, RunsAnswered, Answered, EndRun
<1>2. GoneWell(run[c], agent[c], given) /\ Counted(retries[c], run[c], failures)
  BY DEF RunsEnd
<1>3. run' = [run EXCEPT ![c] = NoRun] /\ UNCHANGED <<agent, given, failures>>
  BY DEF EndRun
<1>4. /\ run'[c].taken = {} /\ run'[c].exit = "none" /\ run'[c].stage = "none"
      /\ \A d \in Chats : d # c => run'[d] = run[d]
  BY <1>1, <1>3 DEF TypeOK, NoRun
<1>5. retries[c] \in Nat /\ failures \in Nat
  BY <1>1, FlowCounts
<1>6. /\ retries'[c] = 0 \/ (run[c].exit = "error" /\ retries'[c] = NextRetry(retries[c]))
      /\ \A d \in Chats : d # c => retries'[d] = retries[d]
  BY <1>1 DEF EndRun, TypeOK
<1>7. GoneWell(run'[c], agent'[c], given')
  BY <1>4 DEF GoneWell
<1>8. Counted(retries'[c], run'[c], failures')
  BY <1>2, <1>3, <1>4, <1>5, <1>6 DEF Counted, NextRetry
<1>9. OtherRuns(c) /\ failures <= failures'
  BY <1>3, <1>4, <1>5, <1>6 DEF OtherRuns
<1> QED BY <1>1, <1>3, <1>7, <1>8, <1>9, RunsEndKept

\* A message is put into an input file of a live agent.
LEMMA MarkedRunsEnd ==
  ASSUME TypeOK, TypeOK', RunsEnd, NEW c \in Chats, SameRun(c),
         \A d \in Chats : d # c => run'[d] = run[d],
         given \subseteq given', UNCHANGED <<agent, retries, failures>>
  PROVE  RunsEnd'
<1>1. GoneWell(run[c], agent[c], given) /\ Counted(retries[c], run[c], failures)
  BY DEF RunsEnd
<1>2. GoneWell(run'[c], agent'[c], given')
  BY <1>1 DEF GoneWell, SameRun
<1>3. Counted(retries'[c], run'[c], failures')
  BY <1>1 DEF Counted, SameRun
<1>4. OtherRuns(c) /\ failures <= failures'
  BY DEF OtherRuns, TypeOK
<1> QED BY <1>2, <1>3, <1>4, RunsEndKept

LEMMA VisitRunsEnd ==
  ASSUME TypeOK, TypeOK', RunsEnd, NEW c \in Chats, Visit(c)
  PROVE  RunsEnd'
<1>1. UNCHANGED <<agent, retries, failures>> /\ given \subseteq given'
  BY DEF Visit, VisitDenied, VisitReplies, VisitSends, VisitEnqueues, Inject
<1>2. CASE VisitSends(c)
  <2>1. run' = [run EXCEPT ![c] = [run[c] EXCEPT !.replied = FALSE]]
    BY <1>2 DEF VisitSends
  <2>2. SameRun(c) /\ \A d \in Chats : d # c => run'[d] = run[d]
    BY <2>1 DEF TypeOK, Run, SameRun
  <2> QED BY <1>1, <2>2, MarkedRunsEnd
<1>3. CASE run' = run
  BY <1>1, <1>3, RunsEndRest
<1> QED BY <1>2, <1>3 DEF Visit, VisitDenied, VisitReplies, VisitEnqueues

LEMMA WebSendRunsEnd ==
  ASSUME TypeOK, TypeOK', RunsEnd, NEW m \in Msgs, msg[m] \in Chats, WebSend(m)
  PROVE  RunsEnd'
<1>1. UNCHANGED <<agent, retries, failures>> /\ given \subseteq given'
  BY DEF WebSend, Inject
<1>2. CASE run' = run
  BY <1>1, <1>2, RunsEndRest
<1>3. CASE run' = [run EXCEPT ![msg[m]].replied = FALSE, ![msg[m]].marked = TRUE]
  <2>1. SameRun(msg[m]) /\ \A d \in Chats : d # msg[m] => run'[d] = run[d]
    BY <1>3 DEF TypeOK, Run, SameRun
  <2> QED BY <1>1, <2>1, MarkedRunsEnd
<1> QED BY <1>2, <1>3 DEF WebSend

LEMMA ExpandingIsStored ==
  ASSUME IInv, NEW m \in expanding
  PROVE  m \in web /\ m \in Msgs /\ msg[m] \in Chats
  BY ChatsAssumption DEF IInv, Cursors, Sources, TypeOK

\* What a run did when its agent leaves or fails.
LEMMA LeavesRunsEnd ==
  ASSUME TypeOK, TypeOK', RunsEnd, NEW c \in Chats, Leave(c) \/ Fail(c)
  PROVE  /\ RunsEnd'
         /\ run'[c].taken = run[c].taken /\ run'[c].stage = "exited"
<1>1. UNCHANGED <<given, retries>>
  BY DEF Leave, Fail, hostIdle, history
<1>2. CASE Leave(c)
  <2>1. /\ agent[c].phase \in {"query", "idle"} /\ failures' = failures
        /\ \E how \in {"closed", "done"} : Exit(c, how)
    BY <1>2 DEF Leave
  <2> QED BY <1>1, <2>1, ExitRunsEnd
<1>3. CASE Fail(c)
  <2>1. /\ failures' = failures + 1
        /\ Exit(c, "error") \/ (agent[c].phase = "query" /\ Exit(c, "reset"))
    BY <1>3 DEF Fail
  <2> QED BY <1>1, <2>1, ExitRunsEnd
<1> QED BY <1>2, <1>3

LEMMA CrashRunsEnd ==
  ASSUME TypeOK, Crash
  PROVE  RunsEnd'
<1>1. /\ run' = [c \in Chats |-> NoRun] /\ agent' = [c \in Chats |-> NoAgent]
      /\ retries' = [c \in Chats |-> 0] /\ failures' = failures
  BY DEF Crash
<1>2. failures \in Nat
  BY FlowBoundsAssumption DEF TypeOK
<1> QED BY <1>1, <1>2 DEF RunsEnd, GoneWell, Counted, NoRun, NoAgent

LEMMA RunsEndStep ==
  ASSUME IInv, RunsEnd, [Next]_vars
  PROVE  RunsEnd'
<1>1. TypeOK /\ TypeOK'
  BY StepIInv DEF IInv
<1>2. ASSUME NEW c \in Chats, AgentStep(c)
      PROVE  RunsEnd'
  BY <1>1, <1>2, AgentRunsEnd, LeavesRunsEnd DEF AgentStep
<1>3. ASSUME NEW c \in Chats, RunStep(c)
      PROVE  RunsEnd'
  <2>1. CASE RetryFires(c)
    BY <2>1, RunsEndRest DEF RetryFires, history
  <2> QED BY <1>1, <1>3, <2>1, StartRunRunsEnd, RegisterRunsEnd, EndRunRunsEnd
          DEF RunStep
<1>4. ASSUME NEW c \in Chats, Trouble(c)
      PROVE  RunsEnd'
  <2>1. CASE CloseStdin(c) \/ InterruptQuery(c)
    BY <2>1, RunsEndRest DEF CloseStdin, InterruptQuery, host, history
  <2> QED BY <1>1, <1>4, <2>1, BootFailsRunsEnd, LeavesRunsEnd DEF Trouble
<1>5. ASSUME NEW c \in Chats, NEW m \in Msgs, Arrive(c, m) \/ WebArrive(c, m)
      PROVE  RunsEnd'
  BY <1>5, RunsEndRest DEF Arrive, WebArrive, host, history
<1>6. ASSUME NEW m \in Msgs, WebReply(m) \/ WebSend(m)
      PROVE  RunsEnd'
  <2>1. CASE WebReply(m)
    BY <2>1, RunsEndRest DEF WebReply
  <2>2. CASE WebSend(m)
    <3>1. msg[m] \in Chats
      BY <2>2, ExpandingIsStored DEF WebSend
    <3> QED BY <1>1, <2>2, <3>1, WebSendRunsEnd
  <2> QED BY <1>6, <2>1, <2>2
<1>7. CASE Poll \/ UNCHANGED vars
  BY <1>7, RunsEndRest DEF Poll, vars, host, history
<1>8. CASE Crash
  BY <1>1, <1>8, CrashRunsEnd
<1>9. ASSUME NEW c \in Chats, Visit(c)
      PROVE  RunsEnd'
  BY <1>1, <1>9, VisitRunsEnd
<1> QED BY <1>2, <1>3, <1>4, <1>5, <1>6, <1>7, <1>8, <1>9 DEF Next, ImNext

LEMMA RunsEndInvariant == Spec => []RunsEnd
<1>1. Init => RunsEnd
  BY FlowBoundsAssumption DEF Init, RunsEnd, GoneWell, Counted, NoRun, NoAgent
<1>2. IInv /\ RunsEnd /\ [Next]_vars => RunsEnd'
  BY RunsEndStep
<1> QED BY <1>1, <1>2, Invariance, PTL DEF Spec

-----------------------------------------------------------------------------
(* What the loop has seen.                                                 *)

\* A message of an IM chat that the loop has seen and nobody was given, and
\* that no command and no web message has overtaken.
Untaken(ms, w, gh, s, c, m) ==
  /\ NoWeb(ms, w, c) /\ ms[m] = c /\ m <= s /\ m \notin gh
  /\ ~\E k \in Commands : k > m /\ ms[k] = ms[m]
  /\ ~\E k \in w : k > m

\* A batch reaches to the last message the loop has seen of its chat.
Reaches(ms, w, s, b, c) ==
  NoWeb(ms, w, c) /\ b # {} =>
    \A m \in Msgs : ms[m] = c /\ m <= s /\ (~\E k \in w : k > m)
                      => \E n \in b : m <= n

SeenInv ==
  /\ Stored(msg, seen)
  /\ \A c \in Chats : Reaches(msg, web, seen, batch[c], c)

\* No step but Poll moves the seen cursor over messages of IM chats.
Calm ==
  /\ Grows /\ (seen' = seen \/ seen' \in web')
  /\ \A c \in Chats : batch'[c] \in {batch[c], {}}

LEMMA CalmStep ==
  ASSUME IInv, [Next]_vars, ~Poll
  PROVE  Calm
<1>1. TypeOK
  BY DEF IInv
<1>2. ASSUME UNCHANGED <<msg, web, seen, batch>>, given \subseteq given',
             injected \subseteq injected', handled \subseteq handled'
      PROVE  Calm
  BY <1>2 DEF Calm, Grows
<1>3. ASSUME NEW c \in Chats, AgentStep(c)
      PROVE  Calm
  BY <1>2, <1>3 DEF AgentStep, AgentStart, Pipe, Result, Interrupt, CloseStream,
     Wake, Leave, hostIdle, history
<1>4. ASSUME NEW c \in Chats, RunStep(c)
      PROVE  Calm
  <2>1. CASE StartRun(c)
    BY <1>2, <2>1 DEF StartRun, NothingToDo, ColdStart, StartReplies, StartDenied,
       Boot
  <2>2. CASE EndRun(c)
    BY <1>2, <2>2 DEF EndRun
  <2>3. CASE Register(c) \/ RetryFires(c)
    BY <1>2, <2>3 DEF Register, RetryFires, history
  <2> QED BY <1>4, <2>1, <2>2, <2>3 DEF RunStep
<1>5. ASSUME NEW c \in Chats, Trouble(c)
      PROVE  Calm
  BY <1>2, <1>5 DEF Trouble, BootFails, Fail, CloseStdin, InterruptQuery,
     hostIdle, host, history
<1>6. ASSUME NEW c \in Chats, Visit(c)
      PROVE  Calm
  <2>1. /\ UNCHANGED <<msg, web, seen>> /\ given \subseteq given'
        /\ injected \subseteq injected' /\ handled \subseteq handled'
    BY <1>6 DEF Visit, VisitDenied, VisitReplies, VisitSends, VisitEnqueues, Inject
  <2>2. \A d \in Chats : batch'[d] \in {batch[d], {}}
    BY <1>1, <1>6 DEF Visit, TypeOK
  <2> QED BY <2>1, <2>2 DEF Calm, Grows
<1>7. ASSUME NEW c \in Chats, NEW m \in Msgs, Arrive(c, m)
      PROVE  Calm
  <2>1. UNCHANGED <<web, seen, batch, given, injected, handled>> /\ Store(c, m)
    BY <1>7 DEF Arrive, host, history
  <2> QED BY <2>1, StoreGrows DEF Calm
<1>8. ASSUME NEW c \in Chats, NEW m \in Msgs, WebArrive(c, m)
      PROVE  Calm
  <2>1. /\ web' = web \cup {m} /\ batch' = batch /\ Store(c, m)
        /\ UNCHANGED <<given, injected>> /\ handled \subseteq handled'
        /\ seen' \in {seen, m}
    BY <1>8 DEF WebArrive, AdvanceGlobalCursor, Later
  <2>2. Grows
    BY <2>1, StoreGrows
  <2> QED BY <2>1, <2>2 DEF Calm
<1>9. ASSUME NEW m \in Msgs, WebReply(m) \/ WebSend(m)
      PROVE  Calm
  <2>1. /\ UNCHANGED <<msg, web, batch>> /\ given \subseteq given'
        /\ injected \subseteq injected' /\ handled \subseteq handled'
        /\ seen' \in {seen, m} /\ m \in expanding
    BY <1>9 DEF WebReply, WebSend, AdvanceGlobalCursor, Later, Inject
  <2>2. m \in web
    BY <2>1, ExpandingIsStored
  <2> QED BY <2>1, <2>2 DEF Calm, Grows
<1>10. CASE UNCHANGED vars
  BY <1>2, <1>10 DEF vars, host, history
<1>11. CASE Crash
  <2>1. /\ UNCHANGED <<msg, web, seen, given, injected, handled>>
        /\ batch' = [c \in Chats |-> {}]
    BY <1>11 DEF Crash, history
  <2> QED BY <2>1 DEF Calm, Grows
<1> QED
  BY <1>3, <1>4, <1>5, <1>6, <1>7, <1>8, <1>9, <1>10, <1>11 DEF Next, ImNext

\* What a calm step leaves behind the seen cursor was there before, unless a
\* web message went past it.
LEMMA SeenBefore ==
  ASSUME IInv, IInv', Calm, Stored(msg, seen), NEW c \in Chats, NEW m \in Msgs,
         NoWeb(msg', web', c), msg'[m] = c, m <= seen', ~\E k \in web' : k > m
  PROVE  /\ NoWeb(msg, web, c) /\ msg[m] = c /\ m <= seen
         /\ ~\E k \in web : k > m
<1>1. web \subseteq {n \in Msgs : msg[n] # NoChat} /\ web \subseteq web'
      /\ web' \subseteq Msgs
  BY DEF IInv, Cursors, Sources, TypeOK, Calm, Grows
<1>2. NoWeb(msg, web, c)
  BY <1>1, NoWebKept DEF Calm
<1>3. m \in Nat /\ seen' \in Nat
  BY CursorIsNat DEF IInv, TypeOK
<1>4. CASE seen' = seen
  BY <1>1, <1>2, <1>4, OldBelowStored DEF Calm
<1>5. CASE seen' \in web'
  <2>1. ~(seen' > m)
    BY <1>5
  <2>2. seen' = m
    BY <1>3, <2>1
  <2> QED BY <1>5, <2>2 DEF NoWeb
<1> QED BY <1>4, <1>5 DEF Calm

LEMMA UntakenBefore ==
  ASSUME IInv, IInv', Calm, Stored(msg, seen), NEW c \in Chats, NEW m \in Msgs,
         Untaken(msg', web', given' \cup handled', seen', c, m)
  PROVE  Untaken(msg, web, TakenUp, seen, c, m)
<1>1. /\ NoWeb(msg, web, c) /\ msg[m] = c /\ m <= seen
      /\ ~\E k \in web : k > m
  BY SeenBefore DEF Untaken
<1>2. m \notin TakenUp
  BY DEF Untaken, Calm, Grows, TakenUp
<1>3. ~\E k \in Commands : k > m /\ msg[k] = msg[m]
  <2> SUFFICES ASSUME NEW k \in Commands, k > m, msg[k] = msg[m] PROVE FALSE
    OBVIOUS
  <2>1. k \in Msgs /\ msg[k] # NoChat
    BY <1>1, CommandsAssumption, ChatsAssumption
  <2>2. msg'[k] = msg'[m]
    BY <1>1, <2>1 DEF Calm, Grows, Untaken
  <2> QED BY <2>2 DEF Untaken
<1> QED BY <1>1, <1>2, <1>3 DEF Untaken

LEMMA CalmSeen ==
  ASSUME IInv, IInv', SeenInv, Calm
  PROVE  SeenInv'
<1>1. Stored(msg', seen')
  <2>1. CASE seen' = seen
    BY <2>1 DEF SeenInv, Stored, Calm, Grows
  <2>2. CASE seen' \in web'
    BY <2>2 DEF IInv, Cursors, Sources, Stored
  <2> QED BY <2>1, <2>2 DEF Calm
<1>2. ASSUME NEW c \in Chats, NoWeb(msg', web', c), batch'[c] # {},
             NEW m \in Msgs, msg'[m] = c, m <= seen', ~\E k \in web' : k > m
      PROVE  \E n \in batch'[c] : m <= n
  <2>1. batch'[c] = batch[c]
    BY <1>2 DEF Calm
  <2>2. /\ NoWeb(msg, web, c) /\ msg[m] = c /\ m <= seen
        /\ ~\E k \in web : k > m
    BY <1>2, SeenBefore DEF SeenInv
  <2>3. Reaches(msg, web, seen, batch[c], c)
    BY DEF SeenInv
  <2> QED BY <1>2, <2>1, <2>2, <2>3 DEF Reaches
<1>3. \A c \in Chats : Reaches(msg', web', seen', batch'[c], c)
  BY <1>2 DEF Reaches
<1> QED BY <1>1, <1>3 DEF SeenInv

LEMMA PollSeen ==
  ASSUME IInv, Poll
  PROVE  SeenInv'
<1>1. /\ UNCHANGED <<msg, web>> /\ batch' = [c \in Chats |-> Since(c, seen)]
      /\ seen' \in Msgs /\ msg[seen'] # NoChat
  BY DEF Poll, history, IsLast
<1>2. Stored(msg', seen')
  BY <1>1 DEF Stored
<1>3. ASSUME NEW c \in Chats, Since(c, seen) # {}, NEW m \in Msgs, msg[m] = c
      PROVE  \E n \in Since(c, seen) : m <= n
  <2>1. m \in Nat /\ seen \in Nat
    BY CursorIsNat DEF IInv, TypeOK
  <2>2. CASE m > seen
    BY <1>3, <2>1, <2>2 DEF Since
  <2>3. CASE ~(m > seen)
    <3>1. PICK n \in Since(c, seen) : TRUE
      BY <1>3
    <3>2. n \in Nat /\ n > seen
      BY <3>1, CursorIsNat DEF Since
    <3>3. m <= n
      BY <2>1, <2>3, <3>2
    <3> QED BY <3>1, <3>3
  <2> QED BY <2>2, <2>3
<1>4. \A c \in Chats : Reaches(msg', web', seen', batch'[c], c)
  BY <1>1, <1>3 DEF Reaches
<1> QED BY <1>2, <1>4 DEF SeenInv

LEMMA SeenInvariant == Spec => []SeenInv
<1>1. Init => SeenInv
  BY DEF Init, SeenInv, Stored, Reaches
<1>2. IInv /\ SeenInv /\ [Next]_vars => SeenInv'
  <2> SUFFICES ASSUME IInv, SeenInv, [Next]_vars PROVE SeenInv'
    OBVIOUS
  <2>1. IInv'
    BY StepIInv
  <2> QED BY <2>1, CalmStep, CalmSeen, PollSeen
<1> QED BY <1>1, <1>2, Invariance, PTL DEF Spec

-----------------------------------------------------------------------------
(* What the loop has seen keeps something that will look at it again.      *)

\* The batch, a queued check or a run that took it; and when no run is on, a
\* retry, or the count of the retries that are used up, or of crashes.
Watched(b, p, r, t, n, f, k, x, m) ==
  \/ m \in b \/ p
  \/ r.stage # "none" /\ m \in r.taken
  \/ /\ r.stage = "none"
     /\ t \/ (n = 0 /\ f > MaxRetries) \/ (k = 0 /\ x > 0)

Takers ==
  \A c \in Chats, m \in Msgs :
    Untaken(msg, web, TakenUp, seen, c, m)
      => Watched(batch[c], pending[c], run[c], timer[c], retries[c], failures,
                 committed[c], crashes, m)

WatchedNow(c, m) == Watched(batch[c], pending[c], run[c], timer[c], retries[c],
                            failures, committed[c], crashes, m)

WatchedNext(c, m) == Watched(batch'[c], pending'[c], run'[c], timer'[c],
                             retries'[c], failures', committed'[c], crashes', m)

UntakenNow(c, m) == Untaken(msg, web, TakenUp, seen, c, m)

UntakenNext(c, m) == Untaken(msg', web', given' \cup handled', seen', c, m)

\* The invariant of this part.
TInv == IInv /\ RunsEnd /\ SeenInv /\ Takers

\* Nothing that watches over chat d changes.
WatchRests(d) ==
  /\ batch'[d] = batch[d] /\ pending'[d] = pending[d] /\ run'[d] = run[d]
  /\ timer'[d] = timer[d] /\ retries'[d] = retries[d]
  /\ committed'[d] = committed[d]

LEMMA OnlyOneChat ==
  ASSUME TInv, IInv', Calm, crashes' = crashes, failures <= failures',
         NEW c \in Chats, \A d \in Chats : d # c => WatchRests(d),
         \A m \in Msgs : UntakenNow(c, m) /\ UntakenNext(c, m) => WatchedNext(c, m)
  PROVE  Takers'
<1>1. ASSUME NEW d \in Chats, NEW m \in Msgs, UntakenNext(d, m)
      PROVE  WatchedNext(d, m)
  <2>1. UntakenNow(d, m)
    BY <1>1, UntakenBefore DEF TInv, SeenInv, UntakenNow, UntakenNext
  <2>2. CASE d = c
    BY <1>1, <2>1, <2>2
  <2>3. CASE d # c
    <3>1. WatchRests(d) /\ WatchedNow(d, m)
      BY <2>1, <2>3 DEF TInv, Takers, UntakenNow, WatchedNow
    <3>2. failures > MaxRetries => failures' > MaxRetries
      BY FlowBoundsAssumption DEF TInv, IInv, TypeOK
    <3> QED BY <3>1, <3>2 DEF WatchRests, WatchedNow, WatchedNext, Watched
  <2> QED BY <2>2, <2>3
<1> QED BY <1>1 DEF Takers, WatchedNext, UntakenNext, TakenUp

\* Nothing that watches changes at all.
LEMMA WatchStays ==
  ASSUME TInv, IInv', Calm, UNCHANGED <<crashes, failures>>,
         \A d \in Chats : WatchRests(d)
  PROVE  Takers'
<1>1. ASSUME NEW d \in Chats, NEW m \in Msgs, UntakenNext(d, m)
      PROVE  WatchedNext(d, m)
  <2>1. UntakenNow(d, m)
    BY <1>1, UntakenBefore DEF TInv, SeenInv, UntakenNow, UntakenNext
  <2>2. WatchRests(d) /\ WatchedNow(d, m)
    BY <2>1 DEF TInv, Takers, UntakenNow, WatchedNow
  <2> QED BY <2>2 DEF WatchRests, WatchedNow, WatchedNext, Watched
<1> QED BY <1>1 DEF Takers, WatchedNext, UntakenNext, TakenUp

\* A message that is still to be taken lies ahead of the pull cursor.
LEMMA UntakenIsAhead ==
  ASSUME TInv, NEW c \in Chats, NEW m \in Msgs, UntakenNow(c, m)
  PROVE  /\ m \in Since(c, pull[c]) /\ Since(c, pull[c]) = ToSend(c)
         /\ m \in Since(c, committed[c])
<1>1. Clear(msg, injected, handled, c, pull[c]) /\ injected \subseteq given
  BY DEF TInv, IInv, Cursors, Sources, Pulls, UntakenNow, Untaken
<1>2. ~(m <= pull[c])
  BY <1>1 DEF Clear, Passable, UntakenNow, Untaken, TakenUp
<1>3. m \in Nat /\ pull[c] \in Nat /\ committed[c] \in Nat /\ committed[c] <= pull[c]
  BY CursorIsNat DEF TInv, IInv, TypeOK, Cursors, CommittedBehindPull
<1>4. m > pull[c] /\ m > committed[c] /\ msg[m] = c
  BY <1>2, <1>3 DEF UntakenNow, Untaken
<1> QED BY <1>4 DEF Since, ToSend

LEMMA VisitTakes ==
  ASSUME TInv, IInv', Calm, NEW c \in Chats, Visit(c)
  PROVE  Takers'
<1>1. TypeOK /\ crashes' = crashes /\ failures' = failures /\ timer' = timer
      /\ retries' = retries
  BY DEF TInv, IInv, Visit
<1>2. \A d \in Chats : d # c => batch'[d] = batch[d]
  BY <1>1 DEF Visit, TypeOK
<1>3. \A d \in Chats : d # c => run'[d] = run[d]
  BY <1>1 DEF Visit, VisitDenied, VisitReplies, VisitSends, VisitEnqueues, TypeOK
<1>4. \A d \in Chats : d # c => pending'[d] = pending[d]
  BY <1>1 DEF Visit, VisitDenied, VisitReplies, VisitSends, VisitEnqueues,
              EnqueueCheck, TypeOK
<1>5. \A d \in Chats : d # c => committed'[d] = committed[d]
  BY <1>1 DEF Visit, VisitDenied, VisitReplies, VisitSends, VisitEnqueues,
              PassReplies, SetCursors, AdvanceNextPullCursorOnly, TypeOK
<1>6. ASSUME NEW m \in Msgs, UntakenNow(c, m), UntakenNext(c, m)
      PROVE  WatchedNext(c, m)
  <2>1. m \in ToSend(c)
    BY <1>6, UntakenIsAhead
  <2>2. m \notin handled' /\ m \notin given'
    BY <1>6 DEF UntakenNext, Untaken
  <2>3. ~VisitDenied(c)
    <3> SUFFICES ASSUME VisitDenied(c) PROVE FALSE
      OBVIOUS
    <3>1. PICK last \in batch[c] :
            /\ IsLast(last, batch[c])
            /\ {n \in Since(c, pull[c]) : n <= last} \subseteq handled'
      BY DEF VisitDenied
    <3>2. PICK n \in batch[c] : m <= n
      <4>1. Reaches(msg, web, seen, batch[c], c)
        BY DEF TInv, SeenInv
      <4> QED BY <1>6, <3>1, <4>1 DEF Reaches, UntakenNow, Untaken
    <3>3. m \in Nat /\ n \in Nat /\ last \in Nat /\ n <= last
      BY <1>1, <3>1, <3>2, CursorIsNat DEF IsLast, TypeOK
    <3>4. m <= last
      BY <3>2, <3>3
    <3>5. m \in Since(c, pull[c])
      BY <1>6, UntakenIsAhead
    <3> QED BY <2>2, <3>1, <3>4, <3>5
  <2>4. ~VisitReplies(c)
    BY <2>1, <2>2 DEF VisitReplies
  <2>5. ~VisitSends(c)
    BY <2>1, <2>2 DEF VisitSends, Inject
  <2>6. VisitEnqueues(c)
    BY <2>3, <2>4, <2>5 DEF Visit
  <2>7. pending'[c]
    BY <1>1, <2>6 DEF VisitEnqueues, EnqueueCheck, TypeOK
  <2> QED BY <2>7 DEF WatchedNext, Watched
<1>7. \A d \in Chats : d # c => WatchRests(d)
  BY <1>1, <1>2, <1>3, <1>4, <1>5 DEF WatchRests
<1>8. failures <= failures'
  BY <1>1, FlowCounts DEF TypeOK
<1> QED BY <1>1, <1>6, <1>7, <1>8, OnlyOneChat

\* The fields of chats other than c in a step of a run.
LEMMA CommitIsLocal ==
  ASSUME TypeOK, NEW c \in Chats, Commit(c) \/ UNCHANGED <<pull, committed>>
  PROVE  \A d \in Chats : d # c => committed'[d] = committed[d]
  BY DEF Commit, AdvanceCursors, TypeOK

LEMMA StartRunTakes ==
  ASSUME TInv, IInv', Calm, NEW c \in Chats, StartRun(c)
  PROVE  Takers'
<1>1. TypeOK /\ crashes' = crashes /\ failures' = failures /\ batch' = batch
      /\ given' = given /\ run[c].stage = "none"
  BY DEF TInv, IInv, StartRun
<1>2. \A d \in Chats : d # c => pending'[d] = pending[d]
  BY <1>1 DEF StartRun, TypeOK
<1>3. \A d \in Chats : d # c => retries'[d] = retries[d] /\ timer'[d] = timer[d]
  BY <1>1 DEF StartRun, TypeOK
<1>4. \A d \in Chats : d # c => run'[d] = run[d]
  BY <1>1 DEF StartRun, NothingToDo, ColdStart, StartReplies, StartDenied, Boot,
              TypeOK
<1>5. \A d \in Chats : d # c => committed'[d] = committed[d]
  BY <1>1 DEF StartRun, NothingToDo, ColdStart, StartReplies, StartDenied, Boot,
     PassReplies, SetCursors, AdvanceCursors, AdvanceNextPullCursorOnly, TypeOK
<1>6. ASSUME NEW m \in Msgs, UntakenNow(c, m), UntakenNext(c, m)
      PROVE  WatchedNext(c, m)
  <2>1. m \in Since(c, pull[c])
    BY <1>6, UntakenIsAhead
  <2>2. m \notin handled'
    BY <1>6 DEF UntakenNext, Untaken
  <2>3. Boot(c)
    BY <2>1, <2>2 DEF StartRun, NothingToDo, ColdStart, StartReplies, StartDenied
  <2> DEFINE r == [NoRun EXCEPT !.stage = "booting",
                                !.taken = Since(c, pull[c]) \ Commands]
  <2>4. run' = [run EXCEPT ![c] = r] /\ m \notin Commands
    BY <2>1, <2>2, <2>3 DEF Boot
  <2>5. r.stage = "booting" /\ m \in r.taken
    BY <2>1, <2>4 DEF NoRun
  <2> HIDE DEF r
  <2>6. run'[c].stage = "booting" /\ m \in run'[c].taken
    BY <1>1, <2>4, <2>5 DEF TypeOK
  <2> QED BY <2>6 DEF WatchedNext, Watched
<1>7. \A d \in Chats : d # c => WatchRests(d)
  BY <1>1, <1>2, <1>3, <1>4, <1>5 DEF WatchRests
<1>8. failures <= failures'
  BY <1>1, FlowCounts DEF TypeOK
<1> QED BY <1>1, <1>6, <1>7, <1>8, OnlyOneChat

\* A run that goes on, or exits, with what it took.
LEMMA RunKeepsTaken ==
  ASSUME TInv, IInv', Calm, NEW c \in Chats, crashes' = crashes,
         failures' = failures \/ failures' = failures + 1,
         UNCHANGED <<batch, pending, timer, retries>>,
         \A d \in Chats : d # c => run'[d] = run[d] /\ committed'[d] = committed[d],
         run[c].stage # "none", run'[c].stage # "none",
         run'[c].taken = run[c].taken
  PROVE  Takers'
<1>1. ASSUME NEW m \in Msgs, UntakenNow(c, m)
      PROVE  WatchedNext(c, m)
  <2>1. WatchedNow(c, m)
    BY <1>1 DEF TInv, Takers, UntakenNow, WatchedNow
  <2> QED BY <2>1 DEF WatchedNow, WatchedNext, Watched
<1>2. \A d \in Chats : d # c => WatchRests(d)
  BY DEF WatchRests
<1>3. failures \in Nat
  BY FlowBoundsAssumption DEF TInv, IInv, TypeOK
<1>4. failures <= failures'
  BY <1>3
<1> QED BY <1>1, <1>2, <1>4, OnlyOneChat

LEMMA EndRunTakes ==
  ASSUME TInv, IInv', Calm, NEW c \in Chats, EndRun(c)
  PROVE  Takers'
<1>1. TypeOK /\ crashes' = crashes /\ failures' = failures /\ batch' = batch
      /\ given' = given /\ run[c].stage = "exited"
  BY DEF TInv, IInv, EndRun
<1>2. run' = [run EXCEPT ![c] = NoRun] /\ NoRun.stage = "none"
  BY DEF EndRun, NoRun
<1>3. PICK partial \in BOOLEAN :
        /\ partial => run[c].taken \subseteq given
        /\ IF Settles(run[c], partial)
             THEN Commit(c) ELSE UNCHANGED <<pull, committed>>
        /\ handled' = IF partial \/ run[c].exit = "reset"
                        THEN handled \cup run[c].taken ELSE handled
        /\ IF run[c].exit = "error" /\ ~Settles(run[c], partial)
             THEN /\ timer' = [timer EXCEPT ![c] = retries[c] < MaxRetries]
                  /\ retries' = [retries EXCEPT ![c] = NextRetry(@)]
             ELSE /\ timer' = [timer EXCEPT ![c] = FALSE]
                  /\ retries' = [retries EXCEPT ![c] = 0]
  BY DEF EndRun
<1>4. \A d \in Chats : d # c => committed'[d] = committed[d]
  BY <1>1, <1>3, CommitIsLocal
<1>5. /\ \A d \in Chats : d # c => timer'[d] = timer[d]
      /\ \A d \in Chats : d # c => retries'[d] = retries[d]
  BY <1>1, <1>3 DEF TypeOK
<1>6. /\ \A d \in Chats : d # c => pending'[d] = pending[d] /\ run'[d] = run[d]
      /\ pending[c] => pending'[c]
      /\ run'[c].stage = "none"
  BY <1>1, <1>2 DEF EndRun, TypeOK
<1>7. GoneWell(run[c], agent[c], given) /\ Counted(retries[c], run[c], failures)
      /\ Answered(run[c], agent[c], handled)
  BY DEF TInv, RunsEnd, IInv, RunsAnswered
<1>8. ASSUME NEW m \in Msgs, UntakenNow(c, m), UntakenNext(c, m)
      PROVE  WatchedNext(c, m)
  <2>1. WatchedNow(c, m)
    BY <1>8 DEF TInv, Takers, UntakenNow, WatchedNow
  <2>2. m \in batch[c] \/ pending[c] \/ m \in run[c].taken
    BY <1>1, <2>1 DEF WatchedNow, Watched
  <2>3. CASE m \in batch[c] \/ pending[c]
    BY <1>1, <1>6, <2>3 DEF WatchedNext, Watched
  <2>4. CASE m \in run[c].taken
    <3>1. m \notin given /\ m \notin handled /\ m \notin handled'
      BY <1>8 DEF UntakenNow, UntakenNext, Untaken, TakenUp
    <3>2. ~partial /\ ~run[c].replied
          /\ run[c].exit \notin {"closed", "done", "reset", "none"}
      BY <1>1, <1>3, <1>7, <2>4, <3>1 DEF GoneWell, Answered
    <3>3. run[c].exit = "error"
      BY <1>1, <3>2 DEF TypeOK, Run
    <3>4. ~Settles(run[c], partial)
      BY <3>2, <3>3 DEF Settles
    <3>5. /\ timer'[c] <=> retries[c] < MaxRetries
          /\ retries'[c] = NextRetry(retries[c])
      BY <1>1, <1>3, <3>3, <3>4 DEF TypeOK
    <3>6. CASE retries[c] < MaxRetries
      BY <1>6, <3>5, <3>6 DEF WatchedNext, Watched
    <3>7. CASE ~(retries[c] < MaxRetries)
      <4>1. retries[c] \in Nat /\ failures \in Nat /\ MaxRetries \in Nat
        BY <1>1, FlowCounts, FlowBoundsAssumption
      <4>2. retries'[c] = 0
        BY <3>5, <3>7 DEF NextRetry
      <4>3. retries[c] + 1 <= failures
        BY <1>7, <3>3 DEF Counted
      <4>4. failures' > MaxRetries
        BY <1>1, <3>7, <4>1, <4>3
      <4> QED BY <1>6, <4>2, <4>4 DEF WatchedNext, Watched
    <3> QED BY <3>6, <3>7
  <2> QED BY <2>2, <2>3, <2>4
<1>9. \A d \in Chats : d # c => WatchRests(d)
  BY <1>1, <1>4, <1>5, <1>6 DEF WatchRests
<1>10. failures <= failures'
  BY <1>1, FlowCounts DEF TypeOK
<1> QED BY <1>1, <1>8, <1>9, <1>10, OnlyOneChat

LEMMA RetryFiresTakes ==
  ASSUME TInv, IInv', Calm, NEW c \in Chats, RetryFires(c)
  PROVE  Takers'
<1>1. /\ TypeOK /\ crashes' = crashes /\ failures' = failures
      /\ UNCHANGED <<batch, run, retries, committed>>
  BY DEF TInv, IInv, RetryFires
<1>2. /\ pending' = [pending EXCEPT ![c] = TRUE]
      /\ timer' = [timer EXCEPT ![c] = FALSE]
  BY DEF RetryFires, EnqueueCheck
<1>3. pending'[c] /\ \A d \in Chats : d # c => WatchRests(d)
  BY <1>1, <1>2 DEF TypeOK, WatchRests
<1>4. \A m \in Msgs : WatchedNext(c, m)
  BY <1>3 DEF WatchedNext, Watched
<1>5. failures <= failures'
  BY <1>1, FlowCounts DEF TypeOK
<1> QED BY <1>1, <1>3, <1>4, <1>5, OnlyOneChat

LEMMA AgentTakes ==
  ASSUME TInv, IInv', Calm, NEW c \in Chats,
         AgentStep(c) \/ Register(c) \/ BootFails(c) \/ Fail(c)
  PROVE  Takers'
<1>1. TypeOK /\ TypeOK' /\ RunsEnd /\ Answered(run[c], agent[c], handled)
  BY DEF TInv, IInv, RunsAnswered
<1>2. CASE AgentStart(c) \/ Pipe(c) \/ Result(c) \/ Interrupt(c) \/ CloseStream(c)
           \/ Wake(c)
  <2>1. /\ UNCHANGED <<batch, pending, timer, retries, crashes, failures>>
        /\ \A d \in Chats : d # c => run'[d] = run[d]
    BY <1>1, <1>2 DEF AgentStart, Pipe, Result, Interrupt, CloseStream, Wake,
                      Interrupted, Reply, hostIdle, TypeOK
  <2>2. \A d \in Chats : d # c => committed'[d] = committed[d]
    <3>1. Commit(c) \/ UNCHANGED <<pull, committed>>
      BY <1>2 DEF AgentStart, Pipe, Result, Interrupt, CloseStream, Wake,
                  Interrupted, Reply, hostIdle
    <3> QED BY <1>1, <3>1, CommitIsLocal
  <2>3. run[c].stage = "live"
    BY <1>1, <1>2 DEF Answered, AgentStart, Pipe, Result, Interrupt, CloseStream,
                      Wake
  <2>4. SameRun(c)
    BY <1>1, <1>2, AgentRunsEnd
  <2> QED BY <2>1, <2>2, <2>3, <2>4, RunKeepsTaken DEF SameRun
<1>3. CASE Leave(c) \/ Fail(c)
  <2>1. /\ UNCHANGED <<batch, pending, timer, retries, crashes, committed>>
        /\ failures' = failures \/ failures' = failures + 1
        /\ agent[c].phase # "off"
    BY <1>3 DEF Leave, Fail, hostIdle
  <2>2. \A d \in Chats : d # c => run'[d] = run[d]
    BY <1>1, <1>3 DEF Leave, Fail, Exit, TypeOK
  <2>3. run[c].stage = "live"
    BY <1>1, <2>1 DEF Answered
  <2>4. run'[c].taken = run[c].taken /\ run'[c].stage = "exited"
    BY <1>1, <1>3, LeavesRunsEnd
  <2> QED BY <2>1, <2>2, <2>3, <2>4, RunKeepsTaken
<1>4. CASE Register(c) \/ BootFails(c)
  <2>1. /\ UNCHANGED <<batch, pending, timer, retries, crashes, committed>>
        /\ failures' = failures \/ failures' = failures + 1
        /\ run[c].stage = "booting"
    BY <1>4 DEF Register, BootFails
  <2>2. \A d \in Chats : d # c => run'[d] = run[d]
    BY <1>1, <1>4 DEF Register, BootFails, TypeOK
  <2>3. run'[c].taken = run[c].taken /\ run'[c].stage # "none"
    BY <1>1, <1>4, RegisterRunsEnd, BootFailsRunsEnd
  <2> QED BY <2>1, <2>2, <2>3, RunKeepsTaken
<1> QED BY <1>2, <1>3, <1>4 DEF AgentStep

\* A step for a web message: only the chat of that message changes, which is
\* not a chat of IM messages alone.
LEMMA WebTakes ==
  ASSUME TInv, IInv', Calm, NEW c \in Chats, NEW n \in web', msg'[n] = c,
         UNCHANGED <<crashes, failures>>, \A d \in Chats : d # c => WatchRests(d)
  PROVE  Takers'
<1>1. \A m \in Msgs : ~UntakenNext(c, m)
  BY DEF UntakenNext, Untaken, NoWeb
<1>2. failures <= failures'
  BY FlowCounts DEF TInv, IInv, TypeOK
<1> QED BY <1>1, <1>2, OnlyOneChat

LEMMA WebArriveTakes ==
  ASSUME TInv, IInv', Calm, NEW c \in Chats, NEW m \in Msgs, WebArrive(c, m)
  PROVE  Takers'
<1>1. TypeOK /\ m \in web' /\ UNCHANGED <<batch, retries, timer, run, crashes, failures>>
  BY DEF TInv, IInv, WebArrive
<1>2. msg'[m] = c
  BY <1>1 DEF WebArrive, Store, TypeOK
<1>3. \A d \in Chats : d # c => committed'[d] = committed[d]
  BY <1>1 DEF WebArrive, SetCursors, TypeOK
<1>4. \A d \in Chats : d # c => pending'[d] = pending[d]
  BY <1>1 DEF WebArrive, EnqueueCheck, TypeOK
<1>5. \A d \in Chats : d # c => WatchRests(d)
  BY <1>1, <1>3, <1>4 DEF WatchRests
<1> QED BY <1>1, <1>2, <1>5, WebTakes

LEMMA WebGoesOnTakes ==
  ASSUME TInv, IInv', Calm, NEW m \in Msgs, WebReply(m) \/ WebSend(m)
  PROVE  Takers'
<1> DEFINE c == msg[m]
<1>1. c \in Chats /\ m \in web
  BY ExpandingIsStored DEF TInv, WebReply, WebSend
<1>2. TypeOK /\ msg' = msg /\ web' = web
      /\ UNCHANGED <<batch, retries, timer, crashes, failures>>
  BY DEF TInv, IInv, WebReply, WebSend
<1>3. \A d \in Chats : d # c => committed'[d] = committed[d]
  BY <1>2 DEF WebReply, WebSend, AdvanceNextPullCursorOnly, AdvanceCursors,
              SetCursors, TypeOK
<1>4. \A d \in Chats : d # c => pending'[d] = pending[d]
  BY <1>2 DEF WebReply, WebSend, EnqueueCheck, TypeOK
<1>5. \A d \in Chats : d # c => run'[d] = run[d]
  BY <1>2 DEF WebReply, WebSend, TypeOK
<1>6. \A d \in Chats : d # c => WatchRests(d)
  BY <1>2, <1>3, <1>4, <1>5 DEF WatchRests
<1>7. m \in web' /\ msg'[m] = c
  BY <1>1, <1>2
<1> QED BY <1>1, <1>2, <1>6, <1>7, WebTakes

LEMMA PollTakes ==
  ASSUME TInv, Poll
  PROVE  Takers'
<1>1. /\ UNCHANGED <<msg, web, given, handled>>
      /\ batch' = [c \in Chats |-> Since(c, seen)]
      /\ UNCHANGED <<pending, run, timer, retries, failures, committed, crashes>>
      /\ \A c \in Chats : batch[c] = {}
  BY DEF Poll, history
<1>2. ASSUME NEW c \in Chats, NEW m \in Msgs, UntakenNext(c, m)
      PROVE  WatchedNext(c, m)
  <2>1. m \in Nat /\ seen \in Nat
    BY CursorIsNat DEF TInv, IInv, TypeOK
  <2>2. CASE m <= seen
    <3>1. UntakenNow(c, m)
      BY <1>1, <1>2, <2>2 DEF UntakenNow, UntakenNext, Untaken, TakenUp
    <3>2. WatchedNow(c, m)
      BY <3>1 DEF TInv, Takers, UntakenNow, WatchedNow
    <3> QED BY <1>1, <3>2 DEF WatchedNow, WatchedNext, Watched
  <2>3. CASE ~(m <= seen)
    <3>1. m > seen /\ msg[m] = c
      BY <1>1, <1>2, <2>1, <2>3 DEF UntakenNext, Untaken
    <3>2. m \in batch'[c]
      BY <1>1, <3>1 DEF Since
    <3> QED BY <3>2 DEF WatchedNext, Watched
  <2> QED BY <2>2, <2>3
<1> QED BY <1>2 DEF Takers, WatchedNext, UntakenNext, TakenUp

\* Recovery finds what is to be taken, except in a chat without a cursor.
LEMMA CrashTakes ==
  ASSUME TInv, IInv', Calm, Crash
  PROVE  Takers'
<1>1. /\ run' = [c \in Chats |-> NoRun] /\ crashes' = crashes + 1
      /\ committed' = [c \in Chats |-> LoadedCommitted(c)]
      /\ pending' = [c \in Chats |-> Recovers(c)]
  BY DEF Crash
<1>2. ASSUME NEW c \in Chats, NEW m \in Msgs, UntakenNext(c, m)
      PROVE  WatchedNext(c, m)
  <2>1. UntakenNow(c, m)
    BY <1>2, UntakenBefore DEF TInv, SeenInv, UntakenNow, UntakenNext
  <2>2. m \in Since(c, pull[c]) /\ m \in Since(c, committed[c])
    BY <2>1, UntakenIsAhead
  <2>3. m \in Since(c, LoadedCommitted(c))
    BY <2>2 DEF LoadedCommitted
  <2>4. CASE LoadedCommitted(c) # 0
    <3>1. pending'[c]
      BY <1>1, <2>3, <2>4 DEF Recovers
    <3> QED BY <3>1 DEF WatchedNext, Watched
  <2>5. CASE LoadedCommitted(c) = 0
    <3>1. committed'[c] = 0 /\ run'[c].stage = "none"
      BY <1>1, <2>5 DEF NoRun
    <3>2. crashes' > 0
      BY <1>1, FlowCounts DEF TInv, IInv
    <3> QED BY <3>1, <3>2 DEF WatchedNext, Watched
  <2> QED BY <2>4, <2>5
<1> QED BY <1>2 DEF Takers, WatchedNext, UntakenNext, TakenUp

LEMMA TakersStep ==
  ASSUME TInv, [Next]_vars
  PROVE  Takers'
<1>1. IInv'
  BY StepIInv DEF TInv
<1>2. ~Poll => Calm
  BY CalmStep DEF TInv
<1>3. CASE ~Poll
  <2>1. ASSUME UNCHANGED <<batch, pending, run, timer, retries, committed,
                           crashes, failures>>
        PROVE  Takers'
    BY <1>1, <1>2, <1>3, <2>1, WatchStays DEF WatchRests
  <2>2. ASSUME NEW c \in Chats, NEW m \in Msgs, Arrive(c, m)
        PROVE  Takers'
    BY <2>1, <2>2 DEF Arrive, host
  <2>3. ASSUME NEW c \in Chats, CloseStdin(c) \/ InterruptQuery(c)
        PROVE  Takers'
    BY <2>1, <2>3 DEF CloseStdin, InterruptQuery, host
  <2>4. CASE UNCHANGED vars
    BY <2>1, <2>4 DEF vars, host
  <2>5. ASSUME NEW c \in Chats, RunStep(c)
        PROVE  Takers'
    BY <1>1, <1>2, <1>3, <2>5, StartRunTakes, EndRunTakes, RetryFiresTakes,
       AgentTakes DEF RunStep
  <2>6. ASSUME NEW c \in Chats, Trouble(c)
        PROVE  Takers'
    BY <1>1, <1>2, <1>3, <2>3, <2>6, AgentTakes DEF Trouble
  <2>7. ASSUME NEW c \in Chats, Visit(c) \/ AgentStep(c)
        PROVE  Takers'
    BY <1>1, <1>2, <1>3, <2>7, VisitTakes, AgentTakes
  <2>8. ASSUME NEW m \in Msgs,
               WebReply(m) \/ WebSend(m) \/ \E c \in Chats : WebArrive(c, m)
        PROVE  Takers'
    BY <1>1, <1>2, <1>3, <2>8, WebGoesOnTakes, WebArriveTakes
  <2>9. CASE Crash
    BY <1>1, <1>2, <1>3, <2>9, CrashTakes
  <2> QED
    BY <1>3, <2>2, <2>4, <2>5, <2>6, <2>7, <2>8, <2>9 DEF Next, ImNext
<1> QED BY <1>3, PollTakes

\* Every message of an IM chat that the loop has seen, and that nobody was
\* given or told about, has something that will look at it again - the loop's
\* batch, a queued check, a retry, a run that took it -, except when the
\* retries are used up, a crash came before the chat's first commit, or a
\* reply to a command or a web message overtook it.
THEOREM SeenIsNotForgotten == Spec => []SeenHasTaker
<1>1. Init => Takers
  BY CursorIsNat, ChatsAssumption DEF Init, Takers, Untaken
<1>2. IInv /\ RunsEnd /\ SeenInv /\ Takers /\ [Next]_vars => Takers'
  BY TakersStep DEF TInv
<1>3. Takers => SeenHasTaker
  BY DEF Takers, Untaken, Watched, SeenHasTaker, ImOnly, NoWeb, Overtaken, Jumped
<1> QED
  BY <1>1, <1>2, <1>3, Invariance, RunsEndInvariant, SeenInvariant, PTL DEF Spec
=============================================================================
