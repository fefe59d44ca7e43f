------------------------- MODULE MessageFlowProofs -------------------------
(***************************************************************************)
(* Proofs about MessageFlow, for any chats and messages and all bounds:    *)
(* every variable keeps its type, the recovery cursor stays behind the pull *)
(* cursor, and in a chat of an IM channel neither passes a message that     *)
(* nobody dealt with.                                                       *)
(***************************************************************************)
EXTENDS MessageFlow, TLAPS

\* What a cursor may pass: messages that were injected, or dealt with, or that
\* the reply to a later command has overtaken.
Passable(ms, inj, han, m) ==
  \/ m \in inj \cup han
  \/ \E k \in Commands : k > m /\ ms[k] = ms[m]

Clear(ms, inj, han, c, k) ==
  \A m \in Msgs : ms[m] = c /\ m <= k => Passable(ms, inj, han, m)

NoWeb(ms, w, c) == \A m \in w : ms[m] # c

\* A stored place, or one older than every message.
Stored(ms, k) == k \in {0, 1} \/ (k \in Msgs /\ ms[k] # NoChat)

\* The pull cursor of an IM chat stands at a stored message and has passed only
\* what it may: more than NeverSkipped and CommittedIsHandled say.
Pulls(ms, w, inj, han, p) ==
  \A c \in Chats :
    Stored(ms, p[c]) /\ (NoWeb(ms, w, c) => Clear(ms, inj, han, c, p[c]))

\* What a run has taken leaves no gap: its commit may take the cursor there.
TakenIsClear(ms, inj, han, taken, c) ==
  \A n \in taken, m \in Msgs :
    ms[m] = c /\ m <= n => m \in taken \/ Passable(ms, inj, han, m)

Takes(ms, w, inj, han, r) ==
  \A c \in Chats :
    /\ r[c].taken \subseteq Msgs /\ \A m \in r[c].taken : ms[m] = c
    /\ NoWeb(ms, w, c) => TakenIsClear(ms, inj, han, r[c].taken, c)

\* When a run may commit, what it has taken is dealt with.
Answered(r, a, han) ==
  /\ r.stage # "live" => a.phase = "off"
  /\ a.phase = "query" => r.taken \subseteq a.prompt \cup han
  /\ (a.phase = "query" /\ a.result) \/ a.phase = "idle" => r.taken \subseteq han
  /\ r.replied \/ r.exit = "done" => r.taken \subseteq han

RunsAnswered == \A c \in Chats : Answered(run[c], agent[c], handled)

\* Where messages come from.
Sources ==
  /\ \A c \in Chats : \A m \in batch[c] : msg[m] = c
  /\ expanding \subseteq web /\ web \subseteq {m \in Msgs : msg[m] # NoChat}
  /\ injected \subseteq given

Cursors ==
  /\ Sources /\ CommittedBehindPull
  /\ Pulls(msg, web, injected, handled, pull)

IInv ==
  /\ TypeOK /\ Cursors
  /\ Takes(msg, web, injected, handled, run)
  /\ RunsAnswered

-----------------------------------------------------------------------------
(* Cursors.                                                                *)

LEMMA CursorIsNat == Msgs \subseteq Nat /\ Cursor \subseteq Nat /\ Msgs \subseteq Cursor
  BY MsgsAssumption DEF Cursor

\* The cursors of c alone move, the pull cursor at most to k.
Moved(c, k) ==
  /\ pull' \in [Chats -> Cursor] /\ committed' \in [Chats -> Cursor]
  /\ \A d \in Chats : d # c => pull'[d] = pull[d]
  /\ pull'[c] \in {pull[c], k}
  /\ \A d \in Chats : committed'[d] <= pull'[d]

CursorInv ==
  /\ pull \in [Chats -> Cursor] /\ committed \in [Chats -> Cursor]
  /\ CommittedBehindPull

LEMMA CursorsMove ==
  ASSUME CursorInv, NEW c \in Chats, NEW k \in Msgs,
         SetCursors(c, k) \/ AdvanceNextPullCursorOnly(c, k) \/ AdvanceCursors(c, k)
  PROVE  Moved(c, k)
<1>1. k \in Cursor /\ k \in Nat /\ pull[c] \in Cursor /\ pull[c] \in Nat
      /\ committed[c] \in Nat
  BY CursorIsNat DEF CursorInv
<1>2. Later(pull[c], k) \in {pull[c], k} /\ pull[c] <= Later(pull[c], k)
  BY <1>1 DEF Later
<1>3. CASE SetCursors(c, k)
  BY <1>1, <1>3, CursorIsNat DEF SetCursors, Moved, CursorInv, CommittedBehindPull
<1>4. CASE AdvanceNextPullCursorOnly(c, k)
  <2>1. pull' = [pull EXCEPT ![c] = Later(pull[c], k)] /\ committed' = committed
    BY <1>4 DEF AdvanceNextPullCursorOnly
  <2>2. committed[c] <= Later(pull[c], k)
    BY <1>1, <1>2 DEF CursorInv, CommittedBehindPull
  <2> QED
    BY <1>1, <1>2, <2>1, <2>2 DEF Moved, CursorInv, CommittedBehindPull
<1>5. CASE AdvanceCursors(c, k)
  <2>1. /\ pull' = [pull EXCEPT ![c] = Later(pull[c], k)]
        /\ committed' = [committed EXCEPT ![c] = Later(pull[c], k)]
    BY <1>5 DEF AdvanceCursors
  <2>2. Later(pull[c], k) <= Later(pull[c], k)
    BY <1>1, <1>2
  <2> QED
    BY <1>1, <1>2, <2>1, <2>2 DEF Moved, CursorInv, CommittedBehindPull
<1> QED
  BY <1>3, <1>4, <1>5

LEMMA CursorsStay ==
  ASSUME CursorInv, UNCHANGED <<pull, committed>>, NEW c \in Chats
  PROVE  Moved(c, pull[c])
  BY DEF Moved, CursorInv, CommittedBehindPull

-----------------------------------------------------------------------------
(* What only grows.                                                        *)

Grows ==
  /\ \A m \in Msgs : msg[m] # NoChat => msg'[m] = msg[m]
  /\ \A m \in Msgs : msg'[m] # msg[m] => \A n \in Msgs : n >= m => msg[n] = NoChat
  /\ web \subseteq web' /\ given \subseteq given'
  /\ injected \subseteq injected' /\ handled \subseteq handled'

LEMMA PassableKept ==
  ASSUME Grows, NEW m \in Msgs, msg[m] # NoChat,
         Passable(msg, injected, handled, m)
  PROVE  Passable(msg', injected', handled', m)
<1>1. CASE m \in injected \cup handled
  BY <1>1 DEF Grows, Passable
<1>2. CASE m \notin injected \cup handled
  <2>1. PICK k \in Commands : k > m /\ msg[k] = msg[m]
    BY <1>2 DEF Passable
  <2> QED
    BY <2>1, CommandsAssumption DEF Grows, Passable
<1> QED
  BY <1>1, <1>2

LEMMA OldBelowStored ==
  ASSUME Grows, NEW m \in Msgs, NEW k, Stored(msg, k), m <= k,
         NEW c \in Chats, msg'[m] = c
  PROVE  msg[m] = c
<1>1. SUFFICES ASSUME msg[m] # c PROVE FALSE
  OBVIOUS
<1>2. \A n \in Msgs : n >= m => msg[n] = NoChat
  BY <1>1 DEF Grows
<1>3. m \in Nat \ {0, 1}
  BY MsgsAssumption
<1>4. k \in Msgs /\ msg[k] # NoChat
  BY <1>3 DEF Stored
<1>5. k \in Nat
  BY <1>4, CursorIsNat
<1> QED
  BY <1>2, <1>3, <1>4, <1>5

LEMMA ClearKept ==
  ASSUME Grows, NEW c \in Chats, NEW k, Stored(msg, k),
         Clear(msg, injected, handled, c, k)
  PROVE  Clear(msg', injected', handled', c, k)
<1> SUFFICES ASSUME NEW m \in Msgs, msg'[m] = c, m <= k
             PROVE  Passable(msg', injected', handled', m)
  BY DEF Clear
<1>1. msg[m] = c
  BY OldBelowStored
<1>2. Passable(msg, injected, handled, m)
  BY <1>1 DEF Clear
<1> QED
  BY <1>1, <1>2, PassableKept, ChatsAssumption

LEMMA NoWebKept ==
  ASSUME Grows, web \subseteq {m \in Msgs : msg[m] # NoChat}, NEW c \in Chats,
         NoWeb(msg', web', c)
  PROVE  NoWeb(msg, web, c)
  BY DEF Grows, NoWeb

-----------------------------------------------------------------------------
(* The parts of the invariant that a step of one chat may disturb.         *)

LEMMA PullsMoved ==
  ASSUME Grows, web \subseteq {m \in Msgs : msg[m] # NoChat},
         Pulls(msg, web, injected, handled, pull),
         NEW c \in Chats, NEW k, Moved(c, k),
         k = pull[c] \/ (k \in Msgs /\ msg'[k] # NoChat),
         k = pull[c] \/ (NoWeb(msg', web', c) => Clear(msg', injected', handled', c, k))
  PROVE  Pulls(msg', web', injected', handled', pull')
<1> SUFFICES ASSUME NEW d \in Chats
             PROVE  /\ Stored(msg', pull'[d])
                    /\ NoWeb(msg', web', d)
                         => Clear(msg', injected', handled', d, pull'[d])
  BY DEF Pulls
<1>1. CASE pull'[d] = pull[d]
  <2>1. Stored(msg, pull[d]) /\ (NoWeb(msg, web, d) => Clear(msg, injected, handled, d, pull[d]))
    BY DEF Pulls
  <2>2. Stored(msg', pull[d])
    BY <2>1 DEF Grows, Stored
  <2> QED
    BY <1>1, <2>1, <2>2, NoWebKept, ClearKept
<1>2. CASE pull'[d] # pull[d]
  <2>1. d = c /\ pull'[d] = k /\ k # pull[c]
    BY <1>2 DEF Moved
  <2> QED
    BY <2>1 DEF Stored
<1> QED
  BY <1>1, <1>2

LEMMA PullsStay ==
  ASSUME Grows, web \subseteq {m \in Msgs : msg[m] # NoChat},
         Pulls(msg, web, injected, handled, pull), UNCHANGED pull
  PROVE  Pulls(msg', web', injected', handled', pull')
<1> SUFFICES ASSUME NEW d \in Chats
             PROVE  /\ Stored(msg', pull[d])
                    /\ NoWeb(msg', web', d)
                         => Clear(msg', injected', handled', d, pull[d])
  BY DEF Pulls
<1>1. Stored(msg, pull[d]) /\ (NoWeb(msg, web, d) => Clear(msg, injected, handled, d, pull[d]))
  BY DEF Pulls
<1>2. Stored(msg', pull[d])
  BY <1>1 DEF Grows, Stored
<1> QED
  BY <1>1, <1>2, NoWebKept, ClearKept

\* No chat but c takes anything new.
LEMMA TakesKept ==
  ASSUME Grows, web \subseteq {m \in Msgs : msg[m] # NoChat},
         Takes(msg, web, injected, handled, run),
         \A c \in Chats : run'[c].taken \in {{}, run[c].taken}
  PROVE  Takes(msg', web', injected', handled', run')
<1> SUFFICES ASSUME NEW c \in Chats
             PROVE  /\ run'[c].taken \subseteq Msgs
                    /\ \A m \in run'[c].taken : msg'[m] = c
                    /\ NoWeb(msg', web', c) =>
                         TakenIsClear(msg', injected', handled', run'[c].taken, c)
  BY DEF Takes
<1>1. CASE run'[c].taken = {}
  BY <1>1 DEF TakenIsClear
<1>2. CASE run'[c].taken = run[c].taken
  <2>1. /\ run[c].taken \subseteq Msgs /\ \A m \in run[c].taken : msg[m] = c
        /\ NoWeb(msg, web, c) =>
             TakenIsClear(msg, injected, handled, run[c].taken, c)
    BY DEF Takes
  <2>2. \A m \in run[c].taken : msg'[m] = c
    BY <2>1, ChatsAssumption DEF Grows
  <2>3. ASSUME NoWeb(msg', web', c), NEW n \in run[c].taken, NEW m \in Msgs,
               msg'[m] = c, m <= n
        PROVE  m \in run[c].taken \/ Passable(msg', injected', handled', m)
    <3>1. Stored(msg, n)
      BY <2>1, ChatsAssumption DEF Stored
    <3>2. msg[m] = c
      BY <2>3, <3>1, OldBelowStored
    <3>3. m \in run[c].taken \/ Passable(msg, injected, handled, m)
      BY <2>1, <2>3, <3>2, NoWebKept DEF TakenIsClear
    <3> QED
      BY <3>2, <3>3, PassableKept, ChatsAssumption
  <2> QED
    BY <1>2, <2>1, <2>2, <2>3 DEF TakenIsClear
<1> QED
  BY <1>1, <1>2

-----------------------------------------------------------------------------
(* What a step that stores no message keeps.                               *)

\* No message is stored, the loop sees no more, and the history grows.
Steady ==
  /\ UNCHANGED <<msg, web>>
  /\ expanding' \subseteq expanding
  /\ \A c \in Chats : batch'[c] \subseteq batch[c]
  /\ given \subseteq given' /\ injected \subseteq injected'
  /\ handled \subseteq handled' /\ injected' \subseteq given'

LEMMA SteadyGrows ==
  ASSUME Steady
  PROVE  Grows
BY DEF Steady, Grows

LEMMA SteadySources ==
  ASSUME Sources, Steady
  PROVE  Sources'
BY DEF Sources, Steady

\* What the pull cursor of c jumps over when it goes to k may be passed.
JumpsOver(c, k, inj, han) ==
  k = pull[c] \/
  /\ k \in Msgs /\ msg[k] = c
  /\ NoWeb(msg, web, c)
       => \A m \in Since(c, pull[c]) : m <= k => Passable(msg, inj, han, m)

LEMMA CursorsKept ==
  ASSUME TypeOK, Cursors, Steady, NEW c \in Chats, NEW k, Moved(c, k),
         JumpsOver(c, k, injected', handled')
  PROVE  Cursors'
<1>1. Grows /\ Sources'
  BY SteadyGrows, SteadySources DEF Cursors
<1>2. web \subseteq {m \in Msgs : msg[m] # NoChat}
  BY DEF Cursors, Sources
<1>3. msg' = msg /\ web' = web
  BY DEF Steady
<1>4. k = pull[c] \/ (k \in Msgs /\ msg'[k] # NoChat)
  BY <1>3, ChatsAssumption DEF JumpsOver
<1>5. ASSUME k # pull[c], NoWeb(msg, web, c)
      PROVE  Clear(msg', injected', handled', c, k)
  <2> SUFFICES ASSUME NEW m \in Msgs, msg[m] = c, m <= k
               PROVE  Passable(msg', injected', handled', m)
    BY <1>3 DEF Clear
  <2>1. k \in Nat /\ m \in Nat /\ pull[c] \in Nat
    BY <1>5, CursorIsNat DEF JumpsOver, TypeOK
  <2>2. CASE m <= pull[c]
    <3>1. Passable(msg, injected, handled, m)
      BY <1>5, <2>2 DEF Cursors, Pulls, Clear
    <3> QED
      BY <1>1, <3>1, PassableKept, ChatsAssumption
  <2>3. CASE m > pull[c]
    <3>1. m \in Since(c, pull[c])
      BY <2>3 DEF Since
    <3> QED
      BY <1>3, <1>5, <3>1 DEF JumpsOver
  <2> QED
    BY <2>1, <2>2, <2>3
<1>6. Pulls(msg', web', injected', handled', pull')
  BY <1>1, <1>2, <1>3, <1>4, <1>5, PullsMoved DEF Cursors
<1>7. CommittedBehindPull'
  BY DEF Moved, CommittedBehindPull
<1> QED
  BY <1>1, <1>6, <1>7 DEF Cursors

LEMMA CursorsRest ==
  ASSUME TypeOK, Cursors, Steady, UNCHANGED <<pull, committed>>
  PROVE  Cursors'
<1>1. Grows /\ Sources'
  BY SteadyGrows, SteadySources DEF Cursors
<1>2. web \subseteq {m \in Msgs : msg[m] # NoChat}
  BY DEF Cursors, Sources
<1>3. Pulls(msg', web', injected', handled', pull')
  BY <1>1, <1>2, PullsStay DEF Cursors
<1>4. CommittedBehindPull'
  BY DEF Cursors, CommittedBehindPull
<1> QED
  BY <1>1, <1>3, <1>4 DEF Cursors

LEMMA SteadyTakes ==
  ASSUME Sources, Steady, Takes(msg, web, injected, handled, run),
         \A c \in Chats : run'[c].taken \in {{}, run[c].taken}
  PROVE  Takes(msg', web', injected', handled', run')
BY SteadyGrows, TakesKept DEF Sources

\* The run and the agent of one chat change.
LEMMA AnsweredKept ==
  ASSUME RunsAnswered, handled \subseteq handled', NEW c \in Chats,
         \A d \in Chats : d # c => run'[d] = run[d] /\ agent'[d] = agent[d],
         Answered(run'[c], agent'[c], handled')
  PROVE  RunsAnswered'
<1> SUFFICES ASSUME NEW d \in Chats
             PROVE  Answered(run'[d], agent'[d], handled')
  BY DEF RunsAnswered
<1>1. Answered(run[d], agent[d], handled)
  BY DEF RunsAnswered
<1> QED
  BY <1>1 DEF Answered

LEMMA AnsweredGrows ==
  ASSUME RunsAnswered, handled \subseteq handled', UNCHANGED <<run, agent>>
  PROVE  RunsAnswered'
BY DEF RunsAnswered, Answered

-----------------------------------------------------------------------------
(* The steps of a run and its agent, one chat at a time.                   *)

\* The cursors rest and no chat takes anything new.
LEMMA RestKeeps ==
  ASSUME IInv, Steady, UNCHANGED <<pull, committed>>,
         \A c \in Chats : run'[c].taken \in {{}, run[c].taken},
         TypeOK', RunsAnswered'
  PROVE  IInv'
<1>1. Cursors'
  BY CursorsRest DEF IInv
<1>2. Takes(msg', web', injected', handled', run')
  BY SteadyTakes DEF IInv, Cursors
<1> QED
  BY <1>1, <1>2 DEF IInv

LEMMA ExitedTyped ==
  ASSUME run \in [Chats -> Run], NEW c \in Chats,
         NEW how \in {"closed", "error", "reset", "done"},
         run' = [run EXCEPT ![c].stage = "exited", ![c].exit = how]
  PROVE  /\ run' \in [Chats -> Run]
         /\ \A d \in Chats : run'[d].taken = run[d].taken
<1>1. run[c] \in Run /\ [run[c] EXCEPT !.stage = "exited", !.exit = how] \in Run
  BY DEF Run
<1>2. run' = [run EXCEPT ![c] = [run[c] EXCEPT !.stage = "exited", !.exit = how]]
  OBVIOUS
<1>3. [run[c] EXCEPT !.stage = "exited", !.exit = how].taken = run[c].taken
  BY <1>1 DEF Run
<1> QED
  BY <1>1, <1>2, <1>3

LEMMA RegisterKeeps ==
  ASSUME IInv, NEW c \in Chats, Register(c)
  PROVE  IInv'
<1>1. Steady
  BY DEF IInv, Cursors, Sources, Register, Steady, history
<1>2. TypeOK'
  <2>1. run' \in [Chats -> Run]
    <3>1. run' = [run EXCEPT ![c] = [run[c] EXCEPT !.stage = "live"]]
      BY DEF Register
    <3>2. run \in [Chats -> Run] /\ run[c] \in Run
      BY DEF IInv, TypeOK
    <3>3. [run[c] EXCEPT !.stage = "live"] \in Run
      BY <3>2 DEF Run
    <3> QED
      BY <3>1, <3>2, <3>3
  <2>2. agent' \in [Chats -> Agent]
    <3>1. agent' = [agent EXCEPT ![c] = [agent[c] EXCEPT !.phase = "starting"]]
      BY DEF Register
    <3>2. agent \in [Chats -> Agent] /\ [agent[c] EXCEPT !.phase = "starting"] \in Agent
      BY DEF IInv, TypeOK, Agent
    <3> QED
      BY <3>1, <3>2
  <2> QED
    BY <2>1, <2>2 DEF IInv, TypeOK, Register, history
<1>3. \A d \in Chats : run'[d].taken = run[d].taken
  BY DEF IInv, TypeOK, Register, Run
<1>4. Answered(run'[c], agent'[c], handled')
  BY DEF IInv, TypeOK, RunsAnswered, Answered, Register, history, Run, Agent
<1>5. RunsAnswered'
  <2>1. \A d \in Chats : d # c => run'[d] = run[d] /\ agent'[d] = agent[d]
    BY DEF IInv, TypeOK, Register
  <2> QED
    BY <1>1, <1>4, <2>1, AnsweredKept DEF IInv, Steady
<1> QED
  BY <1>1, <1>2, <1>3, <1>5, RestKeeps DEF Register

LEMMA BootFailsKeeps ==
  ASSUME IInv, NEW c \in Chats, BootFails(c)
  PROVE  IInv'
<1>1. Steady
  BY DEF IInv, Cursors, Sources, BootFails, Steady, history
<1>2. TypeOK'
  <2>1. run' \in [Chats -> Run]
    BY ExitedTyped DEF IInv, TypeOK, BootFails
  <2>2. failures' \in 0..MaxFailures
    BY FlowBoundsAssumption DEF IInv, TypeOK, BootFails
  <2> QED
    BY <2>1, <2>2 DEF IInv, TypeOK, BootFails, history
<1>3. \A d \in Chats : run'[d].taken = run[d].taken
  BY DEF IInv, TypeOK, BootFails, Run
<1>4. Answered(run'[c], agent'[c], handled')
  BY DEF IInv, TypeOK, RunsAnswered, Answered, BootFails, history, Run
<1>5. RunsAnswered'
  <2>1. \A d \in Chats : d # c => run'[d] = run[d] /\ agent'[d] = agent[d]
    BY DEF IInv, TypeOK, BootFails
  <2> QED
    BY <1>1, <1>4, <2>1, AnsweredKept DEF IInv, Steady
<1> QED
  BY <1>1, <1>2, <1>3, <1>5, RestKeeps DEF BootFails

LEMMA RetryFiresKeeps ==
  ASSUME IInv, NEW c \in Chats, RetryFires(c)
  PROVE  IInv'
<1>1. Steady
  BY DEF IInv, Cursors, Sources, RetryFires, Steady, history
<1>2. TypeOK'
  BY DEF IInv, TypeOK, RetryFires, EnqueueCheck, history
<1>3. RunsAnswered'
  BY <1>1, AnsweredGrows DEF IInv, RetryFires, Steady
<1> QED
  BY <1>1, <1>2, <1>3, RestKeeps DEF RetryFires

LEMMA AgentStartKeeps ==
  ASSUME IInv, NEW c \in Chats, AgentStart(c)
  PROVE  IInv'
<1>1. Steady
  BY DEF IInv, Cursors, Sources, AgentStart, Steady, hostIdle
<1>2. TypeOK'
  <2>1. agent' \in [Chats -> Agent]
    BY DEF IInv, TypeOK, AgentStart, Run, Agent, Query
  <2>2. /\ given' \in SUBSET Msgs /\ dir' \in [Chats -> SUBSET Msgs]
        /\ sig' \in [Chats -> SUBSET {"close", "drain", "interrupt"}]
    BY DEF IInv, TypeOK, AgentStart, Run
  <2> QED
    BY <2>1, <2>2 DEF IInv, TypeOK, AgentStart, hostIdle
<1>3. agent'[c] = Query(run[c].taken \cup dir[c]) /\ run'[c] = run[c]
  BY DEF IInv, TypeOK, AgentStart
<1>4. Answered(run'[c], agent'[c], handled')
  BY <1>3 DEF IInv, TypeOK, RunsAnswered, Answered, AgentStart, Query
<1>5. RunsAnswered'
  <2>1. \A d \in Chats : d # c => run'[d] = run[d] /\ agent'[d] = agent[d]
    BY DEF IInv, TypeOK, AgentStart
  <2> QED
    BY <1>1, <1>4, <2>1, AnsweredKept DEF IInv, Steady
<1> QED
  BY <1>1, <1>2, <1>5, RestKeeps DEF AgentStart, hostIdle

LEMMA PipeKeeps ==
  ASSUME IInv, NEW c \in Chats, Pipe(c)
  PROVE  IInv'
<1>1. Steady
  BY DEF IInv, Cursors, Sources, Pipe, Steady, hostIdle, history
<1>2. TypeOK'
  <2>1. /\ agent \in [Chats -> Agent] /\ dir \in [Chats -> SUBSET Msgs]
        /\ agent[c] \in Agent /\ dir[c] \subseteq Msgs
    BY DEF IInv, TypeOK
  <2>2. dir' \in [Chats -> SUBSET Msgs]
    BY <2>1 DEF Pipe
  <2>3. agent' = [agent EXCEPT ![c] =
                    [agent[c] EXCEPT !.piped = agent[c].piped \cup dir[c]]]
    BY DEF Pipe
  <2>4. [agent[c] EXCEPT !.piped = agent[c].piped \cup dir[c]] \in Agent
    BY <2>1 DEF Agent
  <2>5. agent' \in [Chats -> Agent]
    BY <2>1, <2>3, <2>4
  <2> QED
    BY <2>2, <2>5 DEF IInv, TypeOK, Pipe, hostIdle, history
<1>3. Answered(run'[c], agent'[c], handled')
  BY DEF IInv, TypeOK, RunsAnswered, Answered, Pipe, history, Agent
<1>4. RunsAnswered'
  <2>1. \A d \in Chats : d # c => run'[d] = run[d] /\ agent'[d] = agent[d]
    BY DEF IInv, TypeOK, Pipe
  <2> QED
    BY <1>1, <1>3, <2>1, AnsweredKept DEF IInv, Steady
<1> QED
  BY <1>1, <1>2, <1>4, RestKeeps DEF Pipe, hostIdle

LEMMA CloseStreamKeeps ==
  ASSUME IInv, NEW c \in Chats, CloseStream(c)
  PROVE  IInv'
<1>1. Steady
  BY DEF IInv, Cursors, Sources, CloseStream, Steady, hostIdle, history
<1>2. TypeOK'
  BY DEF IInv, TypeOK, CloseStream, hostIdle, history, Agent, IdleAgent, NoAgent
<1>3. agent'[c] = IdleAgent /\ run'[c] = run[c]
  BY DEF IInv, TypeOK, CloseStream
<1>4. Answered(run'[c], agent'[c], handled')
  BY <1>3 DEF IInv, TypeOK, RunsAnswered, Answered, CloseStream, history,
              IdleAgent, NoAgent
<1>5. RunsAnswered'
  <2>1. \A d \in Chats : d # c => run'[d] = run[d] /\ agent'[d] = agent[d]
    BY DEF IInv, TypeOK, CloseStream
  <2> QED
    BY <1>1, <1>4, <2>1, AnsweredKept DEF IInv, Steady
<1> QED
  BY <1>1, <1>2, <1>5, RestKeeps DEF CloseStream, hostIdle

LEMMA WakeKeeps ==
  ASSUME IInv, NEW c \in Chats, Wake(c)
  PROVE  IInv'
<1>1. Steady
  BY DEF IInv, Cursors, Sources, Wake, Steady, hostIdle, history
<1>2. TypeOK'
  BY DEF IInv, TypeOK, Wake, hostIdle, history, Agent, Query
<1>3. agent'[c] = Query(dir[c]) /\ run'[c] = run[c]
  BY DEF IInv, TypeOK, Wake
<1>4. Answered(run'[c], agent'[c], handled')
  BY <1>3 DEF IInv, TypeOK, RunsAnswered, Answered, Wake, history, Query
<1>5. RunsAnswered'
  <2>1. \A d \in Chats : d # c => run'[d] = run[d] /\ agent'[d] = agent[d]
    BY DEF IInv, TypeOK, Wake
  <2> QED
    BY <1>1, <1>4, <2>1, AnsweredKept DEF IInv, Steady
<1> QED
  BY <1>1, <1>2, <1>5, RestKeeps DEF Wake, hostIdle

LEMMA ExitAnswered ==
  ASSUME IInv, NEW c \in Chats, NEW how \in {"closed", "error", "reset", "done"},
         Exit(c, how), agent[c].phase # "off",
         how = "done" => agent[c].phase = "idle", UNCHANGED handled
  PROVE  /\ run' \in [Chats -> Run] /\ agent' \in [Chats -> Agent]
         /\ \A d \in Chats : run'[d].taken = run[d].taken
         /\ RunsAnswered'
<1>1. run' \in [Chats -> Run] /\ \A d \in Chats : run'[d].taken = run[d].taken
  BY ExitedTyped DEF IInv, TypeOK, Exit
<1>2. agent' \in [Chats -> Agent] /\ agent'[c] = NoAgent
  BY DEF IInv, TypeOK, Exit, Agent, NoAgent
<1>3. /\ run'[c].taken = run[c].taken /\ run'[c].replied = run[c].replied
      /\ run'[c].exit = how
  BY DEF IInv, TypeOK, Exit, Run
<1>4. Answered(run[c], agent[c], handled)
  BY DEF IInv, RunsAnswered
<1>5. Answered(run'[c], agent'[c], handled')
  BY <1>2, <1>3, <1>4 DEF Answered, NoAgent
<1>6. \A d \in Chats : d # c => run'[d] = run[d] /\ agent'[d] = agent[d]
  BY DEF IInv, TypeOK, Exit
<1>7. RunsAnswered'
  BY <1>5, <1>6, AnsweredKept DEF IInv
<1> QED
  BY <1>1, <1>2, <1>7

LEMMA LeaveKeeps ==
  ASSUME IInv, NEW c \in Chats, Leave(c)
  PROVE  IInv'
<1>1. Steady
  BY DEF IInv, Cursors, Sources, Leave, Steady, hostIdle, history
<1>2. /\ run' \in [Chats -> Run] /\ agent' \in [Chats -> Agent]
      /\ \A d \in Chats : run'[d].taken = run[d].taken
      /\ RunsAnswered'
  <2>1. handled' = handled
    BY DEF Leave, history
  <2>2. CASE agent[c].phase = "query" /\ Exit(c, "closed")
    BY <2>1, <2>2, ExitAnswered
  <2>3. CASE agent[c].phase = "idle" /\ Exit(c, "done")
    BY <2>1, <2>3, ExitAnswered
  <2> QED
    BY <2>2, <2>3 DEF Leave
<1>3. TypeOK'
  BY <1>2 DEF IInv, TypeOK, Leave, hostIdle, history
<1> QED
  BY <1>1, <1>2, <1>3, RestKeeps DEF Leave, hostIdle

LEMMA FailKeeps ==
  ASSUME IInv, NEW c \in Chats, Fail(c)
  PROVE  IInv'
<1>1. Steady
  BY DEF IInv, Cursors, Sources, Fail, Steady, hostIdle, history
<1>2. /\ run' \in [Chats -> Run] /\ agent' \in [Chats -> Agent]
      /\ \A d \in Chats : run'[d].taken = run[d].taken
      /\ RunsAnswered'
  <2>1. handled' = handled /\ agent[c].phase # "off"
    BY DEF Fail, history
  <2>2. CASE Exit(c, "error")
    BY <2>1, <2>2, ExitAnswered
  <2>3. CASE Exit(c, "reset")
    BY <2>1, <2>3, ExitAnswered
  <2> QED
    BY <2>2, <2>3 DEF Fail
<1>3. failures' \in 0..MaxFailures
  BY FlowBoundsAssumption DEF IInv, TypeOK, Fail
<1>4. TypeOK'
  BY <1>2, <1>3 DEF IInv, TypeOK, Fail, hostIdle, history
<1> QED
  BY <1>1, <1>2, <1>4, RestKeeps DEF Fail, hostIdle

LEMMA SignalKeeps ==
  ASSUME IInv, NEW c \in Chats, CloseStdin(c) \/ InterruptQuery(c)
  PROVE  IInv'
<1>1. UNCHANGED <<msg, host, agent, dir, history, crashes, failures>>
  BY DEF CloseStdin, InterruptQuery
<1>2. Steady
  BY <1>1 DEF IInv, Cursors, Sources, Steady, host, history
<1>3. sig' \in [Chats -> SUBSET {"close", "drain", "interrupt"}]
  <2>1. sig \in [Chats -> SUBSET {"close", "drain", "interrupt"}]
    BY DEF IInv, TypeOK
  <2>2. CASE CloseStdin(c)
    BY <2>1, <2>2 DEF CloseStdin
  <2>3. CASE InterruptQuery(c)
    BY <2>1, <2>3 DEF InterruptQuery
  <2> QED
    BY <2>2, <2>3
<1>4. TypeOK'
  BY <1>1, <1>3 DEF IInv, TypeOK, host, history
<1>5. RunsAnswered'
  BY <1>1, AnsweredGrows DEF IInv, host, history
<1> QED
  BY <1>1, <1>2, <1>4, <1>5, RestKeeps DEF host

-----------------------------------------------------------------------------
(* Steps that move the cursors of one chat.                                *)

LEMMA JumpKeeps ==
  ASSUME IInv, Steady, NEW c \in Chats, NEW k, Moved(c, k),
         JumpsOver(c, k, injected', handled'),
         \A d \in Chats : run'[d].taken \in {{}, run[d].taken},
         TypeOK', RunsAnswered'
  PROVE  IInv'
<1>1. Cursors'
  BY CursorsKept DEF IInv
<1>2. Takes(msg', web', injected', handled', run')
  BY SteadyTakes DEF IInv, Cursors
<1> QED
  BY <1>1, <1>2 DEF IInv

\* A commit takes the pull cursor over what the run has taken.
LEMMA CommitMoves ==
  ASSUME IInv, NEW c \in Chats, Commit(c), Steady, run[c].taken \subseteq handled'
  PROVE  \E k : Moved(c, k) /\ JumpsOver(c, k, injected', handled')
<1>1. CursorInv
  BY DEF IInv, Cursors, TypeOK, CursorInv
<1>2. CASE run[c].committed
  <2>1. UNCHANGED <<pull, committed>>
    BY <1>2 DEF Commit
  <2> QED
    BY <1>1, <2>1, CursorsStay DEF JumpsOver
<1>3. CASE ~run[c].committed
  <2>1. PICK k \in run[c].taken : IsLast(k, run[c].taken) /\ AdvanceCursors(c, k)
    BY <1>3 DEF Commit
  <2>2. k \in Msgs /\ msg[k] = c
    BY DEF IInv, Takes
  <2>3. Moved(c, k)
    BY <1>1, <2>1, <2>2, CursorsMove
  <2>4. ASSUME NoWeb(msg, web, c), NEW m \in Since(c, pull[c]), m <= k
        PROVE  Passable(msg, injected', handled', m)
    <3>1. m \in Msgs /\ msg[m] = c
      BY DEF Since
    <3>2. m \in run[c].taken \/ Passable(msg, injected, handled, m)
      BY <2>4, <3>1 DEF IInv, Takes, TakenIsClear
    <3> QED
      BY <3>2 DEF Steady, Passable
  <2> QED
    BY <2>2, <2>3, <2>4 DEF JumpsOver
<1> QED
  BY <1>2, <1>3

LEMMA CommitTyped ==
  ASSUME IInv, NEW c \in Chats, Commit(c) \/ UNCHANGED <<pull, committed>>,
         Takes(msg, web, injected, handled, run)
  PROVE  pull' \in [Chats -> Cursor] /\ committed' \in [Chats -> Cursor]
<1>1. CursorInv
  BY DEF IInv, Cursors, TypeOK, CursorInv
<1>2. CASE UNCHANGED <<pull, committed>>
  BY <1>1, <1>2 DEF CursorInv
<1>3. CASE ~run[c].committed /\ Commit(c)
  <2>1. PICK k \in run[c].taken : AdvanceCursors(c, k)
    BY <1>3 DEF Commit
  <2>2. k \in Msgs
    BY DEF Takes
  <2> QED
    BY <1>1, <2>1, <2>2, CursorsMove DEF Moved
<1> QED
  BY <1>2, <1>3 DEF Commit

\* A reply changes nothing of a run that the invariant looks at, but `replied`.
LEMMA ReplyRun ==
  ASSUME TypeOK, NEW c \in Chats, Reply(c) \/ UNCHANGED <<pull, committed, run>>
  PROVE  /\ run' \in [Chats -> Run] /\ run'[c].taken = run[c].taken
         /\ run'[c].stage = run[c].stage /\ run'[c].exit = run[c].exit
         /\ \A d \in Chats : d # c => run'[d] = run[d]
         /\ Commit(c) \/ UNCHANGED <<pull, committed>>
<1>1. run \in [Chats -> Run] /\ run[c] \in Run
  BY DEF TypeOK
<1>2. CASE Reply(c)
  <2>1. run' = [run EXCEPT ![c] = [run[c] EXCEPT !.replied = TRUE,
                                                !.committed = TRUE]]
    BY <1>2 DEF Reply
  <2>2. [run[c] EXCEPT !.replied = TRUE, !.committed = TRUE] \in Run
    BY <1>1 DEF Run
  <2>3. LET r == [run[c] EXCEPT !.replied = TRUE, !.committed = TRUE]
        IN  /\ r.taken = run[c].taken /\ r.stage = run[c].stage
            /\ r.exit = run[c].exit
    BY <1>1 DEF Run
  <2>4. Commit(c)
    BY <1>2 DEF Reply
  <2> QED
    BY <1>1, <2>1, <2>2, <2>3, <2>4
<1> QED
  BY <1>1, <1>2

\* A run replies, or not, when what it has taken is dealt with.
LEMMA ReplyKeeps ==
  ASSUME IInv, NEW c \in Chats, Steady, TypeOK', RunsAnswered',
         Reply(c) \/ UNCHANGED <<pull, committed, run>>,
         run[c].taken \subseteq handled'
  PROVE  IInv'
<1>1. \A d \in Chats : run'[d].taken = run[d].taken
  BY ReplyRun DEF IInv
<1>2. CASE Reply(c)
  <2>1. PICK k : Moved(c, k) /\ JumpsOver(c, k, injected', handled')
    BY <1>2, CommitMoves DEF Reply
  <2> QED
    BY <1>1, <2>1, JumpKeeps
<1>3. CASE UNCHANGED <<pull, committed, run>>
  BY <1>1, <1>3, RestKeeps
<1> QED
  BY <1>2, <1>3

LEMMA ResultKeeps ==
  ASSUME IInv, NEW c \in Chats, Result(c)
  PROVE  IInv'
<1>1. PICK answered \in SUBSET agent[c].piped, visible \in BOOLEAN :
        /\ handled' = handled \cup answered \cup
             (IF agent[c].result THEN {} ELSE agent[c].prompt)
        /\ agent' = [agent EXCEPT ![c].result = TRUE]
        /\ Reply(c) \/ UNCHANGED <<pull, committed, run>>
  BY DEF Result
<1>2. agent \in [Chats -> Agent] /\ agent[c] \in Agent
  BY DEF IInv, TypeOK
<1>3. Steady
  BY <1>1 DEF IInv, Cursors, Sources, Result, Steady
<1>4. Answered(run[c], agent[c], handled) /\ agent[c].phase = "query"
  BY DEF IInv, RunsAnswered, Result
<1>5. run[c].taken \subseteq handled'
  BY <1>1, <1>4 DEF Answered
<1>6. /\ run' \in [Chats -> Run] /\ run'[c].taken = run[c].taken
      /\ run'[c].stage = run[c].stage /\ run'[c].exit = run[c].exit
      /\ \A d \in Chats : d # c => run'[d] = run[d]
      /\ Commit(c) \/ UNCHANGED <<pull, committed>>
  BY <1>1, ReplyRun DEF IInv
<1>7. /\ agent' \in [Chats -> Agent] /\ agent'[c].phase = "query"
      /\ agent'[c].prompt = agent[c].prompt /\ agent'[c].result
      /\ \A d \in Chats : d # c => agent'[d] = agent[d]
  <2>1. agent' = [agent EXCEPT ![c] = [agent[c] EXCEPT !.result = TRUE]]
    BY <1>1
  <2>2. [agent[c] EXCEPT !.result = TRUE] \in Agent
    BY <1>2 DEF Agent
  <2>3. LET a == [agent[c] EXCEPT !.result = TRUE]
        IN  a.phase = agent[c].phase /\ a.prompt = agent[c].prompt /\ a.result
    BY <1>2 DEF Agent
  <2> QED
    BY <1>2, <1>4, <2>1, <2>2, <2>3
<1>8. handled' \in SUBSET Msgs
  <2>1. agent[c].piped \subseteq Msgs /\ agent[c].prompt \subseteq Msgs
    BY <1>2 DEF Agent
  <2> QED
    BY <1>1, <2>1 DEF IInv, TypeOK
<1>9. RunsAnswered'
  <2>1. Answered(run'[c], agent'[c], handled')
    BY <1>4, <1>5, <1>6, <1>7 DEF Answered
  <2> QED
    BY <1>3, <1>6, <1>7, <2>1, AnsweredKept DEF IInv, Steady
<1>10. TypeOK'
  <2>1. pull' \in [Chats -> Cursor] /\ committed' \in [Chats -> Cursor]
    BY <1>6, CommitTyped DEF IInv
  <2> QED
    BY <1>6, <1>7, <1>8, <2>1 DEF IInv, TypeOK, Result
<1> QED
  BY <1>1, <1>3, <1>5, <1>9, <1>10, ReplyKeeps

LEMMA InterruptKeeps ==
  ASSUME IInv, NEW c \in Chats, Interrupt(c)
  PROVE  IInv'
<1>1. Steady
  BY DEF IInv, Cursors, Sources, Interrupt, Steady
<1>2. Reply(c) \/ UNCHANGED <<pull, committed, run>>
  BY DEF Interrupt, Interrupted
<1>3. /\ run' \in [Chats -> Run] /\ run'[c].taken = run[c].taken
      /\ run'[c].stage = run[c].stage /\ run'[c].exit = run[c].exit
      /\ \A d \in Chats : d # c => run'[d] = run[d]
      /\ Commit(c) \/ UNCHANGED <<pull, committed>>
  BY <1>2, ReplyRun DEF IInv
<1>4. Answered(run[c], agent[c], handled) /\ agent[c].phase = "query"
  BY DEF IInv, RunsAnswered, Interrupt
<1>5. run[c].taken \subseteq handled'
  BY <1>4 DEF Answered, Interrupt
<1>6. TypeOK'
  <2>1. agent' \in [Chats -> Agent] /\ handled' \in SUBSET Msgs
    BY DEF IInv, TypeOK, Interrupt, Agent, IdleAgent, NoAgent
  <2>2. /\ dir' \in [Chats -> SUBSET Msgs]
        /\ sig' \in [Chats -> SUBSET {"close", "drain", "interrupt"}]
    BY DEF IInv, TypeOK, Interrupt, Agent
  <2>3. pull' \in [Chats -> Cursor] /\ committed' \in [Chats -> Cursor]
    BY <1>3, CommitTyped DEF IInv
  <2> QED
    BY <1>3, <2>1, <2>2, <2>3 DEF IInv, TypeOK, Interrupt
<1>7. agent'[c] = IdleAgent /\ \A d \in Chats : d # c => agent'[d] = agent[d]
  BY DEF IInv, TypeOK, Interrupt
<1>8. Answered(run'[c], agent'[c], handled')
  <2>1. IdleAgent.phase = "idle"
    BY DEF IdleAgent, NoAgent
  <2>2. agent[c].phase # "off"
    BY <1>4
  <2> QED
    BY <1>3, <1>4, <1>5, <1>7, <2>1, <2>2 DEF Answered
<1>9. RunsAnswered'
  BY <1>1, <1>3, <1>7, <1>8, AnsweredKept DEF IInv, Steady
<1> QED
  BY <1>1, <1>2, <1>5, <1>6, <1>9, ReplyKeeps

LEMMA EndRunKeeps ==
  ASSUME IInv, NEW c \in Chats, EndRun(c)
  PROVE  IInv'
<1>1. PICK partial \in BOOLEAN :
        /\ IF Settles(run[c], partial)
             THEN Commit(c) ELSE UNCHANGED <<pull, committed>>
        /\ handled' = IF partial \/ run[c].exit = "reset"
                        THEN handled \cup run[c].taken ELSE handled
        /\ IF run[c].exit = "error" /\ ~Settles(run[c], partial)
             THEN /\ timer' = [timer EXCEPT ![c] = retries[c] < MaxRetries]
                  /\ retries' = [retries EXCEPT ![c] = NextRetry(retries[c])]
             ELSE /\ timer' = [timer EXCEPT ![c] = FALSE]
                  /\ retries' = [retries EXCEPT ![c] = 0]
  BY DEF EndRun
<1>2. /\ run \in [Chats -> Run] /\ run[c] \in Run
      /\ retries \in [Chats -> 0..MaxRetries] /\ retries[c] \in 0..MaxRetries
      /\ timer \in [Chats -> BOOLEAN]
  BY DEF IInv, TypeOK
<1>3. Steady
  BY <1>1 DEF IInv, Cursors, Sources, EndRun, Steady
<1>4. Answered(run[c], agent[c], handled) /\ run[c].stage = "exited"
  BY DEF IInv, RunsAnswered, EndRun
<1>5. /\ run' \in [Chats -> Run] /\ run'[c] = NoRun
      /\ \A d \in Chats : d # c => run'[d] = run[d]
  BY <1>2 DEF EndRun, NoRun, Run
<1>6. /\ timer' \in [Chats -> BOOLEAN] /\ retries' \in [Chats -> 0..MaxRetries]
  <2>1. NextRetry(retries[c]) \in 0..MaxRetries
    BY <1>2, FlowBoundsAssumption DEF NextRetry
  <2>2. 0 \in 0..MaxRetries /\ (retries[c] < MaxRetries) \in BOOLEAN
    BY <1>2, FlowBoundsAssumption
  <2> QED
    BY <1>1, <1>2, <2>1, <2>2
<1>7. handled' \in SUBSET Msgs
  <2>1. run[c].taken \subseteq Msgs
    BY <1>2 DEF Run
  <2> QED
    BY <1>1, <2>1 DEF IInv, TypeOK
<1>8. /\ pending' \in [Chats -> BOOLEAN]
      /\ sig' \in [Chats -> SUBSET {"close", "drain", "interrupt"}]
  <2>1. /\ pending \in [Chats -> BOOLEAN]
        /\ sig \in [Chats -> SUBSET {"close", "drain", "interrupt"}]
    BY DEF IInv, TypeOK
  <2>2. /\ pending' = [pending EXCEPT ![c] = pending[c] \/ dir[c] # {} \/ run[c].marked]
        /\ sig' = [sig EXCEPT ![c] = {}]
    BY DEF EndRun
  <2>3. (pending[c] \/ dir[c] # {} \/ run[c].marked) \in BOOLEAN
    OBVIOUS
  <2> QED
    BY <2>1, <2>2, <2>3
<1>9. TypeOK'
  <2>1. pull' \in [Chats -> Cursor] /\ committed' \in [Chats -> Cursor]
    BY <1>1, CommitTyped DEF IInv
  <2> QED
    BY <1>5, <1>6, <1>7, <1>8, <2>1 DEF IInv, TypeOK, EndRun
<1>10. RunsAnswered'
  <2>1. agent' = agent
    BY DEF EndRun
  <2>2. Answered(run'[c], agent'[c], handled')
    BY <1>4, <1>5, <2>1 DEF Answered, NoRun
  <2> QED
    BY <1>3, <1>5, <2>1, <2>2, AnsweredKept DEF IInv, Steady
<1>11. \A d \in Chats : run'[d].taken \in {{}, run[d].taken}
  BY <1>5 DEF NoRun
<1>12. CASE Settles(run[c], partial)
  <2>1. run[c].taken \subseteq handled'
    BY <1>1, <1>4, <1>12 DEF Settles, Answered
  <2>2. PICK k : Moved(c, k) /\ JumpsOver(c, k, injected', handled')
    BY <1>1, <1>3, <1>12, <2>1, CommitMoves
  <2> QED
    BY <1>3, <1>9, <1>10, <1>11, <2>2, JumpKeeps
<1>13. CASE ~Settles(run[c], partial)
  BY <1>1, <1>3, <1>9, <1>10, <1>11, <1>13, RestKeeps
<1> QED
  BY <1>12, <1>13

\* The reply to a command takes the cursor over whatever is before it.
LEMMA ReplyJumps ==
  ASSUME IInv, NEW c \in Chats, NEW k \in Commands, msg[k] = c, k \in handled'
  PROVE  JumpsOver(c, k, injected', handled')
<1>1. k \in Msgs /\ k \in Nat
  BY CommandsAssumption, CursorIsNat
<1>2. ASSUME NEW m \in Since(c, pull[c]), m <= k
      PROVE  Passable(msg, injected', handled', m)
  <2>1. m \in Msgs /\ m \in Nat /\ msg[m] = c
    BY CursorIsNat DEF Since
  <2>2. m = k \/ k > m
    BY <1>1, <1>2, <2>1
  <2> QED
    BY <2>1, <2>2 DEF Passable
<1> QED
  BY <1>1, <1>2 DEF JumpsOver

LEMMA PassMoves ==
  ASSUME IInv, NEW c \in Chats, NEW R, PassReplies(c, R),
         R \subseteq Commands, R \subseteq handled', \A r \in R : msg[r] = c
  PROVE  \E k : Moved(c, k) /\ JumpsOver(c, k, injected', handled')
<1>1. CursorInv
  BY DEF IInv, Cursors, TypeOK, CursorInv
<1>2. CASE UNCHANGED <<pull, committed>>
  BY <1>1, <1>2, CursorsStay DEF JumpsOver
<1>3. ASSUME NEW k \in R, AdvanceNextPullCursorOnly(c, k)
      PROVE  \E j : Moved(c, j) /\ JumpsOver(c, j, injected', handled')
  <2>1. k \in Commands /\ k \in Msgs /\ k \in handled' /\ msg[k] = c
    BY CommandsAssumption
  <2>2. Moved(c, k)
    BY <1>1, <1>3, <2>1, CursorsMove
  <2>3. JumpsOver(c, k, injected', handled')
    BY <2>1, ReplyJumps
  <2> QED
    BY <2>2, <2>3
<1> QED
  BY <1>2, <1>3 DEF PassReplies

\* All that is pending up to k may be passed.
LEMMA PendingJumps ==
  ASSUME IInv, NEW c \in Chats, NEW k \in Msgs, msg[k] = c,
         \A m \in Since(c, pull[c]) : m <= k => m \in injected' \cup handled'
  PROVE  JumpsOver(c, k, injected', handled')
BY DEF JumpsOver, Passable

LEMMA WebJumps ==
  ASSUME IInv, NEW m \in expanding
  PROVE  /\ m \in Msgs /\ msg[m] \in Chats
         /\ JumpsOver(msg[m], m, injected', handled')
<1>1. m \in Msgs /\ m \in web /\ msg[m] # NoChat
  BY DEF IInv, Cursors, Sources
<1>2. msg[m] \in Chats
  BY <1>1 DEF IInv, TypeOK
<1>3. ~NoWeb(msg, web, msg[m])
  BY <1>1 DEF NoWeb
<1> QED
  BY <1>1, <1>2, <1>3 DEF JumpsOver

LEMMA SeenTyped ==
  ASSUME TypeOK, NEW m \in Msgs, AdvanceGlobalCursor(m)
  PROVE  seen' \in Cursor
<1>1. seen \in Nat /\ m \in Nat /\ m \in Cursor /\ seen \in Cursor
  BY CursorIsNat DEF TypeOK
<1> QED
  BY <1>1 DEF AdvanceGlobalCursor, Later

LEMMA WebReplyKeeps ==
  ASSUME IInv, NEW m \in Msgs, WebReply(m)
  PROVE  IInv'
<1>1. /\ m \in expanding /\ expanding' = expanding \ {m}
      /\ handled' = handled \cup {m}
      /\ \/ AdvanceNextPullCursorOnly(msg[m], m) \/ AdvanceCursors(msg[m], m)
  BY DEF WebReply
<1>2. msg[m] \in Chats /\ JumpsOver(msg[m], m, injected', handled')
  BY <1>1, WebJumps
<1>3. Moved(msg[m], m)
  <2>1. CursorInv
    BY DEF IInv, Cursors, TypeOK, CursorInv
  <2> QED
    BY <1>1, <1>2, <2>1, CursorsMove
<1>4. Steady
  BY <1>1 DEF IInv, Cursors, Sources, WebReply, Steady
<1>5. TypeOK'
  <2>1. seen' \in Cursor
    BY SeenTyped DEF IInv, WebReply
  <2>2. expanding' \in SUBSET Msgs /\ handled' \in SUBSET Msgs
    BY <1>1 DEF IInv, TypeOK
  <2> QED
    BY <1>3, <2>1, <2>2 DEF IInv, TypeOK, WebReply, Moved
<1>6. RunsAnswered'
  BY <1>4, AnsweredGrows DEF IInv, WebReply, Steady
<1>7. run' = run
  BY DEF WebReply
<1> QED
  BY <1>2, <1>3, <1>4, <1>5, <1>6, <1>7, JumpKeeps

LEMMA SentTyped ==
  ASSUME run \in [Chats -> Run], NEW c \in Chats,
         \/ run' = [run EXCEPT ![c].replied = FALSE]
         \/ run' = [run EXCEPT ![c].replied = FALSE, ![c].marked = TRUE]
  PROVE  /\ run' \in [Chats -> Run] /\ \A d \in Chats : d # c => run'[d] = run[d]
         /\ run'[c].taken = run[c].taken /\ run'[c].stage = run[c].stage
         /\ run'[c].exit = run[c].exit /\ ~run'[c].replied
<1> DEFINE r1 == [run[c] EXCEPT !.replied = FALSE]
           r2 == [run[c] EXCEPT !.replied = FALSE, !.marked = TRUE]
<1>1. run[c] \in Run
  OBVIOUS
<1>2. /\ r1 \in Run /\ r1.taken = run[c].taken /\ r1.stage = run[c].stage
      /\ r1.exit = run[c].exit /\ ~r1.replied
  BY <1>1 DEF Run
<1>3. /\ r2 \in Run /\ r2.taken = run[c].taken /\ r2.stage = run[c].stage
      /\ r2.exit = run[c].exit /\ ~r2.replied
  BY <1>1 DEF Run
<1>4. run' = [run EXCEPT ![c] = r1] \/ run' = [run EXCEPT ![c] = r2]
  OBVIOUS
<1> HIDE DEF r1, r2
<1>5. CASE run' = [run EXCEPT ![c] = r1]
  BY <1>2, <1>5
<1>6. CASE run' = [run EXCEPT ![c] = r2]
  BY <1>3, <1>6
<1> QED
  BY <1>4, <1>5, <1>6

\* A message is sent to a live agent.
LEMMA SentAnswered ==
  ASSUME IInv, NEW c \in Chats, Live(c), handled \subseteq handled',
         UNCHANGED agent,
         \/ run' = [run EXCEPT ![c].replied = FALSE]
         \/ run' = [run EXCEPT ![c].replied = FALSE, ![c].marked = TRUE]
  PROVE  RunsAnswered'
<1>1. run \in [Chats -> Run]
  BY DEF IInv, TypeOK
<1>2. /\ \A d \in Chats : d # c => run'[d] = run[d]
      /\ run'[c].taken = run[c].taken /\ run'[c].stage = run[c].stage
      /\ run'[c].exit = run[c].exit /\ ~run'[c].replied
  BY <1>1, SentTyped
<1>3. Answered(run[c], agent[c], handled)
  BY DEF IInv, RunsAnswered
<1>4. Answered(run'[c], agent'[c], handled')
  BY <1>2, <1>3 DEF Answered
<1> QED
  BY <1>2, <1>4, AnsweredKept DEF IInv

LEMMA EnqueueTyped ==
  ASSUME TypeOK, NEW c \in Chats, EnqueueCheck(c)
  PROVE  /\ pending' \in [Chats -> BOOLEAN]
         /\ sig' \in [Chats -> SUBSET {"close", "drain", "interrupt"}]
<1>1. /\ pending \in [Chats -> BOOLEAN]
      /\ sig \in [Chats -> SUBSET {"close", "drain", "interrupt"}]
  BY DEF TypeOK
<1>2. pending' \in [Chats -> BOOLEAN]
  BY <1>1 DEF EnqueueCheck
<1>3. sig' \in [Chats -> SUBSET {"close", "drain", "interrupt"}]
  BY <1>1 DEF EnqueueCheck
<1> QED
  BY <1>2, <1>3

LEMMA InjectTyped ==
  ASSUME TypeOK, NEW c \in Chats, NEW S \in SUBSET Msgs, Inject(c, S)
  PROVE  /\ dir' \in [Chats -> SUBSET Msgs]
         /\ given' \in SUBSET Msgs /\ injected' \in SUBSET Msgs
BY DEF TypeOK, Inject

LEMMA WebSendKeeps ==
  ASSUME IInv, NEW m \in Msgs, WebSend(m)
  PROVE  IInv'
<1>1. m \in expanding /\ expanding' = expanding \ {m} /\ handled' = handled
  BY DEF WebSend
<1>2. msg[m] \in Chats /\ JumpsOver(msg[m], m, injected', handled')
  BY <1>1, WebJumps
<1>3. /\ seen' \in Cursor /\ expanding' \in SUBSET Msgs
      /\ run \in [Chats -> Run]
  BY <1>1, SeenTyped DEF IInv, TypeOK, WebSend
<1>4. CASE /\ Live(msg[m]) /\ Inject(msg[m], {m}) /\ SetCursors(msg[m], m)
           /\ run' = [run EXCEPT ![msg[m]].replied = FALSE,
                                 ![msg[m]].marked = TRUE]
           /\ UNCHANGED <<pending, sig>>
  <2>1. Moved(msg[m], m)
    <3>1. CursorInv
      BY DEF IInv, Cursors, TypeOK, CursorInv
    <3> QED
      BY <1>2, <1>4, <3>1, CursorsMove
  <2>2. Steady
    BY <1>1, <1>4 DEF IInv, Cursors, Sources, WebSend, Steady, Inject
  <2>3. /\ run' \in [Chats -> Run]
        /\ \A d \in Chats : run'[d].taken = run[d].taken
    BY <1>2, <1>3, <1>4, SentTyped
  <2>4. TypeOK'
    <3>1. /\ dir' \in [Chats -> SUBSET Msgs]
          /\ given' \in SUBSET Msgs /\ injected' \in SUBSET Msgs
      BY <1>2, <1>4, InjectTyped DEF IInv
    <3> QED
      BY <1>3, <1>4, <2>1, <2>3, <3>1 DEF IInv, TypeOK, WebSend, Moved
  <2>5. RunsAnswered'
    BY <1>1, <1>2, <1>4, SentAnswered DEF WebSend
  <2> QED
    BY <1>2, <2>1, <2>2, <2>3, <2>4, <2>5, JumpKeeps
<1>5. CASE /\ EnqueueCheck(msg[m])
           /\ UNCHANGED <<pull, committed, run, dir, given, injected>>
  <2>1. Steady
    BY <1>1, <1>5 DEF IInv, Cursors, Sources, WebSend, Steady
  <2>2. TypeOK'
    <3>1. /\ pending' \in [Chats -> BOOLEAN]
          /\ sig' \in [Chats -> SUBSET {"close", "drain", "interrupt"}]
      BY <1>2, <1>5, EnqueueTyped DEF IInv
    <3> QED
      BY <1>3, <1>5, <3>1 DEF IInv, TypeOK, WebSend
  <2>3. RunsAnswered'
    BY <1>1, <1>5, AnsweredGrows DEF IInv, WebSend
  <2> QED
    BY <1>5, <2>1, <2>2, <2>3, RestKeeps
<1> QED
  BY <1>4, <1>5 DEF WebSend

-----------------------------------------------------------------------------
(* The message loop visits a chat, and runs start.                         *)

LEMMA SinceTyped ==
  ASSUME NEW c, NEW k
  PROVE  Since(c, k) \subseteq Msgs /\ \A m \in Since(c, k) : msg[m] = c
BY DEF Since

LEMMA ToSendTyped ==
  ASSUME IInv, NEW c \in Chats
  PROVE  /\ ToSend(c) \subseteq Msgs /\ \A m \in ToSend(c) : msg[m] = c
         /\ Since(c, pull[c]) \subseteq ToSend(c)
BY SinceTyped DEF ToSend, IInv, TypeOK, Cursors, Sources

\* The common part of the four ways a visit ends.
VisitFrame(c) ==
  /\ batch' = [batch EXCEPT ![c] = {}]
  /\ UNCHANGED <<msg, seen, expanding, retries, timer, agent, web, crashes,
                 failures>>

LEMMA VisitTyped ==
  ASSUME IInv, NEW c \in Chats, VisitFrame(c)
  PROVE  /\ batch' \in [Chats -> SUBSET Msgs]
         /\ \A d \in Chats : batch'[d] \subseteq batch[d]
BY DEF IInv, TypeOK, VisitFrame

LEMMA VisitDeniedKeeps ==
  ASSUME IInv, NEW c \in Chats, VisitFrame(c), VisitDenied(c)
  PROVE  IInv'
<1>1. PICK k \in batch[c] :
        /\ SetCursors(c, k)
        /\ handled' = handled \cup batch[c]
                      \cup {m \in Since(c, pull[c]) : m <= k}
  BY DEF VisitDenied
<1>2. /\ k \in Msgs /\ msg[k] = c /\ batch[c] \subseteq Msgs
  BY DEF IInv, TypeOK, Cursors, Sources
<1>3. Moved(c, k)
  <2>1. CursorInv
    BY DEF IInv, Cursors, TypeOK, CursorInv
  <2> QED
    BY <1>1, <1>2, <2>1, CursorsMove
<1>4. JumpsOver(c, k, injected', handled')
  BY <1>1, <1>2, PendingJumps
<1>5. Steady
  BY <1>1, VisitTyped DEF IInv, Cursors, Sources, Steady, VisitDenied, VisitFrame
<1>6. TypeOK'
  <2>1. handled' \in SUBSET Msgs
    BY <1>1, <1>2, SinceTyped DEF IInv, TypeOK
  <2> QED
    BY <1>3, <2>1, VisitTyped DEF IInv, TypeOK, VisitDenied, VisitFrame, Moved
<1>7. RunsAnswered' /\ run' = run
  BY <1>5, AnsweredGrows DEF IInv, VisitDenied, VisitFrame, Steady
<1> QED
  BY <1>3, <1>4, <1>5, <1>6, <1>7, JumpKeeps

LEMMA VisitRepliesKeeps ==
  ASSUME IInv, NEW c \in Chats, VisitFrame(c), VisitReplies(c)
  PROVE  IInv'
<1>1. PICK k \in Msgs : IsLast(k, ToSend(c)) /\ SetCursors(c, k)
  BY DEF VisitReplies
<1>2. handled' = handled \cup ToSend(c)
  BY DEF VisitReplies
<1>3. msg[k] = c
  BY <1>1, ToSendTyped DEF IsLast
<1>4. Moved(c, k)
  <2>1. CursorInv
    BY DEF IInv, Cursors, TypeOK, CursorInv
  <2> QED
    BY <1>1, <2>1, CursorsMove
<1>5. JumpsOver(c, k, injected', handled')
  BY <1>2, <1>3, PendingJumps, ToSendTyped
<1>6. Steady
  BY <1>2, VisitTyped DEF IInv, Cursors, Sources, Steady, VisitReplies, VisitFrame
<1>7. TypeOK'
  <2>1. handled' \in SUBSET Msgs
    BY <1>2, ToSendTyped DEF IInv, TypeOK
  <2> QED
    BY <1>4, <2>1, VisitTyped DEF IInv, TypeOK, VisitReplies, VisitFrame, Moved
<1>8. RunsAnswered' /\ run' = run
  BY <1>6, AnsweredGrows DEF IInv, VisitReplies, VisitFrame, Steady
<1> QED
  BY <1>4, <1>5, <1>6, <1>7, <1>8, JumpKeeps

LEMMA VisitSendsKeeps ==
  ASSUME IInv, NEW c \in Chats, VisitFrame(c), VisitSends(c)
  PROVE  IInv'
<1>1. PICK k \in Msgs : IsLast(k, ToSend(c)) /\ AdvanceNextPullCursorOnly(c, k)
  BY DEF VisitSends
<1>2. /\ Live(c) /\ Inject(c, ToSend(c) \ Commands)
      /\ handled' = handled \cup (ToSend(c) \cap Commands)
      /\ run' = [run EXCEPT ![c].replied = FALSE]
  BY DEF VisitSends
<1>3. msg[k] = c
  BY <1>1, ToSendTyped DEF IsLast
<1>4. Moved(c, k)
  <2>1. CursorInv
    BY DEF IInv, Cursors, TypeOK, CursorInv
  <2> QED
    BY <1>1, <2>1, CursorsMove
<1>5. JumpsOver(c, k, injected', handled')
  <2>1. injected' = injected \cup (ToSend(c) \ Commands)
    BY <1>2 DEF Inject
  <2>2. ToSend(c) \subseteq injected' \cup handled'
    BY <1>2, <2>1
  <2> QED
    BY <1>3, <2>2, PendingJumps, ToSendTyped
<1>6. Steady
  BY <1>2, VisitTyped DEF IInv, Cursors, Sources, Steady, VisitFrame, Inject
<1>7. /\ run' \in [Chats -> Run] /\ \A d \in Chats : run'[d].taken = run[d].taken
  BY <1>2, SentTyped DEF IInv, TypeOK
<1>8. TypeOK'
  <2>1. handled' \in SUBSET Msgs
    BY <1>2, ToSendTyped DEF IInv, TypeOK
  <2>2. /\ dir' \in [Chats -> SUBSET Msgs]
        /\ given' \in SUBSET Msgs /\ injected' \in SUBSET Msgs
    BY <1>2, InjectTyped, ToSendTyped DEF IInv
  <2> QED
    BY <1>4, <1>7, <2>1, <2>2, VisitTyped
       DEF IInv, TypeOK, VisitSends, VisitFrame, Moved
<1>9. RunsAnswered'
  BY <1>2, <1>6, SentAnswered DEF VisitFrame, Steady
<1> QED
  BY <1>4, <1>5, <1>6, <1>7, <1>8, <1>9, JumpKeeps

LEMMA VisitEnqueuesKeeps ==
  ASSUME IInv, NEW c \in Chats, VisitFrame(c), VisitEnqueues(c)
  PROVE  IInv'
<1>1. /\ PassReplies(c, ToSend(c) \cap Commands)
      /\ handled' = handled \cup (ToSend(c) \cap Commands)
      /\ EnqueueCheck(c)
      /\ UNCHANGED <<run, dir, given, injected>>
  BY DEF VisitEnqueues
<1>2. PICK k : Moved(c, k) /\ JumpsOver(c, k, injected', handled')
  BY <1>1, PassMoves, ToSendTyped
<1>3. Steady
  BY <1>1, VisitTyped DEF IInv, Cursors, Sources, Steady, VisitFrame
<1>4. TypeOK'
  <2>1. handled' \in SUBSET Msgs
    BY <1>1, ToSendTyped DEF IInv, TypeOK
  <2>2. /\ pending' \in [Chats -> BOOLEAN]
        /\ sig' \in [Chats -> SUBSET {"close", "drain", "interrupt"}]
    BY <1>1, EnqueueTyped DEF IInv
  <2> QED
    BY <1>1, <1>2, <2>1, <2>2, VisitTyped DEF IInv, TypeOK, VisitFrame, Moved
<1>5. RunsAnswered'
  BY <1>1, <1>3, AnsweredGrows DEF IInv, VisitFrame, Steady
<1> QED
  BY <1>1, <1>2, <1>3, <1>4, <1>5, JumpKeeps

LEMMA VisitKeeps ==
  ASSUME IInv, NEW c \in Chats, Visit(c)
  PROVE  IInv'
BY VisitDeniedKeeps, VisitRepliesKeeps, VisitSendsKeeps, VisitEnqueuesKeeps
   DEF Visit, VisitFrame

\* The common part of the ways processGroupMessages goes on.
StartFrame(c) ==
  /\ pending' = [pending EXCEPT ![c] = FALSE]
  /\ IF run'[c].stage = "none"
       THEN /\ retries' = [retries EXCEPT ![c] = 0]
            /\ timer' = [timer EXCEPT ![c] = FALSE]
       ELSE UNCHANGED <<retries, timer>>
  /\ UNCHANGED <<msg, seen, batch, expanding, agent, dir, sig, web, given,
                 injected, crashes, failures>>

LEMMA StartTyped ==
  ASSUME IInv, NEW c \in Chats, StartFrame(c)
  PROVE  /\ pending' \in [Chats -> BOOLEAN] /\ timer' \in [Chats -> BOOLEAN]
         /\ retries' \in [Chats -> 0..MaxRetries]
<1>1. 0 \in 0..MaxRetries
  BY FlowBoundsAssumption
<1>2. /\ pending \in [Chats -> BOOLEAN] /\ timer \in [Chats -> BOOLEAN]
      /\ retries \in [Chats -> 0..MaxRetries]
  BY DEF IInv, TypeOK
<1>3. pending' \in [Chats -> BOOLEAN]
  BY <1>2 DEF StartFrame
<1>4. timer' \in [Chats -> BOOLEAN] /\ retries' \in [Chats -> 0..MaxRetries]
  BY <1>1, <1>2 DEF StartFrame
<1> QED
  BY <1>3, <1>4

LEMMA NothingToDoKeeps ==
  ASSUME IInv, NEW c \in Chats, StartFrame(c), NothingToDo(c)
  PROVE  IInv'
<1>1. Steady
  BY DEF IInv, Cursors, Sources, Steady, StartFrame, NothingToDo
<1>2. TypeOK'
  BY StartTyped DEF IInv, TypeOK, StartFrame, NothingToDo
<1>3. RunsAnswered'
  BY AnsweredGrows DEF IInv, StartFrame, NothingToDo
<1> QED
  BY <1>1, <1>2, <1>3, RestKeeps DEF NothingToDo

\* All that is pending is answered at once, without an agent.
LEMMA AllHandledKeeps ==
  ASSUME IInv, NEW c \in Chats, StartFrame(c), UNCHANGED run,
         NEW S, S \subseteq Msgs, \A m \in S : msg[m] = c,
         Since(c, pull[c]) \subseteq S, handled' = handled \cup S,
         NEW k \in S, SetCursors(c, k) \/ AdvanceCursors(c, k)
  PROVE  IInv'
<1>1. Moved(c, k)
  <2>1. CursorInv
    BY DEF IInv, Cursors, TypeOK, CursorInv
  <2>2. k \in Msgs
    OBVIOUS
  <2> QED
    BY <2>1, <2>2, CursorsMove
<1>2. JumpsOver(c, k, injected', handled')
  BY PendingJumps
<1>3. Steady
  BY DEF IInv, Cursors, Sources, Steady, StartFrame
<1>4. TypeOK'
  <2>1. handled' \in SUBSET Msgs
    BY DEF IInv, TypeOK
  <2> QED
    BY <1>1, <2>1, StartTyped DEF IInv, TypeOK, StartFrame, Moved
<1>5. RunsAnswered'
  BY AnsweredGrows DEF IInv, StartFrame
<1> QED
  BY <1>1, <1>2, <1>3, <1>4, <1>5, JumpKeeps

LEMMA ColdStartKeeps ==
  ASSUME IInv, NEW c \in Chats, StartFrame(c), ColdStart(c)
  PROVE  IInv'
<1>1. PICK k \in Msgs : IsLast(k, Since(c, 0)) /\ SetCursors(c, k)
  BY DEF ColdStart
<1>2. k \in Since(c, 0) /\ pull[c] = 0
  BY <1>1 DEF IsLast, ColdStart
<1> QED
  BY <1>1, <1>2, SinceTyped, AllHandledKeeps DEF ColdStart

LEMMA StartRepliesKeeps ==
  ASSUME IInv, NEW c \in Chats, StartFrame(c), StartReplies(c)
  PROVE  IInv'
<1>1. PICK k \in Msgs : IsLast(k, Since(c, pull[c])) /\ SetCursors(c, k)
  BY DEF StartReplies
<1>2. k \in Since(c, pull[c])
  BY <1>1 DEF IsLast
<1> QED
  BY <1>1, <1>2, SinceTyped, AllHandledKeeps DEF StartReplies

LEMMA StartDeniedKeeps ==
  ASSUME IInv, NEW c \in Chats, StartFrame(c), StartDenied(c)
  PROVE  IInv'
<1>1. PICK k \in Msgs : IsLast(k, Since(c, pull[c])) /\ AdvanceCursors(c, k)
  BY DEF StartDenied
<1>2. k \in Since(c, pull[c])
  BY <1>1 DEF IsLast
<1> QED
  BY <1>1, <1>2, SinceTyped, AllHandledKeeps DEF StartDenied

LEMMA BootKeeps ==
  ASSUME IInv, NEW c \in Chats, StartFrame(c), run[c].stage = "none", Boot(c)
  PROVE  IInv'
<1> DEFINE missed == Since(c, pull[c])
           r == [NoRun EXCEPT !.stage = "booting", !.taken = missed \ Commands]
<1>1. /\ PassReplies(c, missed \cap Commands)
      /\ handled' = handled \cup (missed \cap Commands)
      /\ run' = [run EXCEPT ![c] = r]
  BY DEF Boot
<1>2. missed \subseteq Msgs /\ \A m \in missed : msg[m] = c
  BY SinceTyped
<1>3. /\ r \in Run /\ r.taken = missed \ Commands /\ r.stage = "booting"
      /\ ~r.replied /\ r.exit = "none"
  BY <1>2 DEF NoRun, Run
<1>4. /\ run' \in [Chats -> Run] /\ run'[c] = r
      /\ \A d \in Chats : d # c => run'[d] = run[d]
  BY <1>1, <1>3 DEF IInv, TypeOK
<1>5. PICK k : Moved(c, k) /\ JumpsOver(c, k, injected', handled')
  BY <1>1, <1>2, PassMoves
<1>6. Steady
  BY <1>1 DEF IInv, Cursors, Sources, Steady, StartFrame
<1>7. TypeOK'
  <2>1. handled' \in SUBSET Msgs
    BY <1>1, <1>2 DEF IInv, TypeOK
  <2> QED
    BY <1>4, <1>5, <2>1, StartTyped DEF IInv, TypeOK, StartFrame, Moved
<1>8. RunsAnswered'
  <2>1. agent' = agent /\ Answered(run[c], agent[c], handled)
    BY DEF IInv, RunsAnswered, StartFrame
  <2>2. Answered(run'[c], agent'[c], handled')
    BY <1>3, <1>4, <2>1 DEF Answered
  <2> QED
    BY <1>4, <1>6, <2>1, <2>2, AnsweredKept DEF IInv, Steady
<1>9. Cursors'
  BY <1>5, <1>6, CursorsKept DEF IInv
<1>10. ASSUME NoWeb(msg, web, c), NEW n \in r.taken, NEW m \in Msgs,
              msg[m] = c, m <= n
       PROVE  m \in r.taken \/ Passable(msg, injected', handled', m)
  <2>1. m \in Nat /\ pull[c] \in Nat
    BY CursorIsNat DEF IInv, TypeOK
  <2>2. CASE m <= pull[c]
    <3>1. Passable(msg, injected, handled, m)
      BY <1>10, <2>2 DEF IInv, Cursors, Pulls, Clear
    <3> QED
      BY <1>6, <3>1 DEF Steady, Passable
  <2>3. CASE m > pull[c]
    <3>1. m \in missed
      BY <1>10, <2>3 DEF Since
    <3> QED
      BY <1>1, <1>3, <3>1 DEF Passable
  <2> QED
    BY <2>1, <2>2, <2>3
<1> HIDE DEF missed, r
<1>11. Takes(msg', web', injected', handled', run')
  <2> SUFFICES ASSUME NEW d \in Chats
               PROVE  /\ run'[d].taken \subseteq Msgs
                      /\ \A m \in run'[d].taken : msg'[m] = d
                      /\ NoWeb(msg', web', d) =>
                           TakenIsClear(msg', injected', handled', run'[d].taken, d)
    BY DEF Takes
  <2>1. msg' = msg /\ web' = web
    BY <1>6 DEF Steady
  <2>2. CASE d = c
    BY <1>2, <1>3, <1>4, <1>10, <2>1, <2>2 DEF TakenIsClear
  <2>3. CASE d # c
    <3>1. /\ run[d].taken \subseteq Msgs /\ \A m \in run[d].taken : msg[m] = d
          /\ NoWeb(msg, web, d) =>
               TakenIsClear(msg, injected, handled, run[d].taken, d)
      BY DEF IInv, Takes
    <3>2. TakenIsClear(msg, injected, handled, run[d].taken, d)
            => TakenIsClear(msg, injected', handled', run[d].taken, d)
      BY <1>6 DEF TakenIsClear, Passable, Steady
    <3> QED
      BY <1>4, <2>1, <2>3, <3>1, <3>2
  <2> QED
    BY <2>2, <2>3
<1> QED
  BY <1>7, <1>8, <1>9, <1>11 DEF IInv

LEMMA StartRunKeeps ==
  ASSUME IInv, NEW c \in Chats, StartRun(c)
  PROVE  IInv'
<1>1. StartFrame(c) /\ run[c].stage = "none"
  BY DEF StartRun, StartFrame
<1>2. \/ NothingToDo(c) \/ ColdStart(c) \/ StartReplies(c) \/ StartDenied(c)
      \/ Boot(c)
  BY DEF StartRun
<1> QED
  BY <1>1, <1>2, NothingToDoKeeps, ColdStartKeeps, StartRepliesKeeps,
     StartDeniedKeeps, BootKeeps

-----------------------------------------------------------------------------
(* Messages arrive, the loop polls, and the host restarts.                 *)

LEMMA StoreGrows ==
  ASSUME IInv, NEW c \in Chats, NEW m \in Msgs, Store(c, m),
         web \subseteq web', given \subseteq given',
         injected \subseteq injected', handled \subseteq handled'
  PROVE  /\ Grows /\ msg' \in [Msgs -> Chats \cup {NoChat}] /\ msg'[m] = c
         /\ \A n \in Msgs : msg[n] # NoChat => msg'[n] = msg[n]
<1>1. msg \in [Msgs -> Chats \cup {NoChat}] /\ msg' = [msg EXCEPT ![m] = c]
  BY DEF IInv, TypeOK, Store
<1>2. \A n \in Msgs : n >= m => msg[n] = NoChat
  BY DEF Store
<1>3. m \in Nat /\ m >= m
  BY CursorIsNat
<1>4. msg[m] = NoChat
  BY <1>2, <1>3
<1>5. \A n \in Msgs : n # m => msg'[n] = msg[n]
  BY <1>1
<1> QED
  BY <1>1, <1>2, <1>4, <1>5 DEF Grows

LEMMA ArriveKeeps ==
  ASSUME IInv, NEW c \in Chats, NEW m \in Msgs, Arrive(c, m)
  PROVE  IInv'
<1>1. Store(c, m) /\ UNCHANGED <<host, agent, dir, sig, history, crashes, failures>>
  BY DEF Arrive
<1>2. /\ Grows /\ msg' \in [Msgs -> Chats \cup {NoChat}]
      /\ \A n \in Msgs : msg[n] # NoChat => msg'[n] = msg[n]
  BY <1>1, StoreGrows DEF history
<1>3. TypeOK'
  BY <1>1, <1>2 DEF IInv, TypeOK, host, history
<1>4. Sources'
  BY <1>1, <1>2, ChatsAssumption DEF IInv, TypeOK, Cursors, Sources, host, history
<1>5. web \subseteq {n \in Msgs : msg[n] # NoChat}
  BY DEF IInv, Cursors, Sources
<1>6. Pulls(msg', web', injected', handled', pull')
  BY <1>1, <1>2, <1>5, PullsStay DEF IInv, Cursors, host
<1>7. Takes(msg', web', injected', handled', run')
  <2>1. \A d \in Chats : run'[d].taken \in {{}, run[d].taken}
    BY <1>1 DEF host
  <2> QED
    BY <1>2, <1>5, <2>1, TakesKept DEF IInv
<1>8. CommittedBehindPull' /\ RunsAnswered'
  BY <1>1 DEF IInv, Cursors, CommittedBehindPull, RunsAnswered, host, history
<1> QED
  BY <1>3, <1>4, <1>6, <1>7, <1>8 DEF IInv, Cursors

LEMMA WebArriveKeeps ==
  ASSUME IInv, NEW c \in Chats, NEW m \in Msgs, WebArrive(c, m)
  PROVE  IInv'
<1>1. /\ Store(c, m) /\ web' = web \cup {m}
      /\ UNCHANGED <<batch, retries, timer, run, agent, dir, given, injected,
                     crashes, failures>>
  BY DEF WebArrive
<1>2. /\ handled' \in {handled, handled \cup {m}}
      /\ expanding' \in {expanding, expanding \cup {m}}
  BY DEF WebArrive
<1>3. /\ Grows /\ msg' \in [Msgs -> Chats \cup {NoChat}] /\ msg'[m] = c
      /\ \A n \in Msgs : msg[n] # NoChat => msg'[n] = msg[n]
  BY <1>1, <1>2, StoreGrows
<1>4. CursorInv
  BY DEF IInv, Cursors, TypeOK, CursorInv
<1>5. \E k \in {pull[c], m} : Moved(c, k)
  <2>1. CASE SetCursors(c, m)
    BY <1>4, <2>1, CursorsMove
  <2>2. CASE UNCHANGED <<pull, committed>>
    BY <1>4, <2>2, CursorsStay
  <2> QED
    BY <2>1, <2>2 DEF WebArrive
<1>6. TypeOK'
  <2>1. seen' \in Cursor
    BY SeenTyped DEF IInv, TypeOK, WebArrive
  <2>2. /\ pending' \in [Chats -> BOOLEAN]
        /\ sig' \in [Chats -> SUBSET {"close", "drain", "interrupt"}]
    BY EnqueueTyped DEF IInv, TypeOK, WebArrive
  <2>3. web' \in SUBSET Msgs /\ handled' \in SUBSET Msgs /\ expanding' \in SUBSET Msgs
    BY <1>1, <1>2 DEF IInv, TypeOK
  <2> QED
    BY <1>1, <1>3, <1>5, <2>1, <2>2, <2>3 DEF IInv, TypeOK, Moved
<1>7. Sources'
  <2>1. \A d \in Chats : \A n \in batch'[d] : msg'[n] = d
    <3>1. \A d \in Chats : \A n \in batch[d] : n \in Msgs /\ msg[n] = d
      BY DEF IInv, TypeOK, Cursors, Sources
    <3> QED
      BY <1>1, <1>3, <3>1, ChatsAssumption
  <2>2. expanding' \subseteq web'
    BY <1>1, <1>2 DEF IInv, Cursors, Sources
  <2>3. web' \subseteq {n \in Msgs : msg'[n] # NoChat}
    <3>1. \A n \in web : n \in Msgs /\ msg[n] # NoChat
      BY DEF IInv, Cursors, Sources
    <3> QED
      BY <1>1, <1>3, <3>1, ChatsAssumption
  <2> QED
    BY <1>1, <2>1, <2>2, <2>3 DEF IInv, Cursors, Sources
<1>8. web \subseteq {n \in Msgs : msg[n] # NoChat}
  BY DEF IInv, Cursors, Sources
<1>9. Pulls(msg', web', injected', handled', pull')
  <2>1. PICK k \in {pull[c], m} : Moved(c, k)
    BY <1>5
  <2>2. ~NoWeb(msg', web', c) /\ msg'[m] # NoChat
    BY <1>1, <1>3, ChatsAssumption DEF NoWeb
  <2>3. /\ k = pull[c] \/ (k \in Msgs /\ msg'[k] # NoChat)
        /\ k = pull[c] \/ (NoWeb(msg', web', c) => Clear(msg', injected', handled', c, k))
    BY <2>2
  <2> QED
    BY <1>3, <1>8, <2>1, <2>3, PullsMoved DEF IInv, Cursors
<1>10. Takes(msg', web', injected', handled', run')
  BY <1>1, <1>3, <1>8, TakesKept DEF IInv
<1>11. CommittedBehindPull'
  BY <1>5 DEF Moved, CommittedBehindPull
<1>12. RunsAnswered'
  BY <1>1, <1>2, AnsweredGrows DEF IInv
<1> QED
  BY <1>6, <1>7, <1>9, <1>10, <1>11, <1>12 DEF IInv, Cursors

LEMMA PollKeeps ==
  ASSUME IInv, Poll
  PROVE  IInv'
<1>1. /\ seen' \in Msgs /\ batch' = [c \in Chats |-> Since(c, seen)]
      /\ UNCHANGED <<msg, pull, committed, expanding, pending, retries, timer,
                     run, agent, dir, sig, history, crashes, failures>>
  BY DEF Poll
<1>2. batch' \in [Chats -> SUBSET Msgs]
  BY <1>1, SinceTyped
<1>3. TypeOK'
  BY <1>1, <1>2, CursorIsNat DEF IInv, TypeOK, history
<1>4. Sources'
  BY <1>1, SinceTyped DEF IInv, Cursors, Sources, history
<1>5. /\ CommittedBehindPull' /\ Pulls(msg', web', injected', handled', pull')
      /\ Takes(msg', web', injected', handled', run')
  BY <1>1 DEF IInv, Cursors, CommittedBehindPull, history
<1>6. RunsAnswered'
  BY <1>1, AnsweredGrows DEF IInv, history
<1> QED
  BY <1>3, <1>4, <1>5, <1>6 DEF IInv, Cursors

LEMMA CrashKeeps ==
  ASSUME IInv, Crash
  PROVE  IInv'
<1>1. /\ batch' = [c \in Chats |-> {}] /\ expanding' = {}
      /\ retries' = [c \in Chats |-> 0] /\ timer' = [c \in Chats |-> FALSE]
      /\ run' = [c \in Chats |-> NoRun] /\ agent' = [c \in Chats |-> NoAgent]
      /\ committed' = [c \in Chats |-> LoadedCommitted(c)]
      /\ pending' = [c \in Chats |-> Recovers(c)]
      /\ UNCHANGED <<msg, seen, pull, dir, sig, history, failures>>
  BY DEF Crash
<1>2. \A c \in Chats : LoadedCommitted(c) \in Cursor /\ LoadedCommitted(c) <= pull[c]
  <2> TAKE c \in Chats
  <2>1. pull[c] \in Cursor /\ committed[c] \in Cursor /\ pull[c] \in Nat
    BY CursorIsNat DEF IInv, TypeOK
  <2>2. committed[c] <= pull[c] /\ pull[c] <= pull[c]
    BY <2>1 DEF IInv, Cursors, CommittedBehindPull
  <2> QED
    BY <2>1, <2>2 DEF LoadedCommitted
<1>3. TypeOK'
  <2>1. /\ NoRun \in Run /\ NoAgent \in Agent /\ 0 \in 0..MaxRetries
        /\ crashes' \in 0..MaxCrashes
    <3>1. NoRun \in Run
      BY DEF NoRun, Run
    <3>2. NoAgent \in Agent
      BY DEF NoAgent, Agent
    <3>3. 0 \in 0..MaxRetries /\ crashes' \in 0..MaxCrashes
      BY FlowBoundsAssumption DEF IInv, TypeOK, Crash
    <3> QED
      BY <3>1, <3>2, <3>3
  <2>2. \A c \in Chats : Recovers(c) \in BOOLEAN
    BY DEF Recovers
  <2>3. /\ committed' \in [Chats -> Cursor] /\ pending' \in [Chats -> BOOLEAN]
        /\ run' \in [Chats -> Run] /\ agent' \in [Chats -> Agent]
        /\ retries' \in [Chats -> 0..MaxRetries] /\ timer' \in [Chats -> BOOLEAN]
        /\ batch' \in [Chats -> SUBSET Msgs] /\ expanding' \in SUBSET Msgs
    BY <1>1, <1>2, <2>1, <2>2
  <2> QED
    BY <1>1, <2>1, <2>3 DEF IInv, TypeOK, history
<1>4. Sources'
  BY <1>1 DEF IInv, Cursors, Sources, history
<1>5. CommittedBehindPull'
  BY <1>1, <1>2 DEF CommittedBehindPull
<1>6. Pulls(msg', web', injected', handled', pull')
  BY <1>1 DEF IInv, Cursors, history
<1>7. Takes(msg', web', injected', handled', run')
  BY <1>1 DEF Takes, TakenIsClear, NoRun
<1>8. RunsAnswered'
  BY <1>1 DEF RunsAnswered, Answered, NoRun, NoAgent
<1> QED
  BY <1>3, <1>4, <1>5, <1>6, <1>7, <1>8 DEF IInv, Cursors

-----------------------------------------------------------------------------
(* The theorems.                                                           *)

LEMMA InitIInv == Init => IInv
<1> SUFFICES ASSUME Init PROVE IInv
  OBVIOUS
<1>1. TypeOK
  <2>1. NoRun \in Run
    BY DEF NoRun, Run
  <2>2. NoAgent \in Agent
    BY DEF NoAgent, Agent
  <2>3. /\ 0 \in 0..MaxRetries /\ 0 \in 0..MaxCrashes /\ 0 \in 0..MaxFailures
        /\ StartCursors \subseteq Cursor /\ 1 \in Cursor
    BY FlowBoundsAssumption, ChatsAssumption DEF Cursor
  <2>4. pull \in [Chats -> Cursor] /\ committed \in [Chats -> Cursor]
    BY <2>3 DEF Init
  <2> QED
    BY <2>1, <2>2, <2>3, <2>4 DEF Init, TypeOK
<1>2. \A c \in Chats : pull[c] \in {0, 1} /\ pull[c] <= pull[c]
  <2> TAKE c \in Chats
  <2>1. pull \in [Chats -> StartCursors] /\ StartCursors \subseteq {0, 1}
    BY ChatsAssumption DEF Init
  <2>2. pull[c] \in {0, 1}
    BY <2>1
  <2>3. pull[c] <= pull[c]
    BY <2>2
  <2> QED
    BY <2>2, <2>3
<1>3. Sources /\ CommittedBehindPull
  BY <1>2 DEF Init, Sources, CommittedBehindPull
<1>4. Pulls(msg, web, injected, handled, pull)
  <2>1. \A m \in Msgs : m \in Nat \ {0, 1}
    BY MsgsAssumption
  <2> QED
    BY <1>2, <2>1 DEF Pulls, Stored, Clear
<1>5. Takes(msg, web, injected, handled, run)
  BY DEF Init, Takes, TakenIsClear, NoRun
<1>6. RunsAnswered
  BY DEF Init, RunsAnswered, Answered, NoRun, NoAgent
<1> QED
  BY <1>1, <1>3, <1>4, <1>5, <1>6 DEF IInv, Cursors

LEMMA StutterKeeps ==
  ASSUME IInv, UNCHANGED vars
  PROVE  IInv'
<1>1. UNCHANGED <<msg, seen, batch, pull, committed, expanding, pending,
                  retries, timer, run, agent, dir, sig, web, given, injected,
                  handled, crashes, failures>>
  BY DEF vars, host, history
<1>2. TypeOK'
  BY <1>1 DEF IInv, TypeOK
<1>3. Cursors'
  BY <1>1 DEF IInv, Cursors, Sources, CommittedBehindPull
<1>4. RunsAnswered'
  BY <1>1 DEF IInv, RunsAnswered
<1> QED
  BY <1>1, <1>2, <1>3, <1>4 DEF IInv

LEMMA StepIInv == IInv /\ [Next]_vars => IInv'
<1> SUFFICES ASSUME IInv, [Next]_vars PROVE IInv'
  OBVIOUS
<1>1. CASE Poll
  BY <1>1, PollKeeps
<1>2. CASE Crash
  BY <1>2, CrashKeeps
<1>3. ASSUME NEW c \in Chats, Visit(c) PROVE IInv'
  BY <1>3, VisitKeeps
<1>4. ASSUME NEW c \in Chats, AgentStep(c) PROVE IInv'
  BY <1>4, AgentStartKeeps, PipeKeeps, ResultKeeps, InterruptKeeps,
     CloseStreamKeeps, WakeKeeps, LeaveKeeps DEF AgentStep
<1>5. ASSUME NEW c \in Chats, RunStep(c) PROVE IInv'
  BY <1>5, StartRunKeeps, RegisterKeeps, EndRunKeeps, RetryFiresKeeps DEF RunStep
<1>6. ASSUME NEW c \in Chats, Trouble(c) PROVE IInv'
  BY <1>6, BootFailsKeeps, FailKeeps, SignalKeeps DEF Trouble
<1>7. ASSUME NEW c \in Chats, NEW m \in Msgs, Arrive(c, m) PROVE IInv'
  BY <1>7, ArriveKeeps
<1>8. ASSUME NEW m \in Msgs, WebReply(m) PROVE IInv'
  BY <1>8, WebReplyKeeps
<1>9. ASSUME NEW m \in Msgs, WebSend(m) PROVE IInv'
  BY <1>9, WebSendKeeps
<1>10. ASSUME NEW c \in Chats, NEW m \in Msgs, WebArrive(c, m) PROVE IInv'
  BY <1>10, WebArriveKeeps
<1>11. CASE UNCHANGED vars
  BY <1>11, StutterKeeps
<1> QED
  BY <1>1, <1>2, <1>3, <1>4, <1>5, <1>6, <1>7, <1>8, <1>9, <1>10, <1>11
     DEF Next, ImNext

THEOREM Invariance == Spec => []IInv
<1>1. Init => IInv
  BY InitIInv
<1>2. IInv /\ [Next]_vars => IInv'
  BY StepIInv
<1> QED
  BY <1>1, <1>2, PTL DEF Spec

\* Every variable keeps its type, whatever messages arrive, runs end or crashes
\* happen.
THEOREM TypeCorrect == Spec => []TypeOK
<1>1. IInv => TypeOK
  BY DEF IInv
<1> QED
  BY <1>1, Invariance, PTL

\* setCursors, advanceCursors, advanceNextPullCursorOnly, commitCursor and
\* loadState never leave the recovery cursor ahead of the pull cursor.
THEOREM RecoveryBehindPull == Spec => []CommittedBehindPull
<1>1. IInv => CommittedBehindPull
  BY DEF IInv, Cursors
<1> QED
  BY <1>1, Invariance, PTL

\* In a chat of an IM channel the pull cursor passes only messages that an agent
\* was given, that were answered or refused, or that the reply to a later
\* command has overtaken.
THEOREM PullSkipsNothing == Spec => []NeverSkipped
<1>1. IInv => NeverSkipped
  <2> SUFFICES ASSUME IInv, NEW c \in Chats, NEW m \in Msgs, ImOnly(c),
                      msg[m] = c, m <= pull[c]
               PROVE  m \in TakenUp \/ Overtaken(m)
    BY DEF NeverSkipped
  <2>1. NoWeb(msg, web, c)
    BY DEF ImOnly, NoWeb
  <2>2. Passable(msg, injected, handled, m)
    BY <2>1 DEF IInv, Cursors, Pulls, Clear
  <2>3. injected \subseteq given
    BY DEF IInv, Cursors, Sources
  <2> QED
    BY <2>2, <2>3 DEF Passable, TakenUp, Overtaken
<1> QED
  BY <1>1, Invariance, PTL

\* And the recovery cursor passes only messages that were dealt with or injected.
THEOREM CommitSkipsNothing == Spec => []CommittedIsHandled
<1>1. IInv => CommittedIsHandled
  <2> SUFFICES ASSUME IInv, NEW c \in Chats, NEW m \in Msgs, ImOnly(c),
                      msg[m] = c, m <= committed[c]
               PROVE  m \in handled \cup injected \/ Overtaken(m)
    BY DEF CommittedIsHandled
  <2>1. NoWeb(msg, web, c)
    BY DEF ImOnly, NoWeb
  <2>2. m <= pull[c]
    <3>1. m \in Nat /\ committed[c] \in Nat /\ pull[c] \in Nat
      BY CursorIsNat DEF IInv, TypeOK
    <3>2. committed[c] <= pull[c]
      BY DEF IInv, Cursors, CommittedBehindPull
    <3> QED
      BY <3>1, <3>2
  <2>3. Passable(msg, injected, handled, m)
    BY <2>1, <2>2 DEF IInv, Cursors, Pulls, Clear
  <2> QED
    BY <2>3 DEF Passable, Overtaken
<1> QED
  BY <1>1, Invariance, PTL
=============================================================================
