---------------------------- MODULE MessageFlow ----------------------------
(***************************************************************************)
(* The way of a user message from the database to an agent: the message    *)
(* loop and its cursors, processGroupMessages and startup recovery         *)
(* (src/src/index.ts), web messages (src/src/web.ts), sendMessage and the  *)
(* end of a run in the queue (src/src/group-queue.ts), and the input       *)
(* directory and main loop of the agent process                            *)
(* (src/container/agent-runner/src/index.ts).                              *)
(*                                                                         *)
(* The host is one JavaScript thread and an action is a stretch of its     *)
(* code between two awaits; each agent process takes steps of its own.     *)
(* The host and an agent share the files of the input directory.           *)
(*                                                                         *)
(* A message is its place in the order (timestamp, id) of the database;    *)
(* place 1 stands for the messages older than the behaviour, and cursor 0  *)
(* for a chat without a cursor.  Messages arrive in that order.            *)
(*                                                                         *)
(* Abstracted: when the queue has room for a run (GroupQueue), the content *)
(* of messages and replies, sibling chats of one folder, user stops, the   *)
(* Redis transport, and side queries and repeated queries of the agent.  A *)
(* write to disk does not fail, and an agent dies with its host.           *)
(***************************************************************************)
EXTENDS Integers, FiniteSets

CONSTANTS
  Chats, NoChat,
  Msgs,              \* places of messages, all above 1
  Commands,          \* messages the plugin expander answers itself
  StartCursors,      \* 1: chats may have cursors at the start, 0: have none
  MaxRetries,        \* MAX_RETRIES
  GateCloses,        \* can the owner or billing gate be closed, open
  EarlyClose,        \* can an agent be closed in a query, when idle: TRUE, FALSE
  MaxCrashes,        \* bound: crashes of the host
  MaxFailures        \* bound: agents that fail

ASSUME MsgsAssumption == Msgs \subseteq Nat \ {0, 1} /\ IsFiniteSet(Msgs)
ASSUME CommandsAssumption == Commands \subseteq Msgs
ASSUME ChatsAssumption == NoChat \notin Chats /\ StartCursors \subseteq {0, 1}
ASSUME FlowOutcomesAssumption ==
  GateCloses \subseteq BOOLEAN /\ EarlyClose \subseteq BOOLEAN
ASSUME FlowBoundsAssumption ==
  MaxRetries \in Nat /\ MaxCrashes \in Nat /\ MaxFailures \in Nat

Cursor == Msgs \cup {0, 1}

VARIABLES
  msg,               \* the chat of a message, once it is stored
  seen,              \* globalMessageCursor
  batch,             \* messages the loop has seen and not dealt with yet
  pull,              \* lastAgentTimestamp
  committed,         \* lastCommittedCursor
  expanding,         \* web messages that wait for the plugin expander
  pending,           \* pendingMessages of a chat's queue
  retries, timer,    \* retryCount, retryTimer
  run,               \* the call of processGroupMessages of a chat
  agent,             \* its agent process
  dir,               \* messages in the files of the input directory
  sig,               \* sentinel files in it
  web, given, injected, handled,  \* history: see below
  crashes, failures

host == <<seen, batch, pull, committed, expanding, pending, retries, timer,
          run>>
history == <<web, given, injected, handled>>
vars == <<msg, host, agent, dir, sig, history, crashes, failures>>

\* web: came over the web; given: put into a prompt or an input file;
\* injected: put into an input file; handled: answered, refused with a notice,
\* or part of a prompt the user interrupted.

Run == [stage : {"none", "booting", "live", "exited"}, taken : SUBSET Msgs,
        replied : BOOLEAN,      \* sentReply
        committed : BOOLEAN,    \* cursorCommitted
        marked : BOOLEAN,       \* hasIpcInjectedMessages
        exit : {"none", "done", "closed", "error", "reset"}]

NoRun == [stage |-> "none", taken |-> {}, replied |-> FALSE,
          committed |-> FALSE, marked |-> FALSE, exit |-> "none"]

Agent == [phase : {"off", "starting", "query", "idle"}, prompt : SUBSET Msgs,
          piped : SUBSET Msgs,  \* pipedMessagesDuringQuery
          result : BOOLEAN]     \* resultCount > 0

NoAgent == [phase |-> "off", prompt |-> {}, piped |-> {}, result |-> FALSE]

TypeOK ==
  /\ msg \in [Msgs -> Chats \cup {NoChat}]
  /\ seen \in Cursor
  /\ batch \in [Chats -> SUBSET Msgs]
  /\ pull \in [Chats -> Cursor] /\ committed \in [Chats -> Cursor]
  /\ expanding \in SUBSET Msgs
  /\ pending \in [Chats -> BOOLEAN]
  /\ retries \in [Chats -> 0..MaxRetries] /\ timer \in [Chats -> BOOLEAN]
  /\ run \in [Chats -> Run] /\ agent \in [Chats -> Agent]
  /\ dir \in [Chats -> SUBSET Msgs]
  /\ sig \in [Chats -> SUBSET {"close", "drain", "interrupt"}]
  /\ web \in SUBSET Msgs /\ given \in SUBSET Msgs
  /\ injected \in SUBSET Msgs /\ handled \in SUBSET Msgs
  /\ crashes \in 0..MaxCrashes /\ failures \in 0..MaxFailures

Init ==
  /\ msg = [m \in Msgs |-> NoChat]
  /\ seen = 1
  /\ batch = [c \in Chats |-> {}]
  /\ pull \in [Chats -> StartCursors]
  /\ committed = pull
  /\ expanding = {}
  /\ pending = [c \in Chats |-> FALSE]
  /\ retries = [c \in Chats |-> 0] /\ timer = [c \in Chats |-> FALSE]
  /\ run = [c \in Chats |-> NoRun] /\ agent = [c \in Chats |-> NoAgent]
  /\ dir = [c \in Chats |-> {}] /\ sig = [c \in Chats |-> {}]
  /\ web = {} /\ given = {} /\ injected = {} /\ handled = {}
  /\ crashes = 0 /\ failures = 0

-----------------------------------------------------------------------------
(* Cursors and the queue.                                                  *)

Later(i, j) == IF i > j THEN i ELSE j

\* getMessagesSince.
Since(c, k) == {m \in Msgs : msg[m] = c /\ m > k}

IsLast(m, S) == m \in S /\ \A n \in S : n <= m

\* sendMessage finds an agent.  In the code it does so until the finally block of
\* runForGroup, some awaits after the exit; a message that is injected there lies
\* in the input directory as one does that was injected right before the exit.
Live(c) == run[c].stage = "live"

SetCursors(c, k) ==
  /\ pull' = [pull EXCEPT ![c] = k]
  /\ committed' = [committed EXCEPT ![c] = k]

AdvanceNextPullCursorOnly(c, k) ==
  /\ pull' = [pull EXCEPT ![c] = Later(@, k)]
  /\ UNCHANGED committed

\* Mutant: the recovery cursor goes to the candidate, the pull cursor stays.
AdvanceCommittedOnly(c, k) ==
  /\ UNCHANGED pull
  /\ committed' = [committed EXCEPT ![c] = Later(pull[c], k)]

AdvanceCursors(c, k) ==
  /\ pull' = [pull EXCEPT ![c] = Later(@, k)]
  /\ committed' = [committed EXCEPT ![c] = Later(pull[c], k)]

AdvanceGlobalCursor(m) == seen' = Later(seen, m)

\* enqueueMessageCheck: a live agent is asked to leave after its query.
EnqueueCheck(c) ==
  /\ pending' = [pending EXCEPT ![c] = TRUE]
  /\ sig' = [sig EXCEPT ![c] = IF Live(c) THEN @ \cup {"drain"} ELSE @]

\* What sendMessage does when an agent is live, with the route updater.
Inject(c, S) ==
  /\ dir' = [dir EXCEPT ![c] = @ \cup S]
  /\ given' = given \cup S
  /\ injected' = injected \cup S

-----------------------------------------------------------------------------
(* Messages arrive.                                                        *)

Store(c, m) ==
  /\ \A n \in Msgs : n >= m => msg[n] = NoChat
  /\ msg' = [msg EXCEPT ![m] = c]

\* A message of an IM channel; the loop will find it.
Arrive(c, m) ==
  /\ Store(c, m)
  /\ UNCHANGED <<host, agent, dir, sig, history, crashes, failures>>

\* handleWebUserMessage up to its await: with a live agent the plugin expander
\* is asked first.
WebArrive(c, m) ==
  /\ Store(c, m)
  /\ web' = web \cup {m}
  /\ \/ /\ TRUE \in GateCloses
        /\ SetCursors(c, m) /\ AdvanceGlobalCursor(m)
        /\ handled' = handled \cup {m}
        /\ UNCHANGED <<expanding, pending, sig>>
     \/ /\ Live(c)
        /\ expanding' = expanding \cup {m}
        /\ UNCHANGED <<seen, pull, committed, pending, sig, handled>>
     \/ /\ ~Live(c)
        /\ EnqueueCheck(c) /\ AdvanceGlobalCursor(m)
        /\ UNCHANGED <<pull, committed, expanding, handled>>
  /\ UNCHANGED <<batch, retries, timer, run, agent, dir, given, injected,
                 crashes, failures>>

\* The expander answered the message itself.
WebReply(m) ==
  /\ m \in expanding /\ m \in Commands
  /\ expanding' = expanding \ {m}
  /\ IF \E n \in Since(msg[m], committed[msg[m]]) : n < m
       THEN AdvanceNextPullCursorOnly(msg[m], m)
       ELSE AdvanceCursors(msg[m], m)
  /\ AdvanceGlobalCursor(m)
  /\ handled' = handled \cup {m}
  /\ UNCHANGED <<msg, batch, pending, retries, timer, run, agent, dir, sig,
                 web, given, injected, crashes, failures>>

\* The rest of handleWebUserMessage.  A message with mounts of its own is
\* never put into a running agent.
WebSend(m) ==
  /\ m \in expanding /\ m \notin Commands
  /\ expanding' = expanding \ {m}
  /\ AdvanceGlobalCursor(m)
  /\ \/ /\ Live(msg[m])
        /\ Inject(msg[m], {m})
        /\ SetCursors(msg[m], m)
        /\ run' = [run EXCEPT ![msg[m]].replied = FALSE,
                              ![msg[m]].marked = TRUE]
        /\ UNCHANGED <<pending, sig>>
     \/ /\ EnqueueCheck(msg[m])
        /\ UNCHANGED <<pull, committed, run, dir, given, injected>>
  /\ UNCHANGED <<msg, batch, retries, timer, agent, web, handled, crashes,
                 failures>>

-----------------------------------------------------------------------------
(* The message loop.                                                       *)

\* The seen cursor moves at once, over the messages of all chats.
Poll ==
  /\ \A c \in Chats : batch[c] = {}
  /\ \E last \in Msgs :
       /\ last > seen /\ IsLast(last, {m \in Msgs : msg[m] # NoChat})
       /\ seen' = last
  /\ batch' = [c \in Chats |-> Since(c, seen)]
  /\ UNCHANGED <<msg, pull, committed, expanding, pending, retries, timer,
                 run, agent, dir, sig, history, crashes, failures>>

\* What the loop sends: all that is pending, or else what it has just seen.
ToSend(c) == IF Since(c, pull[c]) # {} THEN Since(c, pull[c]) ELSE batch[c]

\* The owner is disabled, or out of quota: the cursors jump over the batch.
VisitDenied(c) ==
  /\ TRUE \in GateCloses
  /\ \E last \in batch[c] :
       /\ IsLast(last, batch[c])
       /\ SetCursors(c, last)
       /\ handled' = handled \cup batch[c]
                     \cup {m \in Since(c, pull[c]) : m <= last}
  /\ UNCHANGED <<pending, run, dir, sig, given, injected>>

\* All of it are commands of the plugin expander.
VisitReplies(c) ==
  /\ ToSend(c) \subseteq Commands
  /\ \E last \in Msgs : IsLast(last, ToSend(c)) /\ SetCursors(c, last)
  /\ handled' = handled \cup ToSend(c)
  /\ UNCHANGED <<pending, run, dir, sig, given, injected>>

\* Mutant: only what the loop has just seen goes to the agent.
VisitSendsBatch(c) ==
  /\ Live(c) /\ ~(ToSend(c) \subseteq Commands)
  /\ Inject(c, batch[c] \ Commands)
  /\ \E last \in Msgs :
       IsLast(last, ToSend(c)) /\ AdvanceNextPullCursorOnly(c, last)
  /\ handled' = handled \cup (ToSend(c) \cap Commands)
  /\ run' = [run EXCEPT ![c].replied = FALSE]
  /\ UNCHANGED <<pending, sig>>

VisitSends(c) ==
  /\ Live(c) /\ ~(ToSend(c) \subseteq Commands)
  /\ Inject(c, ToSend(c) \ Commands)
  /\ \E last \in Msgs :
       IsLast(last, ToSend(c)) /\ AdvanceNextPullCursorOnly(c, last)
  /\ handled' = handled \cup (ToSend(c) \cap Commands)
  /\ run' = [run EXCEPT ![c].replied = FALSE]
  /\ UNCHANGED <<pending, sig>>

\* Replies to commands move the pull cursor, over other messages too.
PassReplies(c, replies) ==
  \/ replies = {} /\ UNCHANGED <<pull, committed>>
  \/ \E last \in replies :
       IsLast(last, replies) /\ AdvanceNextPullCursorOnly(c, last)

\* Mutant: the loop forgets to ask for a run.
VisitForgets(c) ==
  /\ ~Live(c) /\ ~(ToSend(c) \subseteq Commands)
  /\ PassReplies(c, ToSend(c) \cap Commands)
  /\ handled' = handled \cup (ToSend(c) \cap Commands)
  /\ UNCHANGED <<run, dir, given, injected, pending, sig>>

VisitEnqueues(c) ==
  /\ ~Live(c) /\ ~(ToSend(c) \subseteq Commands)
  /\ PassReplies(c, ToSend(c) \cap Commands)
  /\ handled' = handled \cup (ToSend(c) \cap Commands)
  /\ EnqueueCheck(c)
  /\ UNCHANGED <<run, dir, given, injected>>

\* The loop deals with the new messages of one chat.
Visit(c) ==
  /\ batch[c] # {}
  /\ batch' = [batch EXCEPT ![c] = {}]
  /\ \/ VisitDenied(c) \/ VisitReplies(c) \/ VisitSends(c)
     \/ VisitEnqueues(c)
  /\ UNCHANGED <<msg, seen, expanding, retries, timer, agent, web, crashes,
                 failures>>

-----------------------------------------------------------------------------
(* processGroupMessages.                                                   *)

NothingToDo(c) ==
  /\ Since(c, pull[c]) = {}
  /\ UNCHANGED <<pull, committed, run, handled>>

\* A chat without a cursor: a backlog, or an old message, is history.
ColdStart(c) ==
  /\ pull[c] = 0
  /\ \E last \in Msgs : IsLast(last, Since(c, 0)) /\ SetCursors(c, last)
  /\ handled' = handled \cup Since(c, 0)
  /\ UNCHANGED run

StartReplies(c) ==
  /\ Since(c, pull[c]) \subseteq Commands
  /\ \E last \in Msgs :
       IsLast(last, Since(c, pull[c])) /\ SetCursors(c, last)
  /\ handled' = handled \cup Since(c, pull[c])
  /\ UNCHANGED run

StartDenied(c) ==
  /\ TRUE \in GateCloses
  /\ ~(Since(c, pull[c]) \subseteq Commands)
  /\ \E last \in Msgs :
       IsLast(last, Since(c, pull[c])) /\ AdvanceCursors(c, last)
  /\ handled' = handled \cup Since(c, pull[c])
  /\ UNCHANGED run

\* An agent will be started with the messages as its prompt.  The pull cursor
\* does not move over them before their reply is there.
Boot(c) ==
  LET missed == Since(c, pull[c]) IN
  /\ pull[c] # 0 \/ \A m, n \in missed : m = n
  /\ ~(missed \subseteq Commands)
  /\ PassReplies(c, missed \cap Commands)
  /\ handled' = handled \cup (missed \cap Commands)
  /\ run' = [run EXCEPT ![c] =
       [NoRun EXCEPT !.stage = "booting", !.taken = missed \ Commands]]

\* runForGroup calls processGroupMessages.
StartRun(c) ==
  /\ pending[c] /\ run[c].stage = "none"
  /\ pending' = [pending EXCEPT ![c] = FALSE]
  /\ \/ NothingToDo(c)
     \/ Since(c, pull[c]) # {} /\ (ColdStart(c) \/ StartReplies(c)
                                   \/ StartDenied(c) \/ Boot(c))
  /\ IF run'[c].stage = "none"
       THEN /\ retries' = [retries EXCEPT ![c] = 0]
            /\ timer' = [timer EXCEPT ![c] = FALSE]
       ELSE UNCHANGED <<retries, timer>>
  /\ UNCHANGED <<msg, seen, batch, expanding, agent, dir, sig, web, given,
                 injected, crashes, failures>>

\* registerProcess: from now on messages can be injected.
Register(c) ==
  /\ run[c].stage = "booting"
  /\ run' = [run EXCEPT ![c].stage = "live"]
  /\ agent' = [agent EXCEPT ![c].phase = "starting"]
  /\ UNCHANGED <<msg, seen, batch, pull, committed, expanding, pending,
                 retries, timer, dir, sig, history, crashes, failures>>

BootFails(c) ==
  /\ run[c].stage = "booting" /\ failures < MaxFailures
  /\ failures' = failures + 1
  /\ run' = [run EXCEPT ![c].stage = "exited", ![c].exit = "error"]
  /\ UNCHANGED <<msg, seen, batch, pull, committed, expanding, pending,
                 retries, timer, agent, dir, sig, history, crashes>>

\* commitCursor, once in a run.
Commit(c) ==
  IF run[c].committed THEN UNCHANGED <<pull, committed>>
  ELSE \E last \in run[c].taken :
         IsLast(last, run[c].taken) /\ AdvanceCursors(c, last)

\* Mutant: a run without a reply that was closed counts as done.
SettlesIfClosed(r, partial) ==
  \/ partial \/ r.exit \in {"done", "reset", "closed"}
  \/ r.replied

\* Mutant: a run that ends with an error counts as done.
SettlesOnError(r, partial) ==
  \/ partial \/ r.exit \in {"done", "reset", "error"}
  \/ r.replied

\* The ends of a run that commit the cursor.
Settles(r, partial) ==
  \/ partial \/ r.exit \in {"done", "reset"}
  \/ r.replied

\* Mutant: the retries are not counted to their limit.
NextRetryForEver(n) == n + 1

\* scheduleRetry: after the last one the count starts again.
NextRetry(n) == IF n < MaxRetries THEN n + 1 ELSE 0

\* The agent has exited: the rest of processGroupMessages, and the finally
\* block of runForGroup.  Text that was streamed without a reply is stored as
\* a partial reply.  The tests of pending look at the files left unread.
EndRun(c) ==
  /\ run[c].stage = "exited"
  /\ \E partial \in BOOLEAN :
       /\ partial => /\ run[c].exit \in {"closed", "error"}
                     /\ ~run[c].replied /\ run[c].taken \subseteq given
       /\ IF Settles(run[c], partial)
            THEN Commit(c) ELSE UNCHANGED <<pull, committed>>
       /\ handled' = IF partial \/ run[c].exit = "reset"
                       THEN handled \cup run[c].taken ELSE handled
       /\ IF run[c].exit = "error" /\ ~Settles(run[c], partial)
            THEN /\ timer' = [timer EXCEPT ![c] = retries[c] < MaxRetries]
                 /\ retries' = [retries EXCEPT ![c] = NextRetry(@)]
            ELSE /\ timer' = [timer EXCEPT ![c] = FALSE]
                 /\ retries' = [retries EXCEPT ![c] = 0]
  /\ pending' = [pending EXCEPT ![c] = @ \/ dir[c] # {} \/ run[c].marked]
  /\ run' = [run EXCEPT ![c] = NoRun]
  /\ sig' = [sig EXCEPT ![c] = {}]
  /\ UNCHANGED <<msg, seen, batch, expanding, agent, dir, web, given,
                 injected, crashes, failures>>

RetryFires(c) ==
  /\ timer[c]
  /\ timer' = [timer EXCEPT ![c] = FALSE]
  /\ EnqueueCheck(c)
  /\ UNCHANGED <<msg, seen, batch, pull, committed, expanding, retries, run,
                 agent, dir, history, crashes, failures>>

-----------------------------------------------------------------------------
(* The agent process.                                                      *)

hostIdle == <<msg, seen, batch, pull, committed, expanding, pending, retries,
              timer>>

Query(prompt) == [phase |-> "query", prompt |-> prompt, piped |-> {},
                  result |-> FALSE]
IdleAgent == [NoAgent EXCEPT !.phase = "idle"]

\* The files that are there already go into the first prompt.
AgentStart(c) ==
  /\ agent[c].phase = "starting"
  /\ agent' = [agent EXCEPT ![c] = Query(run[c].taken \cup dir[c])]
  /\ given' = given \cup run[c].taken
  /\ dir' = [dir EXCEPT ![c] = {}]
  /\ sig' = [sig EXCEPT ![c] = @ \ {"close", "interrupt"}]
  /\ UNCHANGED <<hostIdle, run, web, injected, handled, crashes, failures>>

\* pollIpcDuringQuery: messages are piped into the running query.
Pipe(c) ==
  /\ agent[c].phase = "query" /\ dir[c] # {}
  /\ sig[c] \cap {"close", "interrupt"} = {}
  /\ ~("drain" \in sig[c] /\ agent[c].result)
  /\ agent' = [agent EXCEPT ![c].piped = @ \cup dir[c]]
  /\ dir' = [dir EXCEPT ![c] = {}]
  /\ UNCHANGED <<hostIdle, run, sig, history, crashes, failures>>

\* The host has sent or stored a reply of the run.
Reply(c) ==
  /\ Commit(c)
  /\ run' = [run EXCEPT ![c].replied = TRUE, ![c].committed = TRUE]

\* A result of the query, and what the host does with it.  It answers the
\* prompt, some piped messages, or both; not every result is a visible reply.
Result(c) ==
  /\ agent[c].phase = "query"
  /\ \E answered \in SUBSET agent[c].piped, visible \in BOOLEAN :
       /\ agent[c].result => answered # {}
       /\ handled' = handled \cup answered \cup
            (IF agent[c].result THEN {} ELSE agent[c].prompt)
       /\ agent' = [agent EXCEPT ![c].result = TRUE]
       /\ IF visible THEN Reply(c) ELSE UNCHANGED <<pull, committed, run>>
  /\ UNCHANGED <<msg, seen, batch, expanding, pending, retries, timer, dir,
                 sig, web, given, injected, crashes, failures>>

\* The host hears of an interrupt: what was streamed is stored as the reply, if
\* there is none yet.
Interrupted(c) ==
  IF run[c].replied THEN UNCHANGED <<pull, committed, run>> ELSE Reply(c)

\* Mutant: an interrupt does not put the piped messages back.
InterruptDropsPiped(c) ==
  /\ agent[c].phase = "query"
  /\ "interrupt" \in sig[c] /\ "close" \notin sig[c]
  /\ agent' = [agent EXCEPT ![c] = IdleAgent]
  /\ sig' = [sig EXCEPT ![c] = @ \ {"interrupt", "drain"}]
  /\ handled' = handled \cup agent[c].prompt
  /\ Interrupted(c)
  /\ UNCHANGED <<msg, seen, batch, expanding, pending, retries, timer, dir, web,
                 given, injected, crashes, failures>>

\* The user interrupts the query: what was piped into it is written back.
Interrupt(c) ==
  /\ agent[c].phase = "query"
  /\ "interrupt" \in sig[c] /\ "close" \notin sig[c]
  /\ agent' = [agent EXCEPT ![c] = IdleAgent]
  /\ dir' = [dir EXCEPT ![c] = @ \cup agent[c].piped]
  /\ sig' = [sig EXCEPT ![c] = @ \ {"interrupt", "drain"}]
  /\ handled' = handled \cup agent[c].prompt
  /\ Interrupted(c)
  /\ UNCHANGED <<msg, seen, batch, expanding, pending, retries, timer, web, given,
                 injected, crashes, failures>>

\* The stream is closed some seconds after a result, by whatever message that
\* was piped meanwhile.
CloseStream(c) ==
  /\ agent[c].phase = "query" /\ agent[c].result /\ sig[c] = {}
  /\ agent' = [agent EXCEPT ![c] = IdleAgent]
  /\ UNCHANGED <<hostIdle, run, dir, sig, history, crashes, failures>>

\* Idle: the next messages make the next prompt.
Wake(c) ==
  /\ agent[c].phase = "idle" /\ dir[c] # {}
  /\ sig[c] \cap {"close", "drain"} = {}
  /\ agent' = [agent EXCEPT ![c] = Query(dir[c])]
  /\ dir' = [dir EXCEPT ![c] = {}]
  /\ sig' = [sig EXCEPT ![c] = {}]
  /\ UNCHANGED <<hostIdle, run, history, crashes, failures>>

Exit(c, how) ==
  /\ agent' = [agent EXCEPT ![c] = NoAgent]
  /\ run' = [run EXCEPT ![c].stage = "exited", ![c].exit = how]

\* _close, or _drain after a result; _close or _drain when idle.
Leave(c) ==
  /\ \/ /\ agent[c].phase = "query"
        /\ \/ "close" \in sig[c]
           \/ "drain" \in sig[c] /\ agent[c].result
              /\ "interrupt" \notin sig[c]
        /\ Exit(c, "closed")
     \/ /\ agent[c].phase = "idle" /\ sig[c] \cap {"close", "drain"} # {}
        /\ Exit(c, "done")
  /\ UNCHANGED <<hostIdle, dir, sig, history, crashes, failures>>

\* The agent is killed, times out or ends with an error; some errors reset the
\* session and are not retried.
Fail(c) ==
  /\ agent[c].phase # "off" /\ failures < MaxFailures
  /\ failures' = failures + 1
  /\ \/ Exit(c, "error")
     \/ agent[c].phase = "query" /\ Exit(c, "reset")
  /\ UNCHANGED <<hostIdle, dir, sig, history, crashes>>

\* closeStdin: the idle timer, or a refresh of credentials at any moment.
CloseStdin(c) ==
  /\ Live(c) /\ "close" \notin sig[c]
  /\ \/ TRUE \in EarlyClose
     \/ FALSE \in EarlyClose /\ agent[c].phase = "idle"
  /\ sig' = [sig EXCEPT ![c] = @ \cup {"close"}]
  /\ UNCHANGED <<msg, host, agent, dir, history, crashes, failures>>

\* interruptQuery.
InterruptQuery(c) ==
  /\ Live(c) /\ "interrupt" \notin sig[c]
  /\ sig' = [sig EXCEPT ![c] = @ \cup {"interrupt"}]
  /\ UNCHANGED <<msg, host, agent, dir, history, crashes, failures>>

-----------------------------------------------------------------------------
(* The host crashes and restarts.                                          *)

\* loadState: a missing committed cursor is filled in.
LoadedCommitted(c) == IF committed[c] = 0 THEN pull[c] ELSE committed[c]

\* Mutant: recovery leaves out what the loop has seen.
RecoversUnseen(c) ==
  LoadedCommitted(c) # 0 /\ Since(c, Later(seen, LoadedCommitted(c))) # {}

\* recoverPendingMessages.
Recovers(c) ==
  LoadedCommitted(c) # 0 /\ Since(c, LoadedCommitted(c)) # {}

\* Cursors, messages and files survive.
Crash ==
  /\ crashes < MaxCrashes /\ crashes' = crashes + 1
  /\ batch' = [c \in Chats |-> {}] /\ expanding' = {}
  /\ retries' = [c \in Chats |-> 0] /\ timer' = [c \in Chats |-> FALSE]
  /\ run' = [c \in Chats |-> NoRun] /\ agent' = [c \in Chats |-> NoAgent]
  /\ committed' = [c \in Chats |-> LoadedCommitted(c)]
  /\ pending' = [c \in Chats |-> Recovers(c)]
  /\ UNCHANGED <<msg, seen, pull, dir, sig, history, failures>>

-----------------------------------------------------------------------------
(* Specifications.                                                         *)

AgentStep(c) == AgentStart(c) \/ Pipe(c) \/ Result(c) \/ Interrupt(c)
                \/ CloseStream(c) \/ Wake(c) \/ Leave(c)

RunStep(c) == StartRun(c) \/ Register(c) \/ EndRun(c) \/ RetryFires(c)

Trouble(c) == BootFails(c) \/ Fail(c) \/ CloseStdin(c) \/ InterruptQuery(c)

\* Without web messages: chats of IM channels.
ImNext ==
  \/ Poll \/ Crash
  \/ \E c \in Chats : \/ Visit(c) \/ AgentStep(c) \/ RunStep(c) \/ Trouble(c)
                      \/ \E m \in Msgs : Arrive(c, m)

Next ==
  \/ ImNext
  \/ \E m \in Msgs : \/ WebReply(m) \/ WebSend(m)
                     \/ \E c \in Chats : WebArrive(c, m)

ImSpec == Init /\ [][ImNext]_vars
Spec == Init /\ [][Next]_vars

\* The loop wakes up, runs and agents go on, timers fire; nobody has to send,
\* close a busy agent, interrupt, fail or crash.
Progress ==
  /\ WF_vars(Poll)
  /\ \A c \in Chats :
       /\ WF_vars(Visit(c)) /\ WF_vars(RunStep(c))
       /\ WF_vars(AgentStep(c))
       /\ WF_vars(agent[c].phase = "idle" /\ CloseStdin(c))

FairImSpec == ImSpec /\ Progress

-----------------------------------------------------------------------------
(* Properties.                                                             *)

ImOnly(c) == \A m \in web : msg[m] # c

\* A reply to a later command took the pull cursor over the message.
Overtaken(m) == \E k \in Commands : k > m /\ msg[k] = msg[m]

TakenUp == given \cup handled

\* The recovery cursor is never ahead of the pull cursor: what an agent still
\* has to be given is looked at again after a restart.
CommittedBehindPull == \A c \in Chats : committed[c] <= pull[c]

\* The pull cursor of an IM chat never passes a message that no agent was
\* given and nobody was told about, except when a reply to a command does it:
\* not in polls, injections, retries, restarts, or runs that end in any way.
NeverSkipped ==
  \A c \in Chats, m \in Msgs :
    ImOnly(c) /\ msg[m] = c /\ m <= pull[c] => m \in TakenUp \/ Overtaken(m)

\* A message of an IM chat behind the recovery cursor was dealt with, or it
\* was injected (commitCursor takes the cursor over those).
CommittedIsHandled ==
  \A c \in Chats, m \in Msgs :
    ImOnly(c) /\ msg[m] = c /\ m <= committed[c]
      => m \in handled \cup injected \/ Overtaken(m)

\* A later web message, of any chat, took the seen cursor over the message.
Jumped(m) == \E k \in web : k > m

\* What the loop has seen and nobody was given yet keeps something that will
\* look at it again: the loop's batch, a queued check, a retry, or a run that
\* took it.  Not so when the retries are used up, or when the host crashed
\* before the first commit of a chat.
SeenHasTaker ==
  \A c \in Chats, m \in Msgs :
    /\ ImOnly(c) /\ msg[m] = c /\ m <= seen
    /\ m \notin TakenUp /\ ~Overtaken(m) /\ ~Jumped(m)
    => \/ m \in batch[c] \/ pending[c] \/ timer[c] \/ m \in run[c].taken
       \/ retries[c] = 0 /\ failures > MaxRetries
       \/ committed[c] = 0 /\ crashes > 0

\* Every message of an IM chat is taken up, and none before an earlier one:
\* the abstract inbox, fairness included.
Box == INSTANCE Inbox WITH
  arrived <- [c \in Chats |-> {m \in Msgs : msg[m] = c}],
  taken <- [c \in Chats |-> {m \in TakenUp : msg[m] = c}]

TakenUpInOrder == Box!Spec

\* A message that was never injected is answered in the end, or refused, as
\* long as agents are not closed while they work: retries and the restart of
\* the host see to it.
AnsweredUnlessInjected ==
  \A m \in Msgs : msg[m] # NoChat ~> m \in handled \cup injected

\* The stream of a query is closed some seconds after a result.
StreamCloses(c) == agent[c].result /\ sig[c] = {} /\ agent'[c].phase = "idle"

\* What lies in the input directory or is in the hands of an agent is not
\* dropped while the agent lives, over starts, interrupts and the turns of its
\* main loop.  Only the closing of the stream drops what was piped into it.
LivingAgentKeeps ==
  [][\A c \in Chats :
       Live(c) /\ run'[c].stage = "live" /\ ~StreamCloses(c)
         => dir[c] \cup agent[c].prompt \cup agent[c].piped
              \subseteq dir'[c] \cup agent'[c].prompt \cup agent'[c].piped
                        \cup handled']_vars
=============================================================================
