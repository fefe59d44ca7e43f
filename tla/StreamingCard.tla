---------------------------- MODULE StreamingCard ----------------------------
(***************************************************************************)
(* The card on which a reply is streamed to a Feishu chat:                 *)
(* StreamingCardController, its backends and its flush timers              *)
(* (src/src/feishu-streaming-card.ts), and the calls that a run makes of   *)
(* it (src/src/index.ts).  One session: one controller, one run.           *)
(*                                                                         *)
(* A request to the Feishu API is one step, taken when it settles: what    *)
(* happens while it is under way happens before.  An update may fail, or   *)
(* arrive and be reported as failed.  A card that could not be sent is not *)
(* there.                                                                  *)
(*                                                                         *)
(* Text is its length, and grows; a card shows the part (from, to] of it.  *)
(* The card of an ended session has the text in at most four sections,     *)
(* which clip what is too long (feishu-cards/length.ts); how much of a     *)
(* text of some length they leave is a constant, since it depends on its   *)
(* paragraphs.  Cards of MultiCardManager, of a split and of the last      *)
(* resort have no sections.                                                *)
(* Abstracted: titles, panels and footers, pushes to the panels of a card  *)
(* in streaming mode (best effort, never counted), the dropping of         *)
(* repeated updates, and the cap of 9 freezes in one commit.               *)
(***************************************************************************)
EXTENDS Integers, Sequences

CONSTANTS
  MaxText,           \* bound: length of the reply
  Slice,             \* FREEZE_SLICE_BYTES: what one card of several holds
  Limit,             \* CARD_SIZE_LIMIT: what a single card holds
  Body,              \* what splitIntoBodySections leaves of a text
  MaxPatchFailures,  \* maxPatchFailures
  MaxQueue,          \* bound: flushes that wait in a chain
  MaxFailures        \* bound: updates that fail

ASSUME CardSizesAssumption ==
  /\ MaxText \in Nat \ {0} /\ Slice \in Nat \ {0}
  /\ Limit \in Slice .. 2 * Slice
ASSUME SectionsAssumption ==
  /\ Body \in [0..MaxText -> 0..MaxText]
  /\ \A t \in 0..MaxText : Body[t] <= t
ASSUME CardBoundsAssumption ==
  /\ MaxPatchFailures \in Nat \ {0} /\ MaxQueue \in Nat \ {0}
  /\ MaxFailures \in Nat

VARIABLES
  state,             \* StreamingState
  mode,              \* backendMode
  text,              \* accumulatedText
  creating,          \* [level, initial]: where createInitialCard is
  armed,             \* the flush timer of the mode is set
  fails,             \* patchFailCount
  queue,             \* the chain of requests or commits of the backend
  old,               \* what a degraded streaming backend has left in its own
  seq,               \* sequence numbers of card 1, while two chains use them
  cards,             \* the cards of the chat, as the user sees them
  mine, frozen,      \* cards of MultiCardManager, frozenPrefixChars
  fin,               \* the finalization under way
  split,             \* finalizedAsSplit
  call, told,        \* the run's call of complete, how the reply was sent
  overruled,         \* history: aborted from outside
  failures

backend == <<queue, old, seq, cards, mine, frozen>>
caller == <<call, told, overruled>>
vars == <<state, mode, text, creating, armed, fails, backend, fin, split,
          caller, failures>>

Final == {"completed", "aborted"}
Top == MaxQueue + 2
Smaller(i, j) == IF i < j THEN i ELSE j

Card == [face : Final \cup {"streaming", "frozen"}, from : 0..MaxText,
         to : 0..MaxText,
         cut : BOOLEAN,      \* shows that text is missing
         missed : BOOLEAN,   \* the last update meant for it did not arrive
         slots : BOOLEAN]    \* has the main element of the streaming card

\* A job of a chain: a push of text, a step of a finalization, the end of
\* streaming mode, or a commit of the whole state.
Job == [op : {"content", "retry", "finish", "disable", "commit"},
        face : Final \cup {"streaming"}, len : 0..MaxText,
        rolled : BOOLEAN,    \* commit: has frozen a card
        tail : BOOLEAN]      \* commit: one more card is due

NewJob(op, face, len) == [op |-> op, face |-> face, len |-> len,
                          rolled |-> FALSE, tail |-> FALSE]

NoFin == [goal |-> "none", step |-> "none", at |-> 0]

TypeOK ==
  /\ state \in {"idle", "creating", "streaming", "error"} \cup Final
  /\ mode \in {"streaming", "v1", "legacy"}
  /\ text \in 0..MaxText
  /\ creating \in [level : {"none", "streaming", "v1", "legacy"},
                   initial : 0..MaxText]
  /\ armed \in BOOLEAN /\ fails \in 0..MaxPatchFailures
  /\ queue \in Seq(Job) /\ Len(queue) <= MaxQueue + 1
  /\ old \in Seq(Job) /\ Len(old) <= MaxQueue + 1
  /\ seq \in [old : 0..Top, new : 0..Top, last : 0..Top]
  /\ cards \in Seq(Card) /\ mine \in 0..Len(cards)
  /\ frozen \in 0..MaxText
  /\ fin \in [goal : Final \cup {"none", "usage", "giveup"},
              step : {"none", "disable", "full", "first", "next", "cut",
                      "commit"}, at : 0..MaxText]
  /\ split \in BOOLEAN
  /\ call \in {"none", "waiting", "completing", "fallback"}
  /\ told \in {"none", "card", "plain"}
  /\ overruled \in BOOLEAN /\ failures \in 0..MaxFailures

Init ==
  /\ state = "idle" /\ mode = "v1" /\ text = 0
  /\ creating = [level |-> "none", initial |-> 0]
  /\ armed = FALSE /\ fails = 0
  /\ queue = <<>> /\ old = <<>> /\ seq = [old |-> 0, new |-> 0, last |-> 0]
  /\ cards = <<>> /\ mine = 0 /\ frozen = 0
  /\ fin = NoFin /\ split = FALSE
  /\ call = "none" /\ told = "none" /\ overruled = FALSE
  /\ failures = 0

-----------------------------------------------------------------------------
(* Requests.                                                               *)

\* Both chains number their requests to card 1 from where they parted, and
\* the server wants each number to be above the last.
Overlap == old # <<>> \/ seq.new < seq.last

Following(n) == Smaller(n + 1, Top)

Accepted(chain, i) ==
  i = 1 /\ Overlap => Following(seq[chain]) > seq.last \/ seq[chain] = Top

\* A request to card i settles: it arrives; it arrives and is reported as
\* failed; it fails.
Outcome(chain, i, o) ==
  /\ o # "failed" => Accepted(chain, i)
  /\ IF o = "ok" \/ ~Accepted(chain, i)
       THEN UNCHANGED failures
       ELSE failures < MaxFailures /\ failures' = failures + 1
  /\ IF i = 1 /\ Overlap
       THEN seq' = [seq EXCEPT ![chain] = Following(@),
                               !.last = IF o = "failed" THEN @
                                        ELSE Following(seq[chain])]
       ELSE UNCHANGED seq

Outcomes == {"ok", "lost", "failed"}

Shown(face, from, to) ==
  [face |-> face, from |-> from, to |-> to, cut |-> FALSE, missed |-> FALSE,
   slots |-> FALSE]

\* buildAgentReplyCard: the sections clip the text, and no mark says so.
Structured(face, t) == Shown(face, 0, Body[t])

\* Card i is to become card.
Shows(i, o, card) ==
  cards' = [cards EXCEPT ![i] =
    IF o = "failed" THEN [@ EXCEPT !.missed = TRUE] ELSE card]

\* A new card could not be created or sent; card i waits for it.
OpenFails(i) ==
  /\ failures < MaxFailures /\ failures' = failures + 1
  /\ cards' = [cards EXCEPT ![i].missed = TRUE]

-----------------------------------------------------------------------------
(* Finalization.                                                           *)

FaceOf(goal) ==
  CASE goal = "giveup" -> "aborted" [] goal = "usage" -> "completed"
    [] OTHER -> goal

\* Mutant: the final request does not wait for those under way.
FinalizeAtOnce(m, goal, t, q) ==
  /\ fin' = [goal |-> goal, at |-> 0,
             step |-> IF m # "streaming" THEN "commit"
                      ELSE IF goal = "usage" THEN "full" ELSE "disable"]
  /\ queue' = <<NewJob(IF m = "streaming" THEN "finish" ELSE "commit",
                       FaceOf(goal), t)>> \o q

\* finalizeStreamingCard, patchCard or patchUsageNote is called; q is what the
\* chain holds.
Finalize(m, goal, t, q) ==
  /\ fin' = [goal |-> goal, at |-> 0,
             step |-> IF m # "streaming" THEN "commit"
                      ELSE IF goal = "usage" THEN "full" ELSE "disable"]
  /\ queue' = Append(q, NewJob(IF m = "streaming" THEN "finish" ELSE "commit",
                               FaceOf(goal), t))

\* Mutant: a finalization that fails is swallowed.
FinishedQuietly(ok, q) ==
  /\ fin' = NoFin /\ queue' = q
  /\ call' = "none"
  /\ told' = CASE call = "completing" -> "card"
               [] call = "fallback" -> "plain"
               [] OTHER -> told
  /\ UNCHANGED state

\* It returns or throws.  When complete throws, the run aborts the card and
\* then sends the reply as a plain message.
Finished(ok, q) ==
  IF fin.goal = "completed" /\ ~ok
    THEN /\ state' = "aborted" /\ call' = "fallback"
         /\ Finalize(mode, "aborted", text, q)
         /\ UNCHANGED told
    ELSE /\ fin' = NoFin /\ queue' = q
         /\ IF fin.goal \in Final /\ call # "waiting"
              THEN /\ call' = "none"
                   /\ told' = CASE call = "completing" -> "card"
                                [] call = "fallback" -> "plain"
                                [] OTHER -> told
              ELSE UNCHANGED <<call, told>>
         /\ UNCHANGED state

\* The next step of finalizeStreamingCard.
Step(step, q) ==
  /\ fin' = [fin EXCEPT !.step = step]
  /\ queue' = Append(q, NewJob("finish", FaceOf(fin.goal), text))
  /\ UNCHANGED <<state, call, told>>

Disabled(o) ==
  /\ UNCHANGED cards
  /\ IF o # "ok" THEN Step("cut", Tail(queue)) /\ UNCHANGED split
     ELSE IF text <= Limit THEN Step("full", Tail(queue)) /\ UNCHANGED split
     ELSE Step("first", Tail(queue)) /\ split' = TRUE

\* A single card takes it; its structure keeps the main element.
FullUpdated(o) ==
  /\ Shows(1, o, [Structured(FaceOf(fin.goal), text) EXCEPT !.slots = TRUE])
  /\ IF o = "ok" \/ fin.goal = "usage"
       THEN Finished(TRUE, Tail(queue)) ELSE Step("cut", Tail(queue))
  /\ UNCHANGED split

\* splitOnFinalize: the first card ...
FirstUpdated(o) ==
  /\ Shows(1, o, Shown("frozen", 0, Slice))
  /\ IF o = "ok"
       THEN /\ fin' = [fin EXCEPT !.step = "next", !.at = Slice]
            /\ queue' = Tail(queue) /\ UNCHANGED <<state, call, told>>
       ELSE Step("cut", Tail(queue))
  /\ UNCHANGED split

\* The last resort: what fits into a card, marked as cut.
CutUpdated(o) ==
  /\ Shows(1, o, [Shown(FaceOf(fin.goal), 0, Smaller(text, Slice))
                  EXCEPT !.cut = TRUE])
  /\ Finished(o = "ok", Tail(queue))
  /\ UNCHANGED split

FinishSettles ==
  /\ queue # <<>> /\ Head(queue).op = "finish"
  /\ \E o \in Outcomes :
       /\ Outcome("new", 1, o)
       /\ \/ fin.step = "disable" /\ Disabled(o)
          \/ fin.step = "full" /\ FullUpdated(o)
          \/ fin.step = "first" /\ FirstUpdated(o)
          \/ fin.step = "cut" /\ CutUpdated(o)
  /\ UNCHANGED <<mode, text, creating, armed, fails, old, mine, frozen,
                 overruled>>

\* ... and one more card for each further slice.
NextCard ==
  /\ fin.step = "next"
  /\ LET to == Smaller(text, fin.at + Slice) IN
     \/ /\ cards' = Append(cards,
              Shown(IF to = text THEN FaceOf(fin.goal) ELSE "frozen",
                    fin.at, to))
        /\ IF to = text
             THEN Finished(TRUE, queue)
             ELSE /\ fin' = [fin EXCEPT !.at = to]
                  /\ UNCHANGED <<state, call, told, queue>>
        /\ UNCHANGED failures
     \/ OpenFails(1) /\ Step("cut", queue)
  /\ UNCHANGED <<mode, text, creating, armed, fails, old, seq, mine, frozen,
                 split, overruled>>

-----------------------------------------------------------------------------
(* Creation of the card.                                                   *)

\* The next level of createInitialCard; after the last, the state is error,
\* whatever it was.
CreationFails ==
  /\ creating.level # "none"
  /\ creating' = [creating EXCEPT !.level =
       CASE @ = "streaming" -> "v1" [] @ = "v1" -> "legacy"
         [] OTHER -> "none"]
  /\ IF creating.level = "legacy"
       THEN state' = "error" /\ mode' = "legacy" ELSE UNCHANGED <<state, mode>>
  /\ UNCHANGED <<text, armed, fails, backend, fin, split, caller, failures>>

\* Mutant: a card that was aborted while it was created is left as it is.
CreatedAnyway ==
  /\ creating.level # "none"
  /\ creating' = [creating EXCEPT !.level = "none"]
  /\ mode' = creating.level
  /\ cards' = <<[Shown("streaming", 0, creating.initial)
                 EXCEPT !.slots = creating.level = "streaming"]>>
  /\ mine' = 1
  /\ IF state = "creating"
       THEN state' = "streaming" /\ armed' = (text > 0)
       ELSE UNCHANGED <<state, armed>>
  /\ UNCHANGED <<text, fails, old, seq, frozen, fin, queue, split, caller,
                 failures>>

\* The card is sent; finishCardCreation.
Created ==
  /\ creating.level # "none"
  /\ creating' = [creating EXCEPT !.level = "none"]
  /\ mode' = creating.level
  /\ cards' = <<[Shown("streaming", 0, creating.initial)
                 EXCEPT !.slots = creating.level = "streaming"]>>
  /\ mine' = 1
  /\ IF state = "creating"
       THEN /\ state' = "streaming" /\ armed' = (text > 0)
            /\ UNCHANGED <<fin, queue>>
       ELSE Finalize(mode', state, text, queue) /\ UNCHANGED <<state, armed>>
  /\ UNCHANGED <<text, fails, old, seq, frozen, split, caller, failures>>

-----------------------------------------------------------------------------
(* Flushes.                                                                *)

\* schedulePatch: after too many failures the card is given up.
SchedulePatch(t) ==
  \/ /\ fails < MaxPatchFailures
     /\ armed' = TRUE /\ UNCHANGED <<state, fin, queue>>
  \/ /\ fails = MaxPatchFailures
     /\ state' = "error" /\ armed' = FALSE /\ Finalize(mode, "giveup", t, queue)

\* A stream event of the run: more text, or (t = text) another change.  The
\* first one has the card created.
Fed(t) ==
  /\ call = "none" /\ told = "none"
  /\ text' = t
  /\ \/ /\ state = "idle" /\ state' = "creating"
        /\ creating' = [level |-> "streaming", initial |-> t]
        /\ UNCHANGED <<armed, fin, queue>>
     \/ /\ state = "creating"
        /\ UNCHANGED <<state, creating, armed, fin, queue>>
     \/ /\ state = "streaming" /\ mode = "streaming"
        /\ armed' = (armed \/ t > text)
        /\ UNCHANGED <<state, creating, fin, queue>>
     \/ /\ state = "streaming" /\ mode # "streaming"
        /\ SchedulePatch(t) /\ UNCHANGED creating
  /\ UNCHANGED <<mode, fails, old, seq, cards, mine, frozen, split, caller,
                 failures>>

\* The timer fires, or the flush is due at once.
FlushFires ==
  /\ armed /\ Len(queue) < MaxQueue
  /\ armed' = FALSE
  /\ queue' = IF state # "streaming" THEN queue
              ELSE Append(queue,
                     NewJob(IF mode = "streaming" THEN "content" ELSE "commit",
                            "streaming", text))
  /\ UNCHANGED <<state, mode, text, creating, fails, old, seq, cards, mine,
                 frozen, fin, split, caller, failures>>

\* Mutant: streaming mode is enabled again in the chain that waits for it.
ContentExpiresQueued ==
  /\ queue # <<>> /\ Head(queue).op = "content"
  /\ queue' = Append([queue EXCEPT ![1].op = "waits"],
                     NewJob("enable", "streaming", 0))
  /\ UNCHANGED <<state, mode, text, creating, armed, fails, old, seq, cards,
                 mine, frozen, fin, split, caller, failures>>

\* Streaming mode has expired: it is enabled again and the push repeated.
ContentExpires ==
  /\ queue # <<>> /\ Head(queue).op = "content"
  /\ queue' = [queue EXCEPT ![1].op = "retry"]
  /\ UNCHANGED <<state, mode, text, creating, armed, fails, old, seq, cards,
                 mine, frozen, fin, split, caller, failures>>

\* degradeToV1: the card goes to a MultiCardManager; what the streaming
\* backend has in its chain stays there, the end of streaming mode behind it.
Degrade ==
  /\ mode' = "v1" /\ fails' = 0 /\ armed' = TRUE
  /\ old' = Append(Tail(queue), NewJob("disable", "streaming", 0))
  /\ queue' = <<>>

ContentSettles ==
  /\ queue # <<>> /\ Head(queue).op \in {"content", "retry"}
  /\ \E o \in Outcomes :
       /\ Outcome("new", 1, o)
       /\ Shows(1, o, [cards[1] EXCEPT !.to = Head(queue).len,
                                       !.missed = FALSE])
       /\ IF o # "ok" /\ state = "streaming" /\ fails + 1 = MaxPatchFailures
            THEN Degrade
            ELSE /\ fails' = IF o = "ok" THEN 0
                             ELSE IF state = "streaming" THEN fails + 1
                             ELSE fails
                 /\ queue' = Tail(queue)
                 /\ UNCHANGED <<mode, armed, old>>
  /\ UNCHANGED <<state, text, creating, mine, frozen, fin, split, caller>>

\* The rest of the chain of a degraded backend.  The flush that waits for a
\* push finds its controller gone, so that even success counts as failure.
OldSettles ==
  /\ old # <<>>
  /\ old' = Tail(old)
  /\ \E o \in Outcomes :
       /\ Outcome("old", 1, o)
       /\ cards' = IF Head(old).op = "disable" \/ o = "failed"
                      \/ ~cards[1].slots
                     THEN cards ELSE [cards EXCEPT ![1].to = Head(old).len]
  /\ fails' = IF Head(old).op # "disable" /\ state = "streaming"
                THEN Smaller(fails + 1, MaxPatchFailures) ELSE fails
  /\ UNCHANGED <<state, mode, text, creating, armed, queue, mine, frozen, fin,
                 split, caller>>

-----------------------------------------------------------------------------
(* Commits of MultiCardManager, and patches of the legacy card.            *)

Rest(job) == job.len - frozen

Opened == Len(cards) > mine

\* Mutant: the whole text is measured, not what is left of it.
RollsOverAgain(job) ==
  mode = "v1" /\ ~job.tail
    /\ job.len > (IF job.rolled THEN Slice ELSE Limit)

RollsOver(job) ==
  mode = "v1" /\ ~job.tail
    /\ Rest(job) > (IF job.rolled THEN Slice ELSE Limit)

\* patchCard settles.
Committed(job, ok) ==
  /\ fails' = IF ok THEN 0 ELSE Smaller(fails + 1, MaxPatchFailures)
  /\ IF job.face # "streaming" THEN Finished(ok, Tail(queue))
     ELSE queue' = Tail(queue) /\ UNCHANGED <<state, fin, call, told>>

\* Mutant: the offset moves before the next card is there.
RolloverAdvances(job) ==
  /\ RollsOver(job) /\ ~Opened
  /\ \/ /\ cards' = Append(cards,
              Shown("streaming", frozen + Slice, frozen + Slice))
        /\ UNCHANGED <<state, fails, queue, fin, call, told, failures, frozen>>
     \/ /\ OpenFails(mine) /\ Committed(job, FALSE)
        /\ frozen' = frozen + Slice
  /\ UNCHANGED <<seq, mine>>

\* rollover: the next card comes first ...
RolloverOpens(job) ==
  /\ RollsOver(job) /\ ~Opened
  /\ \/ /\ cards' = Append(cards,
              Shown("streaming", frozen + Slice, frozen + Slice))
        /\ UNCHANGED <<state, fails, queue, fin, call, told, failures>>
     \/ OpenFails(mine) /\ Committed(job, FALSE)
  /\ UNCHANGED <<seq, mine, frozen>>

\* ... then the old one is frozen, if it can be, and left.
RolloverFreezes(job) ==
  /\ Opened
  /\ \E o \in Outcomes :
       /\ Outcome("new", mine, o)
       /\ Shows(mine, o, Shown("frozen", frozen, frozen + Slice))
  /\ frozen' = frozen + Slice /\ mine' = mine + 1
  /\ queue' = [queue EXCEPT ![1].rolled = TRUE]
  /\ UNCHANGED <<state, fails, fin, call, told>>

\* renderTerminalTail: the rest needs two cards.
TailFirst(job) ==
  /\ ~RollsOver(job) /\ ~Opened /\ ~job.tail /\ mode = "v1"
  /\ job.face # "streaming" /\ Rest(job) > Slice
  /\ \E o \in Outcomes :
       /\ Outcome("new", mine, o)
       /\ Shows(mine, o, Shown("frozen", frozen, frozen + Slice))
       /\ IF o = "ok"
            THEN /\ queue' = [queue EXCEPT ![1].tail = TRUE]
                 /\ UNCHANGED <<state, fails, fin, call, told>>
            ELSE Committed(job, FALSE)
  /\ UNCHANGED <<mine, frozen>>

TailLast(job) ==
  /\ job.tail
  /\ \/ /\ cards' = Append(cards, Shown(job.face, frozen + Slice, job.len))
        /\ mine' = mine + 1 /\ Committed(job, TRUE) /\ UNCHANGED failures
     \/ OpenFails(mine) /\ Committed(job, FALSE) /\ UNCHANGED mine
  /\ UNCHANGED <<seq, frozen>>

\* A legacy card ends as a reply card.
CommitCard(job) ==
  IF mode = "legacy" /\ job.face # "streaming"
    THEN Structured(job.face, job.len) ELSE Shown(job.face, frozen, job.len)

CommitUpdates(job) ==
  /\ ~RollsOver(job) /\ ~Opened /\ ~job.tail
  /\ mode = "v1" /\ job.face # "streaming" => Rest(job) <= Slice
  /\ \E o \in Outcomes :
       /\ Outcome("new", mine, o)
       /\ Shows(mine, o, CommitCard(job))
       /\ Committed(job, o = "ok")
  /\ UNCHANGED <<mine, frozen>>

CommitSettles ==
  /\ queue # <<>> /\ Head(queue).op = "commit"
  /\ LET job == Head(queue) IN
     \/ RolloverOpens(job) \/ RolloverFreezes(job) \/ TailFirst(job)
     \/ TailLast(job) \/ CommitUpdates(job)
  /\ UNCHANGED <<mode, text, creating, armed, old, split, overruled>>

-----------------------------------------------------------------------------
(* The run, and everybody else.                                            *)

Completes(t) ==
  /\ state' = "completed" /\ text' = t /\ armed' = FALSE
  /\ call' = "completing" /\ Finalize(mode, "completed", t, queue)
  /\ UNCHANGED told

\* The reply is there: complete is called for an active card, and waits for a
\* card that is being created.  Else the reply is sent as a plain message.
Result(t) ==
  /\ call = "none" /\ told = "none"
  /\ \/ state = "streaming" /\ Completes(t)
     \/ /\ state = "creating" /\ call' = "waiting"
        /\ UNCHANGED <<state, text, armed, fin, queue, told>>
     \/ /\ state \notin {"streaming", "creating"} /\ told' = "plain"
        /\ UNCHANGED <<state, text, armed, fin, queue, call>>
  /\ UNCHANGED <<mode, creating, fails, old, seq, cards, mine, frozen, split,
                 overruled, failures>>

\* The creation has settled.  A card aborted meanwhile is left alone.
CompleteGoesOn(t) ==
  /\ call = "waiting" /\ creating.level = "none"
  /\ \/ state = "streaming" /\ Completes(t)
     \/ /\ state = "error" /\ state' = "aborted"
        /\ told' = "plain" /\ call' = "none"
        /\ UNCHANGED <<text, armed, fin, queue>>
     \/ /\ state \in Final /\ told' = "card" /\ call' = "none"
        /\ UNCHANGED <<state, text, armed, fin, queue>>
  /\ UNCHANGED <<mode, creating, fails, old, seq, cards, mine, frozen, split,
                 overruled, failures>>

\* abort of an active card: another session of the chat, an interrupt, the end
\* of the run, or shutdown.
Abort ==
  /\ state \in {"streaming", "creating"}
  /\ state' = "aborted" /\ armed' = FALSE /\ overruled' = TRUE
  /\ IF state = "streaming" THEN Finalize(mode, "aborted", text, queue)
     ELSE UNCHANGED <<fin, queue>>
  /\ UNCHANGED <<mode, text, creating, fails, old, seq, cards, mine, frozen,
                 split, call, told, failures>>

\* patchUsageNote, after the reply.  What is measured has been clipped: after
\* the last resort the note may fit, and takes the mark off.
UsageNote ==
  /\ state = "completed" /\ told = "card" /\ fin = NoFin
  /\ IF mode = "streaming" THEN ~split /\ Body[text] <= Limit ELSE mine = 1
  /\ Finalize(mode, "usage", text, queue)
  /\ UNCHANGED <<state, mode, text, creating, armed, fails, old, seq, cards,
                 mine, frozen, split, caller, failures>>

-----------------------------------------------------------------------------
(* Specification.                                                          *)

Requests ==
  \/ CreationFails \/ Created \/ ContentExpires \/ ContentSettles
  \/ OldSettles \/ CommitSettles \/ FinishSettles \/ NextCard

Controller == FlushFires \/ \E t \in text..MaxText : CompleteGoesOn(t)

Next ==
  \/ Requests \/ Controller \/ Abort \/ UsageNote
  \/ \E t \in text..MaxText : Fed(t) \/ Result(t)

Spec == Init /\ [][Next]_vars

\* Requests settle, timers fire and promises go on.
FairSpec == Spec /\ WF_vars(Requests) /\ WF_vars(Controller)

-----------------------------------------------------------------------------
(* Properties.                                                             *)

AtRest ==
  /\ queue = <<>> /\ old = <<>> /\ fin = NoFin /\ call = "none"
  /\ creating.level = "none"

\* Once a card shows its end - completed, aborted, or frozen with the text
\* going on in the next card - no late flush, no request of the chain of a
\* degraded backend and no late creation makes it look alive again.
NoRepaint ==
  [][\A i \in DOMAIN cards :
       cards[i].face # "streaming" => cards'[i].face # "streaming"]_vars

\* When all requests have settled, no card of a finished session still looks
\* alive, except one whose last update did not arrive.
NoZombie ==
  AtRest /\ state \in Final \cup {"error"}
    => \A i \in DOMAIN cards : cards[i].face = "streaming" => cards[i].missed

\* How much of a reply of length t the cards show when none says that text is
\* missing: all of it on cards of MultiCardManager and after a split, and on a
\* reply card what its sections leave.
Visible(m, s, t) == IF m = "v1" \/ s THEN t ELSE Body[t]

\* A reply that the run believes to be on the card is there: the last card is
\* shown as completed and goes to the end of the reply - on a reply card, to
\* the end of what splitIntoBodySections leaves, which may clip it and only
\* puts "..." there - or a card says that text is missing; and it stays so,
\* though a usage note may replace the mark by the clipped reply.  Not so if
\* the card was aborted from outside while complete waited for its creation.
ReplyIsShown ==
  told = "card" /\ ~overruled
    => \/ \E i \in DOMAIN cards : cards[i].cut
       \/ LET last == cards[Len(cards)] IN
          /\ last.face = "completed"
          /\ last.to = Visible(mode, split, text)

\* Successive cards meet, from the beginning of the reply: what rollovers,
\* splits and their retries leave in one card goes on in the next, nothing
\* lost and nothing twice.  Not so if the card could not be frozen, or complete
\* has failed and the reply is sent as a plain message.
CardsMeet ==
  /\ cards # <<>> => cards[1].from = 0
  /\ \A i \in DOMAIN cards :
       /\ i < Len(cards) /\ cards[i].face = "frozen" /\ ~cards[i].missed
       /\ call # "fallback" /\ told # "plain"
       => cards[i].to = cards[i + 1].from

\* The run is never left waiting for the card: complete returns, or the reply
\* goes out as a plain message.
ReplySettles == call # "none" ~> told # "none"
=============================================================================
