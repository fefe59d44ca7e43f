------------------------- MODULE StreamingCardProofs -------------------------
(***************************************************************************)
(* Proofs about StreamingCard, for any length of the reply and any sizes    *)
(* and bounds: every variable keeps its type, a finished card never looks   *)
(* alive again, none is left looking alive, successive cards meet, and a    *)
(* reply that the run believes to be on the card is there.                  *)
(***************************************************************************)
EXTENDS StreamingCard, SequenceTheorems, TLAPS

\* What a flush puts into the chain of a backend.
StreamJob(m, j) ==
  /\ j.face = "streaming" /\ ~j.tail
  /\ j.op \in IF m = "streaming" THEN {"content", "retry"} ELSE {"commit"}

\* What a finalization to goal g puts there, for a reply of length t.
FinalJob(m, g, t, j) ==
  /\ j.face = FaceOf(g) /\ j.len = t
  /\ j.op = IF m = "streaming" THEN "finish" ELSE "commit"

\* A finalization has a request in the chain.
Awaits(f) == f.step \notin {"none", "next"}

\* The chain holds flushes of a card that is streaming, and behind them at most
\* one request of a finalization, which stays the last.
Ordered(q, m, f, st, t) ==
  /\ \A i \in 1..Len(q) :
       /\ i < Len(q) \/ ~Awaits(f) => StreamJob(m, q[i])
       /\ i > 1 => ~q[i].rolled /\ ~q[i].tail
       /\ q[i].len <= t
  /\ Awaits(f) => Len(q) > 0 /\ FinalJob(m, f.goal, t, q[Len(q)])
  /\ st # "streaming" /\ ~Awaits(f) => Len(q) = 0
  /\ Len(q) <= IF Awaits(f) THEN MaxQueue + 1 ELSE MaxQueue

QueueInv == Ordered(queue, mode, fin, state, text)

\* What a finalization of each kind says about the session.
FinInv ==
  /\ fin.goal = "none" <=> fin = NoFin
  /\ fin.step = "none" <=> fin = NoFin
  /\ state \in {"idle", "creating", "streaming"} => fin = NoFin
  /\ fin.goal = "completed" => state = "completed" /\ call = "completing"
  /\ fin.goal = "usage" =>
       /\ state = "completed" /\ told = "card" /\ call = "none"
       /\ mode = "streaming" => fin.step = "full" /\ ~split
  /\ fin.goal = "giveup" => state = "error" /\ mode # "streaming"
  /\ fin.goal = "aborted" =>
       state = "aborted" /\ (call = "fallback" \/ overruled)
  /\ fin # NoFin => (fin.step = "commit" <=> mode # "streaming") /\ cards # <<>>
  /\ fin.step \in {"first", "next"} => text > Limit /\ split
  /\ fin.step = "next" => Slice <= fin.at /\ fin.at < text
  /\ fin.goal = "completed" /\ fin.step \in {"disable", "full"} => ~split

\* Before the card is there, and the calls of the run.
LifeInv ==
  /\ cards = <<>> =>
       /\ queue = <<>> /\ old = <<>> /\ fin = NoFin /\ mine = 0 /\ frozen = 0
       /\ ~armed /\ ~split /\ fails = 0
  /\ cards # <<>> =>
       mine >= 1 /\ creating.level = "none" /\ state \notin {"idle", "creating"}
  /\ creating.level # "none" => state \in {"creating", "aborted"}
  /\ state = "creating" => creating.level # "none"
  /\ state = "idle" => call = "none"
  /\ state \in {"streaming", "completed"} => cards # <<>>
  /\ overruled => state \in {"aborted", "error"}
  /\ state = "aborted" /\ (call = "waiting" \/ creating.level # "none")
       => overruled
  /\ call = "completing" => fin.goal = "completed"
  /\ call = "fallback" => fin.goal = "aborted" /\ ~overruled
  /\ call = "waiting" => state # "completed" /\ fin.goal # "giveup"
  /\ call # "none" => told = "none"
  /\ old # <<>> => mode = "v1"
  /\ mode = "streaming" => fails < MaxPatchFailures
  /\ split => mode = "streaming" /\ state # "streaming"

\* The commit needs one card more than it has.
Rolls(m, fr, j) ==
  m = "v1" /\ ~j.tail /\ j.len - fr > (IF j.rolled THEN Slice ELSE Limit)

\* The cards that are there, and the offset.
RollInv ==
  cards # <<>> =>
    /\ mode # "v1" => mine = 1
    /\ mine = 1 => frozen = 0
    /\ mode = "streaming" /\ ~split => Len(cards) = 1
    /\ mode # "streaming" =>
         \/ Len(cards) = mine
         \/ Len(cards) = mine + 1 /\ queue # <<>> /\ Rolls(mode, frozen, queue[1])
    /\ queue # <<>> /\ queue[1].tail =>
         mode = "v1" /\ queue[1].len - frozen > Slice /\ Len(cards) = mine

Base == TypeOK /\ QueueInv /\ FinInv /\ LifeInv /\ RollInv

\* The card that the next request is for.
Current == IF mode = "streaming" THEN 1 ELSE mine

\* The card does not look alive, or has missed its last update.
Ended(c) == c.face # "streaming" \/ c.missed

\* What the cards show: those that are left, the one that is opened ahead, the
\* one that the next request is for, and the first of a split.
FacesInv ==
  cards # <<>> =>
    /\ \A i \in 1..Len(cards) :
         i # Current /\ (mode = "streaming" \/ i # mine + 1) => Ended(cards[i])
    /\ mode # "streaming" /\ Len(cards) = mine + 1
         => /\ cards[mine + 1].face = "streaming"
            /\ cards[mine + 1].from = frozen + Slice
    /\ state # "streaming" /\ fin = NoFin => Ended(cards[Current])
    /\ state = "streaming" \/ Len(queue) > 1 => cards[Current].face = "streaming"
    /\ \A i \in 1..Len(cards) : cards[i].slots => cards[i].face # "frozen" /\ i = 1
    /\ queue # <<>> /\ queue[1].tail
         => cards[mine].to = frozen + Slice /\ cards[mine].face = "frozen"
    /\ fin.step = "next" => cards[1].face # "streaming"

\* The reply is not sent as a plain message.
Going == call # "fallback" /\ told # "plain"

\* Where the cards begin and end.
MeetInv ==
  cards # <<>> =>
    /\ cards[1].from = 0
    /\ mode # "streaming" /\ (queue # <<>> \/ state = "streaming")
         => cards[mine].from = frozen
    /\ Going =>
         /\ \A i \in 1..Len(cards) :
              i < Len(cards) /\ cards[i].face = "frozen" /\ ~cards[i].missed
                => cards[i].to = cards[i + 1].from
         /\ fin.step \in {"disable", "full", "first"} => Len(cards) = 1
         /\ fin.step = "next" /\ cards[Len(cards)].face = "frozen"
              /\ ~cards[Len(cards)].missed => cards[Len(cards)].to = fin.at
         /\ mode # "streaming" /\ queue # <<>> /\ ~queue[1].tail
              /\ fin.goal # "usage" => cards[mine].face = "streaming"

\* What the user is to see of the reply.
Reply == Visible(mode, split, text)

\* A reply, t of it, is on the card.
OnCard(cs, t) ==
  \/ \E i \in 1..Len(cs) : cs[i].cut
  \/ cs[Len(cs)].face = "completed" /\ cs[Len(cs)].to = t

ReplyInv ==
  told = "card" /\ ~overruled =>
    /\ state = "completed" /\ call = "none" /\ cards # <<>> /\ Len(queue) <= 1
    /\ OnCard(cards, Reply)
    /\ mode = "v1" /\ mine = 1 => text <= Slice
    /\ mode # "streaming" /\ fin.goal = "usage" => mine = 1
    /\ mode = "v1" => ~cards[Len(cards)].slots

Showing == FacesInv /\ MeetInv /\ ReplyInv

IInv == Base /\ Showing

-----------------------------------------------------------------------------
(* Jobs and chains.                                                        *)

Modes == {"streaming", "v1", "legacy"}
Goals == Final \cup {"usage", "giveup"}

LEMMA CardSizes ==
  /\ MaxText \in Nat /\ Slice \in Nat /\ Slice > 0 /\ Limit \in Nat
  /\ Slice <= Limit /\ Limit <= Slice + Slice /\ MaxQueue \in Nat /\ MaxQueue > 0
  /\ MaxPatchFailures \in Nat /\ MaxPatchFailures > 0 /\ MaxFailures \in Nat
  BY CardSizesAssumption, CardBoundsAssumption

LEMMA OneOrMore == \A n \in Nat : n >= 1 => n = 1 \/ n > 1
  OBVIOUS

LEMMA JobTyped ==
  ASSUME NEW j \in Job
  PROVE  /\ j.face \in Final \cup {"streaming"} /\ j.len \in Nat /\ j.len <= MaxText
         /\ j.rolled \in BOOLEAN /\ j.tail \in BOOLEAN
  BY CardSizes DEF Job

LEMMA FaceOfGoal ==
  ASSUME NEW g \in Goals
  PROVE  FaceOf(g) \in Final /\ FaceOf(g) # "streaming"
  BY DEF FaceOf, Goals, Final

LEMMA NewJobTyped ==
  ASSUME NEW op \in {"content", "retry", "finish", "disable", "commit"},
         NEW face \in Final \cup {"streaming"}, NEW t \in 0..MaxText
  PROVE  /\ NewJob(op, face, t) \in Job
         /\ NewJob(op, face, t).op = op /\ NewJob(op, face, t).face = face
         /\ NewJob(op, face, t).len = t
         /\ ~NewJob(op, face, t).rolled /\ ~NewJob(op, face, t).tail
  BY DEF NewJob, Job

\* A job that is not a flush is the last.
LEMMA FinalIsLast ==
  ASSUME NEW q \in Seq(Job), NEW m, NEW f, NEW st, NEW t, Ordered(q, m, f, st, t),
         q # <<>>, ~StreamJob(m, q[1])
  PROVE  Len(q) = 1 /\ Tail(q) = <<>> /\ Awaits(f) /\ FinalJob(m, f.goal, t, q[1])
<1>1. Len(q) \in Nat /\ Len(q) >= 1
  BY EmptySeq, LenProperties
<1>2. ~(Len(q) > 1) /\ Awaits(f)
  BY <1>1 DEF Ordered
<1>3. Len(q) = 1
  BY <1>1, <1>2, OneOrMore
<1>4. Tail(q) = <<>>
  <2>1. Tail(q) \in Seq(Job) /\ Len(Tail(q)) = 0
    BY <1>3, HeadTailProperties
  <2> QED BY <2>1, EmptySeq
<1> QED BY <1>2, <1>3, <1>4 DEF Ordered

\* A flush leaves the chain.
LEMMA FlushLeaves ==
  ASSUME NEW q \in Seq(Job), NEW m, NEW f, NEW st, NEW t, Ordered(q, m, f, st, t),
         q # <<>>, q[1].face = "streaming", f.goal \in Goals \cup {"none"},
         Awaits(f) => f.goal \in Goals
  PROVE  /\ Tail(q) \in Seq(Job) /\ Ordered(Tail(q), m, f, st, t)
         /\ Len(Tail(q)) = Len(q) - 1
         /\ Tail(q) # <<>> => ~Tail(q)[1].tail
<1>1. /\ Tail(q) \in Seq(Job) /\ Len(Tail(q)) = Len(q) - 1
      /\ \A i \in 1..Len(Tail(q)) : Tail(q)[i] = q[i + 1]
  BY HeadTailProperties
<1>2. Len(q) \in Nat /\ Len(q) >= 1 /\ MaxQueue \in Nat
  BY EmptySeq, LenProperties, CardSizes
<1>3. Awaits(f) => Len(q) > 1
  <2> SUFFICES ASSUME Awaits(f), Len(q) = 1 PROVE FALSE
    BY <1>2, OneOrMore
  <2>1. q[1].face = FaceOf(f.goal)
    BY DEF Ordered, FinalJob
  <2> QED BY <2>1, FaceOfGoal
<1>4. ASSUME NEW i \in 1..Len(Tail(q))
      PROVE  /\ i < Len(Tail(q)) \/ ~Awaits(f) => StreamJob(m, Tail(q)[i])
             /\ i > 1 => ~Tail(q)[i].rolled /\ ~Tail(q)[i].tail
             /\ Tail(q)[i].len <= t
  <2>1. i + 1 \in 1..Len(q) /\ Tail(q)[i] = q[i + 1] /\ i + 1 > 1
        /\ (i < Len(Tail(q)) => i + 1 < Len(q))
    BY <1>1, <1>2
  <2> QED BY <2>1 DEF Ordered
<1>5. Awaits(f) => Len(Tail(q)) > 0 /\ FinalJob(m, f.goal, t, Tail(q)[Len(Tail(q))])
  <2> SUFFICES ASSUME Awaits(f)
               PROVE  Len(Tail(q)) > 0 /\ FinalJob(m, f.goal, t, Tail(q)[Len(Tail(q))])
    OBVIOUS
  <2>1. Len(Tail(q)) \in 1..Len(Tail(q)) /\ Len(Tail(q)) + 1 = Len(q)
    BY <1>1, <1>2, <1>3
  <2>2. Tail(q)[Len(Tail(q))] = q[Len(q)]
    BY <1>1, <2>1
  <2> QED BY <2>1, <2>2 DEF Ordered
<1>6. /\ st # "streaming" /\ ~Awaits(f) => Len(Tail(q)) = 0
      /\ Len(Tail(q)) <= IF Awaits(f) THEN MaxQueue + 1 ELSE MaxQueue
  BY <1>1, <1>2 DEF Ordered
<1>7. Ordered(Tail(q), m, f, st, t)
  BY <1>4, <1>5, <1>6 DEF Ordered
<1>8. Tail(q) # <<>> => ~Tail(q)[1].tail
  <2> SUFFICES ASSUME Tail(q) # <<>> PROVE ~Tail(q)[1].tail
    OBVIOUS
  <2>1. 1 \in 1..Len(Tail(q))
    BY <1>1, EmptySeq, LenProperties
  <2>2. Tail(q)[1] = q[2] /\ 2 \in 1..Len(q)
    BY <1>1, <1>2, <2>1
  <2> QED BY <2>2 DEF Ordered
<1> QED BY <1>1, <1>7, <1>8

\* A flush joins the chain.
LEMMA FlushJoins ==
  ASSUME NEW q \in Seq(Job), NEW m, NEW f, NEW t \in 0..MaxText, NEW j \in Job,
         Ordered(q, m, f, "streaming", t), ~Awaits(f), Len(q) < MaxQueue,
         StreamJob(m, j), ~j.rolled, j.len <= t
  PROVE  /\ Append(q, j) \in Seq(Job) /\ Ordered(Append(q, j), m, f, "streaming", t)
         /\ q # <<>> => Append(q, j)[1] = q[1]
         /\ q = <<>> => Append(q, j)[1] = j
<1> DEFINE r == Append(q, j)
<1>1. /\ r \in Seq(Job) /\ Len(r) = Len(q) + 1
      /\ \A i \in 1..Len(q) : r[i] = q[i]
      /\ r[Len(q) + 1] = j /\ Len(q) \in Nat
  BY AppendProperties, LenProperties
<1>2. q # <<>> => 1 \in 1..Len(q)
  BY <1>1, EmptySeq
<1>3. q = <<>> => Len(q) = 0
  BY EmptySeq
<1> HIDE DEF r
<1>4. ASSUME NEW i \in 1..Len(r)
      PROVE  /\ StreamJob(m, r[i]) /\ (i > 1 => ~r[i].rolled /\ ~r[i].tail)
             /\ r[i].len <= t
  <2>1. i \in 1..Len(q) \/ i = Len(q) + 1
    BY <1>1
  <2>2. CASE i \in 1..Len(q)
    BY <1>1, <2>2 DEF Ordered
  <2>3. CASE i = Len(q) + 1
    BY <1>1, <2>3 DEF StreamJob
  <2> QED BY <2>1, <2>2, <2>3
<1>5. Len(r) <= MaxQueue
  BY <1>1, CardSizes
<1>6. Ordered(r, m, f, "streaming", t)
  BY <1>4, <1>5 DEF Ordered
<1>7. (q # <<>> => r[1] = q[1]) /\ (q = <<>> => r[1] = j)
  BY <1>1, <1>2, <1>3
<1> QED BY <1>1, <1>6, <1>7 DEF r

\* The text grows.
LEMMA OrderedGrows ==
  ASSUME NEW q \in Seq(Job), NEW m, NEW f, NEW st, NEW t \in Nat, NEW u \in Nat,
         Ordered(q, m, f, st, t), ~Awaits(f), t <= u
  PROVE  Ordered(q, m, f, st, u)
<1>1. ASSUME NEW i \in 1..Len(q) PROVE q[i].len <= u
  <2>1. q[i] \in Job /\ q[i].len <= t
    BY LenProperties DEF Ordered
  <2>2. q[i].len \in Nat
    BY <2>1, JobTyped
  <2> QED BY <2>1, <2>2
<1> QED BY <1>1 DEF Ordered

-----------------------------------------------------------------------------
(* Finalization.                                                           *)

Fin == [goal : Final \cup {"none", "usage", "giveup"},
        step : {"none", "disable", "full", "first", "next", "cut", "commit"},
        at : 0..MaxText]

\* What the call of a finalization does to the chain.
LEMMA FinalizeOrders ==
  ASSUME NEW q \in Seq(Job), NEW m \in Modes, NEW st0, NEW st,
         Ordered(q, m, NoFin, st0, text'),
         NEW g \in Goals, text' \in 0..MaxText, Finalize(m, g, text', q)
  PROVE  /\ fin' \in Fin /\ fin' # NoFin /\ fin'.goal = g /\ Awaits(fin')
         /\ fin'.step = "commit" <=> m # "streaming"
         /\ fin'.step \notin {"first", "next", "none"}
         /\ m = "streaming" /\ g = "usage" => fin'.step = "full"
         /\ queue' \in Seq(Job) /\ queue' # <<>> /\ Len(queue') = Len(q) + 1
         /\ Ordered(queue', m, fin', st, text')
         /\ q # <<>> => queue'[1] = q[1]
         /\ q = <<>> => ~queue'[1].tail /\ ~queue'[1].rolled /\ queue'[1].len = text'
                        /\ queue'[1].face = FaceOf(g)
<1> DEFINE j == NewJob(IF m = "streaming" THEN "finish" ELSE "commit", FaceOf(g), text')
           r == Append(q, j)
<1>1. FaceOf(g) \in Final
  BY FaceOfGoal
<1>2. /\ j \in Job /\ j.face = FaceOf(g) /\ j.len = text' /\ ~j.rolled /\ ~j.tail
      /\ j.op = IF m = "streaming" THEN "finish" ELSE "commit"
  BY <1>1, NewJobTyped
<1>3. queue' = r
  BY DEF Finalize
<1>4. fin' = [goal |-> g, at |-> 0,
              step |-> IF m # "streaming" THEN "commit"
                       ELSE IF g = "usage" THEN "full" ELSE "disable"]
  BY DEF Finalize
<1>5. /\ fin' \in Fin /\ fin' # NoFin /\ fin'.goal = g /\ Awaits(fin')
      /\ fin'.step = "commit" <=> m # "streaming"
      /\ fin'.step \notin {"first", "next", "none"}
      /\ m = "streaming" /\ g = "usage" => fin'.step = "full"
  BY <1>4, CardSizes DEF Fin, Goals, Final, Awaits, NoFin
<1> HIDE DEF j
<1>6. /\ r \in Seq(Job) /\ Len(r) = Len(q) + 1 /\ r # <<>>
      /\ \A i \in 1..Len(q) : r[i] = q[i]
      /\ r[Len(q) + 1] = j /\ Len(q) \in Nat
  BY <1>2, AppendProperties, LenProperties
<1>7. q # <<>> => 1 \in 1..Len(q)
  BY <1>6, EmptySeq
<1>8. q = <<>> => Len(q) = 0
  BY EmptySeq
<1> HIDE DEF r
<1>9. ~Awaits(NoFin)
  BY DEF Awaits, NoFin
<1>10. ASSUME NEW i \in 1..Len(r)
       PROVE  /\ i < Len(r) => StreamJob(m, r[i])
              /\ i > 1 => ~r[i].rolled /\ ~r[i].tail
              /\ r[i].len <= text'
  <2>1. i \in 1..Len(q) \/ i = Len(q) + 1
    BY <1>6
  <2>2. CASE i \in 1..Len(q)
    <3>1. r[i] = q[i]
      BY <1>6, <2>2
    <3> QED BY <1>9, <2>2, <3>1 DEF Ordered
  <2>3. CASE i = Len(q) + 1
    <3>1. r[i] = j /\ ~(i < Len(r)) /\ text' <= text'
      BY <1>6, <2>3
    <3> QED BY <1>2, <3>1
  <2> QED BY <2>1, <2>2, <2>3
<1>11. r[Len(r)] = j /\ Len(r) > 0
  BY <1>6
<1>12. Len(r) <= MaxQueue + 1
  BY <1>6, <1>9, CardSizes DEF Ordered
<1>13. FinalJob(m, fin'.goal, text', r[Len(r)])
  BY <1>2, <1>5, <1>11 DEF FinalJob
<1>14. Ordered(r, m, fin', st, text')
  BY <1>5, <1>10, <1>11, <1>12, <1>13 DEF Ordered
<1>15. /\ q # <<>> => r[1] = q[1]
       /\ q = <<>> => r[1] = j
  BY <1>6, <1>7, <1>8
<1> QED BY <1>2, <1>3, <1>5, <1>6, <1>14, <1>15

LEMMA EmptyOrdered ==
  ASSUME NEW m, NEW st, NEW t
  PROVE  /\ <<>> \in Seq(Job) /\ Len(<<>>) = 0
         /\ Ordered(<<>>, m, NoFin, st, t) /\ ~Awaits(NoFin)
<1>1. <<>> \in Seq(Job) /\ Len(<<>>) = 0
  BY EmptySeq
<1>2. ~Awaits(NoFin)
  BY DEF Awaits, NoFin
<1> QED BY <1>1, <1>2, CardSizes DEF Ordered

\* The next step of a finalization of a streaming card.
LEMMA StepOrders ==
  ASSUME fin \in Fin, fin.goal \in Goals, text \in 0..MaxText, NEW st,
         NEW step \in {"full", "first", "cut"}, Step(step, <<>>)
  PROVE  /\ fin' \in Fin /\ fin' # NoFin /\ fin'.goal = fin.goal
         /\ fin'.step = step /\ Awaits(fin')
         /\ queue' \in Seq(Job) /\ Len(queue') = 1 /\ queue' # <<>>
         /\ ~queue'[1].tail
         /\ Ordered(queue', "streaming", fin', st, text)
         /\ UNCHANGED <<state, call, told>>
<1> DEFINE j == NewJob("finish", FaceOf(fin.goal), text)
<1>1. FaceOf(fin.goal) \in Final
  BY FaceOfGoal
<1>2. /\ j \in Job /\ j.face = FaceOf(fin.goal) /\ j.len = text /\ ~j.rolled /\ ~j.tail
      /\ j.op = "finish"
  BY <1>1, NewJobTyped
<1>3. queue' = Append(<<>>, j) /\ fin' = [fin EXCEPT !.step = step]
      /\ UNCHANGED <<state, call, told>>
  BY DEF Step
<1>4. /\ fin' \in Fin /\ fin'.goal = fin.goal /\ fin'.step = step /\ Awaits(fin')
  BY <1>3 DEF Fin, Awaits
<1>5. fin' # NoFin
  BY <1>4 DEF NoFin
<1> HIDE DEF j
<1>6. /\ queue' \in Seq(Job) /\ Len(queue') = 1 /\ queue'[1] = j /\ queue' # <<>>
  <2>1. <<>> \in Seq(Job) /\ Len(<<>>) = 0
    BY EmptySeq
  <2> QED BY <1>2, <1>3, <2>1, AppendProperties
<1>7. text <= text /\ 1 <= MaxQueue + 1
  BY CardSizes
<1>8. Ordered(queue', "streaming", fin', st, text)
  BY <1>2, <1>4, <1>6, <1>7 DEF Ordered, FinalJob
<1> QED BY <1>2, <1>3, <1>4, <1>5, <1>6, <1>8

\* What a step of a finalization leaves alone.
Frame ==
  /\ UNCHANGED <<mode, text, creating, armed, old, overruled>>
  /\ cards' # <<>> /\ mine' >= 1
  /\ mode = "streaming" => fails' = fails

\* A finalization goes on with its next step.
LEMMA StepKeeps ==
  ASSUME Base, Frame, fin # NoFin, mode = "streaming",
         NEW step \in {"full", "first", "cut"}, Step(step, <<>>),
         fin.goal # "usage", (step = "first" => text > Limit /\ split'),
         (step = "full" /\ fin.goal = "completed" => ~split'),
         split' \in BOOLEAN, split => split'
  PROVE  /\ fin' \in Fin /\ queue' \in Seq(Job) /\ QueueInv' /\ FinInv' /\ LifeInv'
         /\ UNCHANGED <<state, call, told>>
         /\ fin'.step = step /\ fin'.goal = fin.goal
         /\ queue' # <<>> /\ Len(queue') = 1 /\ ~queue'[1].tail
<1>1. fin \in Fin /\ text \in 0..MaxText
  BY DEF Base, TypeOK, Fin
<1>2. fin.goal \in Goals /\ state \notin {"idle", "creating", "streaming"}
  BY <1>1 DEF Base, FinInv, Fin, Goals
<1>3. /\ fin' \in Fin /\ fin' # NoFin /\ fin'.goal = fin.goal
      /\ fin'.step = step /\ Awaits(fin')
      /\ queue' \in Seq(Job) /\ Len(queue') = 1 /\ queue' # <<>>
      /\ ~queue'[1].tail
      /\ Ordered(queue', "streaming", fin', state, text)
      /\ UNCHANGED <<state, call, told>>
  BY <1>1, <1>2, StepOrders
<1>4. QueueInv'
  BY <1>3 DEF QueueInv, Frame
<1>5. FinInv'
  BY <1>2, <1>3 DEF Base, FinInv, Frame, NoFin
<1>6. LifeInv'
  BY <1>2, <1>3 DEF Base, LifeInv, Frame
<1> QED BY <1>3, <1>4, <1>5, <1>6

\* A finalization returns or throws.
LEMMA FinishedKeeps ==
  ASSUME Base, Frame, fin # NoFin, split' = split, NEW ok \in BOOLEAN,
         Finished(ok, <<>>)
  PROVE  /\ fin' \in Fin /\ queue' \in Seq(Job) /\ QueueInv' /\ FinInv' /\ LifeInv'
         /\ queue' # <<>> => /\ call' = "fallback" /\ Len(queue') = 1
                             /\ ~queue'[1].tail /\ state' = "aborted"
         /\ queue' = <<>> => fin' = NoFin /\ state' = state
         /\ state' \in Final \cup {"error"}
         /\ call' \in {"none", "waiting", "fallback"} /\ told' \in {"none", "card", "plain"}
         /\ fin'.step \notin {"first", "next"}
         /\ told' = told \/ told' = "plain"
              \/ (told' = "card" /\ ok /\ fin.goal = "completed" /\ queue' = <<>>)
         /\ call = "fallback" => call' = "fallback" \/ told' = "plain"
         /\ told = "plain" => told' = "plain"
<1>1. fin \in Fin /\ text \in 0..MaxText /\ mode \in Modes
      /\ told \in {"none", "card", "plain"}
      /\ call \in {"none", "waiting", "completing", "fallback"}
  BY DEF Base, TypeOK, Fin, Modes
<1>2. /\ fin.goal \in Goals /\ state \in Final \cup {"error"}
      /\ text' = text /\ mode' = mode
  BY <1>1 DEF Base, TypeOK, FinInv, Fin, Goals, Frame, Final
<1>3. CASE fin.goal = "completed" /\ ~ok
  <2>1. /\ state' = "aborted" /\ call' = "fallback" /\ told' = told
        /\ Finalize(mode, "aborted", text', <<>>)
    BY <1>2, <1>3 DEF Finished
  <2>2. /\ Ordered(<<>>, mode, NoFin, state, text') /\ <<>> \in Seq(Job)
        /\ Len(<<>>) = 0 /\ "aborted" \in Goals
    BY EmptyOrdered DEF Goals, Final
  <2>3. /\ fin' \in Fin /\ fin' # NoFin /\ fin'.goal = "aborted" /\ Awaits(fin')
        /\ fin'.step = "commit" <=> mode # "streaming"
        /\ fin'.step \notin {"first", "next", "none"}
        /\ queue' \in Seq(Job) /\ queue' # <<>> /\ Len(queue') = 0 + 1
        /\ Ordered(queue', mode, fin', state', text')
        /\ ~queue'[1].tail
    BY <1>1, <1>2, <2>1, <2>2, FinalizeOrders
  <2>4. QueueInv'
    BY <1>2, <2>3 DEF QueueInv
  <2>5. state = "completed" /\ call = "completing" /\ ~overruled /\ told = "none"
    BY <1>3 DEF Base, FinInv, LifeInv
  <2>6. FinInv'
    BY <2>1, <2>3, <1>2 DEF FinInv, Frame, NoFin
  <2>7. LifeInv'
    BY <2>1, <2>3, <2>5, <1>2 DEF Base, LifeInv, Frame
  <2>8. Len(queue') = 1
    BY <2>3
  <2> QED BY <1>1, <2>1, <2>3, <2>4, <2>5, <2>6, <2>7, <2>8 DEF Final
<1>4. CASE ~(fin.goal = "completed" /\ ~ok)
  <2>1. /\ fin' = NoFin /\ queue' = <<>> /\ state' = state
        /\ IF fin.goal \in Final /\ call # "waiting"
              THEN /\ call' = "none"
                   /\ told' = CASE call = "completing" -> "card"
                                [] call = "fallback" -> "plain"
                                [] OTHER -> told
              ELSE UNCHANGED <<call, told>>
    BY <1>4 DEF Finished
  <2>2. /\ fin' \in Fin /\ fin'.step = "none" /\ fin'.goal = "none"
    BY <2>1, CardSizes DEF Fin, NoFin
  <2>3. queue' \in Seq(Job) /\ QueueInv'
    BY <1>2, <2>1, EmptyOrdered DEF QueueInv
  <2>4. FinInv'
    BY <2>1, <2>2 DEF FinInv
  <2>5. call' \in {"none", "waiting"} /\ (call' = "waiting" => call = "waiting" /\ told' = told)
    BY <1>1, <1>2, <2>1 DEF Base, FinInv, LifeInv, Goals, Final
  <2>6. LifeInv'
    BY <1>2, <2>1, <2>2, <2>5 DEF Base, LifeInv, Frame, Final
  <2>7. /\ told' \in {"none", "card", "plain"}
        /\ told' = told \/ told' = "plain"
             \/ (told' = "card" /\ ok /\ fin.goal = "completed")
    BY <1>1, <1>2, <1>4, <2>1 DEF Base, FinInv, LifeInv, Final
  <2>8. /\ call = "fallback" => told' = "plain"
        /\ told = "plain" => told' = "plain"
    BY <1>1, <2>1 DEF Base, LifeInv, Final
  <2> QED BY <1>2, <2>1, <2>2, <2>3, <2>4, <2>5, <2>6, <2>7, <2>8
<1> QED BY <1>3, <1>4

-----------------------------------------------------------------------------
(* Requests, cards and chains.                                             *)

Seqs == [old : 0..Top, new : 0..Top, last : 0..Top]

LEMMA OutcomeTyped ==
  ASSUME seq \in Seqs, failures \in 0..MaxFailures, NEW chain \in {"old", "new"},
         NEW i, NEW o \in Outcomes, Outcome(chain, i, o)
  PROVE  seq' \in Seqs /\ failures' \in 0..MaxFailures
<1>1. failures' \in 0..MaxFailures
  <2>1. failures' = failures \/ (failures < MaxFailures /\ failures' = failures + 1)
    BY DEF Outcome
  <2> QED BY <2>1, CardSizes
<1>2. seq' \in Seqs
  <2>1. \A n \in 0..Top : Following(n) \in 0..Top
    BY CardSizes DEF Following, Smaller, Top
  <2>2. Following(seq[chain]) \in 0..Top
    BY <2>1 DEF Seqs
  <2>3. CASE i = 1 /\ Overlap
    <3>1. PICK x \in 0..Top :
            seq' = [seq EXCEPT ![chain] = Following(seq[chain]), !.last = x]
      <4>1. seq.last \in 0..Top
        BY DEF Seqs
      <4>2. seq' = [seq EXCEPT ![chain] = Following(seq[chain]),
                      !.last = IF o = "failed" THEN seq.last ELSE Following(seq[chain])]
        BY <2>3 DEF Outcome
      <4> QED BY <2>2, <4>1, <4>2
    <3>2. CASE chain = "old"
      BY <2>2, <3>1, <3>2 DEF Seqs
    <3>3. CASE chain = "new"
      BY <2>2, <3>1, <3>3 DEF Seqs
    <3> QED BY <3>2, <3>3
  <2>4. CASE ~(i = 1 /\ Overlap)
    BY <2>4 DEF Outcome
  <2> QED BY <2>3, <2>4
<1> QED BY <1>1, <1>2

LEMMA ShownTyped ==
  ASSUME NEW face \in Final \cup {"streaming", "frozen"}, NEW k \in 0..MaxText,
         NEW n \in 0..MaxText
  PROVE  /\ Shown(face, k, n) \in Card
         /\ Shown(face, k, n).face = face /\ Shown(face, k, n).from = k
         /\ Shown(face, k, n).to = n /\ ~Shown(face, k, n).missed
         /\ ~Shown(face, k, n).slots /\ ~Shown(face, k, n).cut
  BY DEF Shown, Card

\* Sections or not, a card has its type.
LEMMA StructuredTyped ==
  ASSUME NEW face \in Final \cup {"streaming", "frozen"}, NEW t \in 0..MaxText
  PROVE  /\ Structured(face, t) \in Card
         /\ Structured(face, t).face = face /\ Structured(face, t).from = 0
         /\ Structured(face, t).to = Body[t] /\ ~Structured(face, t).missed
         /\ ~Structured(face, t).slots /\ ~Structured(face, t).cut
<1>1. 0 \in 0..MaxText /\ Body[t] \in 0..MaxText
  BY CardSizes, SectionsAssumption
<1> QED BY <1>1, ShownTyped DEF Structured

\* A card that misses an update.
Missed(c, d) ==
  /\ d.missed /\ d.face = c.face /\ d.from = c.from /\ d.to = c.to /\ d.cut = c.cut
  /\ d.slots = c.slots

LEMMA MissedTyped ==
  ASSUME NEW c \in Card
  PROVE  [c EXCEPT !.missed = TRUE] \in Card /\ Missed(c, [c EXCEPT !.missed = TRUE])
  BY DEF Card, Missed

\* One card becomes x.
Becomes(i, x) ==
  /\ cards' \in Seq(Card) /\ Len(cards') = Len(cards) /\ cards' # <<>>
  /\ cards'[i] = x /\ \A k \in 1..Len(cards) : k # i => cards'[k] = cards[k]

LEMMA CardBecomes ==
  ASSUME cards \in Seq(Card), NEW i \in 1..Len(cards), NEW x \in Card,
         cards' = [cards EXCEPT ![i] = x]
  PROVE  Becomes(i, x)
<1>1. /\ cards' \in Seq(Card) /\ Len(cards') = Len(cards)
      /\ \A k \in 1..Len(cards) : cards'[k] = IF k = i THEN x ELSE cards[k]
  BY ExceptSeq
<1>2. Len(cards) > 0
  BY LenProperties
<1>3. cards' # <<>>
  BY <1>1, <1>2, EmptySeq
<1> QED BY <1>1, <1>3 DEF Becomes

LEMMA CardShows ==
  ASSUME cards \in Seq(Card), NEW i \in 1..Len(cards), NEW card \in Card,
         NEW o, Shows(i, o, card)
  PROVE  \E x \in Card :
           /\ Becomes(i, x)
           /\ IF o = "failed" THEN Missed(cards[i], x) ELSE x = card
<1>1. cards[i] \in Card
  BY LenProperties
<1> DEFINE x == IF o = "failed" THEN [cards[i] EXCEPT !.missed = TRUE] ELSE card
<1>2. cards' = [cards EXCEPT ![i] = x]
  BY DEF Shows
<1>3. x \in Card /\ IF o = "failed" THEN Missed(cards[i], x) ELSE x = card
  BY <1>1, MissedTyped
<1> HIDE DEF x
<1> QED BY <1>2, <1>3, CardBecomes

LEMMA CardWaits ==
  ASSUME cards \in Seq(Card), NEW i \in 1..Len(cards), OpenFails(i),
         failures \in 0..MaxFailures
  PROVE  /\ failures' \in 0..MaxFailures
         /\ \E x \in Card : Becomes(i, x) /\ Missed(cards[i], x)
<1>1. cards[i] \in Card
  BY LenProperties
<1> DEFINE x == [cards[i] EXCEPT !.missed = TRUE]
<1>2. cards' = [cards EXCEPT ![i] = x]
  BY DEF OpenFails
<1>3. x \in Card /\ Missed(cards[i], x)
  BY <1>1, MissedTyped
<1> HIDE DEF x
<1>4. failures' \in 0..MaxFailures
  BY CardSizes DEF OpenFails
<1> QED BY <1>2, <1>3, <1>4, CardBecomes

\* One more card.
Added(x) ==
  /\ cards' \in Seq(Card) /\ Len(cards') = Len(cards) + 1 /\ cards' # <<>>
  /\ cards'[Len(cards) + 1] = x /\ \A k \in 1..Len(cards) : cards'[k] = cards[k]

LEMMA CardAdded ==
  ASSUME cards \in Seq(Card), NEW x \in Card, cards' = Append(cards, x)
  PROVE  Added(x)
  BY AppendProperties DEF Added

\* The first job of a chain is marked.
LEMMA HeadMarked ==
  ASSUME NEW q \in Seq(Job), NEW m, NEW f, NEW st, NEW t, Ordered(q, m, f, st, t),
         q # <<>>, NEW x \in Job, x.len = q[1].len,
         StreamJob(m, q[1]) => StreamJob(m, x),
         FinalJob(m, f.goal, t, q[1]) => FinalJob(m, f.goal, t, x)
  PROVE  LET r == [q EXCEPT ![1] = x] IN
         r \in Seq(Job) /\ Len(r) = Len(q) /\ r # <<>> /\ r[1] = x
         /\ Ordered(r, m, f, st, t)
<1> DEFINE r == [q EXCEPT ![1] = x]
<1>1. Len(q) \in Nat /\ Len(q) >= 1 /\ 1 \in 1..Len(q)
  BY EmptySeq, LenProperties
<1>2. /\ r \in Seq(Job) /\ Len(r) = Len(q)
      /\ \A i \in 1..Len(q) : r[i] = IF i = 1 THEN x ELSE q[i]
  BY <1>1, ExceptSeq
<1> HIDE DEF r
<1>3. r # <<>> /\ r[1] = x
  BY <1>1, <1>2, EmptySeq
<1>4. ASSUME NEW i \in 1..Len(r)
      PROVE  /\ i < Len(r) \/ ~Awaits(f) => StreamJob(m, r[i])
             /\ i > 1 => ~r[i].rolled /\ ~r[i].tail
             /\ r[i].len <= t
  BY <1>2 DEF Ordered
<1>5. Awaits(f) => Len(r) > 0 /\ FinalJob(m, f.goal, t, r[Len(r)])
  BY <1>1, <1>2 DEF Ordered
<1>6. Ordered(r, m, f, st, t)
  BY <1>2, <1>4, <1>5 DEF Ordered
<1> QED BY <1>2, <1>3, <1>6 DEF r

\* A mark does not change what else a job says.
LEMMA MarksTyped ==
  ASSUME NEW j \in Job
  PROVE  /\ LET x == [j EXCEPT !.op = "retry"] IN
              x \in Job /\ x.op = "retry" /\ x.face = j.face /\ x.len = j.len
                /\ x.tail = j.tail /\ x.rolled = j.rolled
         /\ LET x == [j EXCEPT !.rolled = TRUE] IN
              x \in Job /\ x.op = j.op /\ x.face = j.face /\ x.len = j.len
                /\ x.tail = j.tail /\ x.rolled
         /\ LET x == [j EXCEPT !.tail = TRUE] IN
              x \in Job /\ x.op = j.op /\ x.face = j.face /\ x.len = j.len
                /\ x.tail /\ x.rolled = j.rolled
  BY DEF Job

LEMMA HeadOf ==
  ASSUME NEW q \in Seq(Job), q # <<>>
  PROVE  Head(q) = q[1] /\ q[1] \in Job /\ Len(q) \in Nat /\ Len(q) >= 1
<1>1. Len(q) \in Nat /\ Len(q) >= 1
  BY EmptySeq, LenProperties
<1> QED BY <1>1, LenProperties

-----------------------------------------------------------------------------
(* Base is kept: creation, flushes and the run.                            *)

LEMMA BaseFields ==
  ASSUME Base
  PROVE  /\ fin \in Fin /\ seq \in Seqs /\ mode \in Modes /\ text \in 0..MaxText
         /\ text \in Nat /\ queue \in Seq(Job) /\ old \in Seq(Job)
         /\ cards \in Seq(Card) /\ mine \in 0..Len(cards) /\ mine \in Nat
         /\ frozen \in 0..MaxText
         /\ failures \in 0..MaxFailures /\ fails \in 0..MaxPatchFailures
         /\ state \in {"idle", "creating", "streaming", "error"} \cup Final
         /\ call \in {"none", "waiting", "completing", "fallback"}
         /\ fin # NoFin => fin.goal \in Goals
         /\ Awaits(fin) => fin.goal \in Goals /\ fin # NoFin
  BY CardSizes, LenProperties
     DEF Base, TypeOK, Fin, Seqs, Modes, FinInv, Goals, Awaits, NoFin

LEMMA OrderedShort ==
  ASSUME NEW q \in Seq(Job), NEW m, NEW f, NEW st, NEW t, Ordered(q, m, f, st, t)
  PROVE  Len(q) <= MaxQueue + 1
  BY CardSizes, LenProperties DEF Ordered

\* The type of what few steps change.
LEMMA TypedAgain ==
  ASSUME TypeOK, queue' \in Seq(Job), QueueInv', fin' \in Fin,
         text' \in 0..MaxText, split' \in BOOLEAN, armed' \in BOOLEAN,
         fails' \in 0..MaxPatchFailures,
         state' \in {"idle", "creating", "streaming", "error"} \cup Final,
         mode' \in Modes, call' \in {"none", "waiting", "completing", "fallback"},
         told' \in {"none", "card", "plain"}, seq' \in Seqs,
         failures' \in 0..MaxFailures,
         cards' \in Seq(Card), mine' \in 0..Len(cards'), frozen' \in 0..MaxText,
         old' \in Seq(Job), Len(old') <= MaxQueue + 1, overruled' \in BOOLEAN,
         creating' = creating
  PROVE  TypeOK'
<1>1. Len(queue') <= MaxQueue + 1
  BY OrderedShort DEF QueueInv
<1> QED BY <1>1 DEF TypeOK, Fin, Seqs, Modes

LEMMA CreationFailsBase ==
  ASSUME Base, CreationFails
  PROVE  Base'
<1>1. /\ cards = <<>> /\ queue = <<>> /\ old = <<>> /\ fin = NoFin
      /\ state \in {"creating", "aborted"} /\ creating.level \in {"streaming", "v1", "legacy"}
  BY DEF Base, TypeOK, LifeInv, CreationFails
<1>2. UNCHANGED <<text, armed, fails, queue, old, seq, cards, mine, frozen, fin,
                  split, call, told, overruled, failures>>
  BY DEF CreationFails, backend, caller
<1>3. /\ creating' \in [level : {"none", "streaming", "v1", "legacy"}, initial : 0..MaxText]
      /\ IF creating.level = "legacy"
           THEN creating'.level = "none" /\ state' = "error" /\ mode' = "legacy"
           ELSE creating'.level # "none" /\ state' = state /\ mode' = mode
  BY <1>1 DEF Base, TypeOK, CreationFails
<1>4. TypeOK'
  BY <1>2, <1>3 DEF Base, TypeOK
<1>5. QueueInv'
  BY <1>1, <1>2, EmptyOrdered DEF QueueInv
<1>6. FinInv'
  BY <1>1, <1>2, <1>3 DEF Base, FinInv, NoFin
<1>7. LifeInv'
  BY <1>1, <1>2, <1>3, CardSizes DEF Base, LifeInv, Final
<1>8. RollInv'
  BY <1>1, <1>2 DEF RollInv
<1> QED BY <1>4, <1>5, <1>6, <1>7, <1>8 DEF Base

\* The card that has been sent.
LEMMA CreatedCard ==
  ASSUME Base, Created
  PROVE  /\ cards = <<>> /\ mode' \in {"streaming", "v1", "legacy"} /\ mine' = 1
         /\ cards' \in Seq(Card) /\ Len(cards') = 1 /\ cards' # <<>>
         /\ cards'[1].face = "streaming" /\ cards'[1].from = 0
         /\ queue = <<>> /\ old = <<>> /\ fin = NoFin /\ frozen = 0 /\ ~split
         /\ fails = 0 /\ state \in {"creating", "aborted"} /\ creating'.level = "none"
<1>1. /\ cards = <<>> /\ queue = <<>> /\ old = <<>> /\ fin = NoFin /\ frozen = 0
      /\ ~split /\ fails = 0
      /\ state \in {"creating", "aborted"} /\ creating.level \in {"streaming", "v1", "legacy"}
      /\ creating'.level = "none" /\ mine' = 1 /\ mode' = creating.level
      /\ creating.initial \in 0..MaxText
  BY DEF Base, TypeOK, LifeInv, Created
<1> DEFINE s == Shown("streaming", 0, creating.initial)
           x == [s EXCEPT !.slots = creating.level = "streaming"]
<1>2. s \in Card /\ s.face = "streaming" /\ s.from = 0
  BY <1>1, ShownTyped, CardSizes
<1> HIDE DEF s
<1>3. x \in Card /\ x.face = "streaming" /\ x.from = 0
  BY <1>2 DEF Card
<1>4. cards' = <<x>>
  BY DEF Created, s
<1> HIDE DEF x
<1> QED BY <1>1, <1>3, <1>4

LEMMA CreatedBase ==
  ASSUME Base, Created
  PROVE  Base'
<1>1. /\ cards = <<>> /\ mode' \in Modes /\ mine' = 1
      /\ cards' \in Seq(Card) /\ Len(cards') = 1 /\ cards' # <<>>
      /\ queue = <<>> /\ old = <<>> /\ fin = NoFin /\ frozen = 0 /\ ~split
      /\ fails = 0 /\ state \in {"creating", "aborted"} /\ creating'.level = "none"
  BY CreatedCard DEF Modes
<1>2. UNCHANGED <<text, fails, old, seq, frozen, split, call, told, overruled, failures>>
  BY DEF Created, caller
<1>3. text' \in 0..MaxText /\ "aborted" \in Goals
  BY <1>2, BaseFields DEF Goals, Final
<1>4. /\ fin' \in Fin /\ queue' \in Seq(Job) /\ QueueInv' /\ armed' \in BOOLEAN
      /\ state' = (IF state = "creating" THEN "streaming" ELSE "aborted")
      /\ IF state = "creating" THEN fin' = NoFin /\ queue' = <<>>
         ELSE /\ fin' # NoFin /\ fin'.goal = "aborted" /\ Awaits(fin')
              /\ fin'.step = "commit" <=> mode' # "streaming"
              /\ fin'.step \notin {"first", "next", "none"}
              /\ queue' # <<>> /\ ~queue'[1].tail
  <2>1. CASE state = "creating"
    <3>1. state' = "streaming" /\ fin' = NoFin /\ queue' = <<>> /\ armed' = (text > 0)
      BY <1>1, <2>1 DEF Created
    <3>2. NoFin \in Fin
      BY CardSizes DEF NoFin, Fin
    <3> QED BY <2>1, <3>1, <3>2, EmptyOrdered DEF QueueInv
  <2>2. CASE state = "aborted"
    <3>1. /\ state' = "aborted" /\ armed' = armed
          /\ Finalize(mode', "aborted", text', <<>>)
      BY <1>1, <1>2, <2>2 DEF Created
    <3>2. Ordered(<<>>, mode', NoFin, state, text') /\ <<>> \in Seq(Job)
      BY EmptyOrdered
    <3>3. /\ fin' \in Fin /\ fin' # NoFin /\ fin'.goal = "aborted" /\ Awaits(fin')
          /\ fin'.step = "commit" <=> mode' # "streaming"
          /\ fin'.step \notin {"first", "next", "none"}
          /\ queue' \in Seq(Job) /\ queue' # <<>> /\ ~queue'[1].tail
          /\ Ordered(queue', mode', fin', state', text')
      BY <1>1, <1>3, <3>1, <3>2, FinalizeOrders
    <3> QED BY <2>2, <3>1, <3>3 DEF QueueInv, Base, TypeOK
  <2> QED BY <1>1, <2>1, <2>2
<1>5. creating' \in [level : {"none", "streaming", "v1", "legacy"}, initial : 0..MaxText]
  BY DEF Base, TypeOK, Created
<1>6. TypeOK'
  <2>1. Len(queue') <= MaxQueue + 1
    BY <1>4, OrderedShort DEF QueueInv
  <2>2. state' \in {"idle", "creating", "streaming", "error"} \cup Final
    BY <1>4 DEF Final
  <2> QED BY <1>1, <1>2, <1>4, <1>5, <2>1, <2>2 DEF Base, TypeOK, Fin, Modes
<1>a. /\ creating.level # "none" /\ NoFin.goal = "none" /\ NoFin.step = "none"
      /\ call \notin {"completing", "fallback"}
  BY <1>1 DEF Base, LifeInv, NoFin, Created
<1>b. /\ state = "aborted" => overruled
      /\ state = "creating" => ~overruled
  BY <1>1, <1>a DEF Base, LifeInv
<1>7. FinInv'
  <2>1. CASE state = "creating"
    BY <1>a, <1>4, <2>1 DEF FinInv
  <2>2. CASE state = "aborted"
    BY <1>a, <1>b, <1>1, <1>2, <1>4, <2>2 DEF FinInv, NoFin, Awaits
  <2> QED BY <1>1, <2>1, <2>2
<1>8. LifeInv'
  <2>1. CASE state = "creating"
    BY <1>a, <1>1, <1>2, <1>4, <2>1, CardSizes DEF Base, LifeInv
  <2>2. CASE state = "aborted"
    BY <1>a, <1>b, <1>1, <1>2, <1>4, <2>2, CardSizes DEF Base, LifeInv
  <2> QED BY <1>1, <2>1, <2>2
<1>9. RollInv'
  BY <1>1, <1>2, <1>4 DEF RollInv
<1> QED BY <1>4, <1>6, <1>7, <1>8, <1>9 DEF Base

\* The cards and the offset stay, and the head of the chain.
LEMMA RollKept ==
  ASSUME RollInv, UNCHANGED <<mode, mine, frozen>>, Len(cards') = Len(cards),
         cards' # <<>> => cards # <<>>,
         mode = "streaming" /\ ~split' => ~split,
         queue # <<>> => queue' # <<>> /\ queue'[1] = queue[1],
         queue = <<>> /\ queue' # <<>> => ~queue'[1].tail
  PROVE  RollInv'
  BY DEF RollInv

LEMMA FedBase ==
  ASSUME Base, NEW t \in text..MaxText, Fed(t)
  PROVE  Base'
<1>1. /\ text' = t /\ call = "none" /\ told = "none"
      /\ UNCHANGED <<mode, fails, old, seq, cards, mine, frozen, split, call, told,
                     overruled, failures>>
  BY DEF Fed, caller
<1>2. t \in 0..MaxText /\ t \in Nat /\ text <= t
  BY BaseFields, CardSizes
<1>3. /\ old' \in Seq(Job) /\ Len(old') <= MaxQueue + 1 /\ overruled' \in BOOLEAN
      /\ mode' \in Modes /\ seq' \in Seqs /\ failures' \in 0..MaxFailures
      /\ fails' \in 0..MaxPatchFailures /\ split' \in BOOLEAN
      /\ cards' \in Seq(Card) /\ mine' \in 0..Len(cards') /\ frozen' \in 0..MaxText
      /\ call' \in {"none", "waiting", "completing", "fallback"}
      /\ told' \in {"none", "card", "plain"} /\ text' \in 0..MaxText
  BY <1>1, <1>2, BaseFields DEF Base, TypeOK
<1>4. /\ queue \in Seq(Job) /\ fin \in Fin /\ armed \in BOOLEAN
  BY BaseFields DEF Base, TypeOK
<1>5. /\ NoFin.goal = "none" /\ NoFin.step = "none" /\ ~Awaits(NoFin)
  BY DEF NoFin, Awaits
<1>6. CASE state = "idle"
  <2>1. /\ state' = "creating" /\ creating' = [level |-> "streaming", initial |-> t]
        /\ UNCHANGED <<armed, fin, queue>>
    BY <1>6 DEF Fed
  <2>2. cards = <<>> /\ queue = <<>> /\ fin = NoFin
    BY <1>6 DEF Base, LifeInv
  <2>3. TypeOK'
    BY <1>1, <1>3, <2>1 DEF Base, TypeOK
  <2>4. QueueInv'
    BY <2>1, <2>2, EmptyOrdered DEF QueueInv
  <2>5. FinInv'
    BY <1>5, <2>1, <2>2 DEF FinInv
  <2>6. LifeInv'
    BY <1>1, <1>5, <1>6, <2>1, <2>2 DEF Base, LifeInv
  <2>7. RollInv'
    BY <1>1, <2>2 DEF RollInv
  <2> QED BY <2>3, <2>4, <2>5, <2>6, <2>7 DEF Base
<1>7. CASE state = "creating"
  <2>1. UNCHANGED <<state, creating, armed, fin, queue>>
    BY <1>7 DEF Fed
  <2>2. cards = <<>> /\ queue = <<>> /\ fin = NoFin
    BY <1>7 DEF Base, LifeInv
  <2>3. TypeOK'
    BY <1>1, <1>3, <2>1 DEF Base, TypeOK
  <2>4. QueueInv'
    BY <2>1, <2>2, EmptyOrdered DEF QueueInv
  <2>5. FinInv'
    BY <1>5, <2>1, <2>2 DEF FinInv
  <2>6. LifeInv'
    BY <1>1, <1>5, <1>7, <2>1, <2>2 DEF Base, LifeInv
  <2>7. RollInv'
    BY <1>1, <2>2 DEF RollInv
  <2> QED BY <2>3, <2>4, <2>5, <2>6, <2>7 DEF Base
<1>8. CASE state = "streaming"
  <2>1. /\ cards # <<>> /\ fin = NoFin /\ creating' = creating
        /\ Ordered(queue, mode, NoFin, state, t)
    <3>1. cards # <<>> /\ fin = NoFin /\ creating' = creating
      BY <1>8 DEF Base, LifeInv, FinInv, Fed
    <3>2. Ordered(queue, mode, NoFin, state, text)
      BY <3>1 DEF Base, QueueInv
    <3> QED BY <1>2, <1>4, <1>5, <3>1, <3>2, OrderedGrows, BaseFields
  <2>2. CASE UNCHANGED <<state, fin, queue>> /\ armed' \in BOOLEAN
    <3>1. QueueInv'
      BY <1>1, <2>1, <2>2 DEF QueueInv
    <3>2. TypeOK'
      BY <1>3, <1>4, <1>8, <2>1, <2>2, <3>1, TypedAgain DEF Base
    <3>3. FinInv'
      BY <1>5, <2>1, <2>2 DEF FinInv
    <3>4. LifeInv'
      BY <1>1, <1>5, <1>8, <2>1, <2>2 DEF Base, LifeInv
    <3>5. RollInv'
      BY <1>1, <2>2 DEF Base, RollInv
    <3> QED BY <3>1, <3>2, <3>3, <3>4, <3>5 DEF Base
  <2>3. CASE /\ mode # "streaming" /\ state' = "error" /\ armed' = FALSE
             /\ Finalize(mode, "giveup", t, queue)
    <3>1. /\ fin' \in Fin /\ fin' # NoFin /\ fin'.goal = "giveup" /\ Awaits(fin')
          /\ fin'.step = "commit" /\ fin'.step # "none"
          /\ queue' \in Seq(Job) /\ queue' # <<>>
          /\ Ordered(queue', mode, fin', state', t)
          /\ queue # <<>> => queue'[1] = queue[1]
          /\ queue = <<>> => ~queue'[1].tail
      <4>1. Finalize(mode, "giveup", text', queue) /\ "giveup" \in Goals
            /\ Ordered(queue, mode, NoFin, state, text') /\ mode \in Modes
        BY <1>1, <2>1, <2>3, BaseFields DEF Goals
      <4> QED BY <1>1, <1>3, <1>4, <2>3, <4>1, FinalizeOrders
    <3>2. QueueInv'
      BY <1>1, <3>1 DEF QueueInv
    <3>3. TypeOK'
      BY <1>3, <2>1, <2>3, <3>1, <3>2, TypedAgain DEF Base
    <3>4. FinInv'
      BY <1>1, <1>5, <2>1, <2>3, <3>1 DEF FinInv
    <3>5. LifeInv'
      BY <1>1, <1>5, <1>8, <2>1, <2>3, <3>1 DEF Base, LifeInv
    <3>6. RollInv'
      BY <1>1, <3>1, RollKept DEF Base
    <3> QED BY <3>2, <3>3, <3>4, <3>5, <3>6 DEF Base
  <2>4. \/ UNCHANGED <<state, fin, queue>> /\ armed' \in BOOLEAN
        \/ /\ mode # "streaming" /\ state' = "error" /\ armed' = FALSE
           /\ Finalize(mode, "giveup", t, queue)
    BY <1>4, <1>8 DEF Fed, SchedulePatch
  <2> QED BY <2>2, <2>3, <2>4
<1> QED BY <1>6, <1>7, <1>8 DEF Fed

LEMMA FlushFiresBase ==
  ASSUME Base, FlushFires
  PROVE  Base'
<1>1. /\ armed /\ Len(queue) < MaxQueue /\ armed' = FALSE
      /\ UNCHANGED <<state, mode, text, creating, fails, old, seq, cards, mine, frozen,
                     fin, split, call, told, overruled, failures>>
  BY DEF FlushFires, caller
<1>2. cards # <<>>
  BY <1>1 DEF Base, LifeInv
<1>3. /\ queue' \in Seq(Job) /\ QueueInv'
      /\ queue # <<>> => queue' # <<>> /\ queue'[1] = queue[1]
      /\ queue = <<>> /\ queue' # <<>> => ~queue'[1].tail
  <2>1. CASE state # "streaming"
    BY <1>1, <2>1, BaseFields DEF FlushFires, Base, QueueInv
  <2>2. CASE state = "streaming"
    <3> DEFINE j == NewJob(IF mode = "streaming" THEN "content" ELSE "commit",
                           "streaming", text)
    <3>1. /\ j \in Job /\ StreamJob(mode, j) /\ ~j.rolled /\ ~j.tail /\ j.len = text
      <4>1. "streaming" \in Final \cup {"streaming"} /\ text \in 0..MaxText
        BY BaseFields
      <4>2. /\ j \in Job /\ ~j.rolled /\ ~j.tail /\ j.len = text /\ j.face = "streaming"
            /\ j.op = IF mode = "streaming" THEN "content" ELSE "commit"
        BY <4>1, NewJobTyped
      <4> HIDE DEF j
      <4> QED BY <4>2 DEF StreamJob
    <3>2. queue' = Append(queue, j)
      BY <2>2 DEF FlushFires
    <3> HIDE DEF j
    <3>3. ~Awaits(fin)
      BY <2>2 DEF Base, FinInv, Awaits
    <3>4. Ordered(queue, mode, fin, "streaming", text)
      BY <2>2 DEF Base, QueueInv
    <3>5. /\ Append(queue, j) \in Seq(Job)
          /\ Ordered(Append(queue, j), mode, fin, "streaming", text)
          /\ queue # <<>> => Append(queue, j)[1] = queue[1]
          /\ queue = <<>> => Append(queue, j)[1] = j
      <4>1. j.len <= text
        BY <3>1, BaseFields
      <4> QED BY <1>1, <3>1, <3>3, <3>4, <4>1, BaseFields, FlushJoins
    <3>6. Append(queue, j) # <<>>
      BY <3>1, BaseFields, AppendProperties
    <3> QED BY <1>1, <2>2, <3>1, <3>2, <3>5, <3>6 DEF QueueInv
  <2> QED BY <2>1, <2>2
<1>4. TypeOK'
  <2>1. Len(queue') <= MaxQueue + 1
    BY <1>3, OrderedShort DEF QueueInv
  <2>2. armed' \in BOOLEAN
    BY <1>1
  <2> QED BY <1>1, <1>3, <2>1, <2>2 DEF Base, TypeOK
<1>5. FinInv'
  BY <1>1 DEF Base, FinInv
<1>6. LifeInv'
  BY <1>1, <1>2 DEF Base, LifeInv
<1>7. RollInv'
  BY <1>1, <1>3, RollKept DEF Base
<1> QED BY <1>3, <1>4, <1>5, <1>6, <1>7 DEF Base

\* A push of text is in the chain only in streaming mode.
LEMMA PushInStreaming ==
  ASSUME Base, queue # <<>>, queue[1].op \in {"content", "retry"}
  PROVE  StreamJob(mode, queue[1]) /\ mode = "streaming"
<1>1. queue \in Seq(Job) /\ Ordered(queue, mode, fin, state, text)
  BY BaseFields DEF Base, QueueInv
<1>2. StreamJob(mode, queue[1])
  <2> SUFFICES ASSUME ~StreamJob(mode, queue[1]) PROVE FALSE
    OBVIOUS
  <2>1. FinalJob(mode, fin.goal, text, queue[1])
    BY <1>1, FinalIsLast
  <2> QED BY <2>1 DEF FinalJob
<1> QED BY <1>2 DEF StreamJob

LEMMA ContentExpiresBase ==
  ASSUME Base, ContentExpires
  PROVE  Base'
<1>1. /\ queue # <<>> /\ queue[1].op = "content" /\ queue \in Seq(Job)
      /\ queue[1] \in Job
      /\ UNCHANGED <<state, mode, text, creating, armed, fails, old, seq, cards, mine,
                     frozen, fin, split, call, told, overruled, failures>>
  BY BaseFields, HeadOf DEF ContentExpires, caller
<1>2. StreamJob(mode, queue[1]) /\ mode = "streaming"
  BY <1>1, PushInStreaming
<1> DEFINE x == [queue[1] EXCEPT !.op = "retry"]
<1>3. queue' = [queue EXCEPT ![1] = x]
  BY DEF ContentExpires
<1>4. /\ x \in Job /\ x.op = "retry" /\ x.face = queue[1].face
      /\ x.len = queue[1].len /\ x.tail = queue[1].tail
  BY <1>1, MarksTyped
<1> HIDE DEF x
<1>5. /\ StreamJob(mode, x)
      /\ FinalJob(mode, fin.goal, text, queue[1]) => FinalJob(mode, fin.goal, text, x)
  BY <1>1, <1>2, <1>4 DEF StreamJob, FinalJob
<1>6. Ordered(queue, mode, fin, state, text)
  BY DEF Base, QueueInv
<1>7. /\ queue' \in Seq(Job) /\ Len(queue') = Len(queue) /\ queue' # <<>>
      /\ queue'[1] = x /\ Ordered(queue', mode, fin, state, text)
  <2>1. LET r == [queue EXCEPT ![1] = x] IN
        r \in Seq(Job) /\ Len(r) = Len(queue) /\ r # <<>> /\ r[1] = x
        /\ Ordered(r, mode, fin, state, text)
    BY <1>1, <1>4, <1>5, <1>6, HeadMarked
  <2> QED BY <1>3, <2>1
<1>8. TypeOK'
  BY <1>1, <1>7 DEF Base, TypeOK
<1>9. QueueInv'
  BY <1>1, <1>7 DEF QueueInv
<1>10. FinInv'
  BY <1>1 DEF Base, FinInv
<1>11. LifeInv'
  BY <1>1, <1>7 DEF Base, LifeInv
<1>12. RollInv'
  BY <1>1, <1>2, <1>4, <1>7 DEF Base, RollInv
<1> QED BY <1>8, <1>9, <1>10, <1>11, <1>12 DEF Base

\* A card of the streaming backend shows more text, or misses it.
LEMMA ContentShown ==
  ASSUME Base, ContentSettles
  PROVE  /\ queue # <<>> /\ queue[1] \in Job /\ Head(queue) = queue[1]
         /\ mode = "streaming" /\ cards # <<>> /\ mine = 1 /\ frozen = 0
         /\ queue[1].face = "streaming" /\ Len(cards) >= 1
         /\ \E x \in Card :
              /\ Becomes(1, x) /\ x.face = cards[1].face /\ x.from = cards[1].from
              /\ x.slots = cards[1].slots /\ x.cut = cards[1].cut
<1>1. /\ queue # <<>> /\ queue[1] \in Job /\ Head(queue) = queue[1]
      /\ queue[1].op \in {"content", "retry"}
  BY BaseFields, HeadOf DEF ContentSettles
<1>2. mode = "streaming" /\ cards # <<>> /\ mine = 1 /\ frozen = 0
      /\ queue[1].face = "streaming"
  BY <1>1, PushInStreaming DEF Base, LifeInv, RollInv, StreamJob
<1>3. cards \in Seq(Card) /\ 1 \in 1..Len(cards)
  BY <1>2, BaseFields, EmptySeq, LenProperties
<1>4. cards[1] \in Card
  BY <1>3, LenProperties
<1> DEFINE c == [cards[1] EXCEPT !.to = Head(queue).len, !.missed = FALSE]
<1>5. /\ c \in Card /\ c.face = cards[1].face /\ c.from = cards[1].from
      /\ c.slots = cards[1].slots /\ c.cut = cards[1].cut
  BY <1>1, <1>4, JobTyped DEF Card, Job
<1>6. PICK o \in Outcomes : Shows(1, o, c)
  BY DEF ContentSettles
<1> HIDE DEF c
<1>7. PICK x \in Card : /\ Becomes(1, x)
                        /\ IF o = "failed" THEN Missed(cards[1], x) ELSE x = c
  BY <1>3, <1>5, <1>6, CardShows
<1>8. /\ x.face = cards[1].face /\ x.from = cards[1].from
      /\ x.slots = cards[1].slots /\ x.cut = cards[1].cut
  BY <1>5, <1>7 DEF Missed
<1> QED BY <1>1, <1>2, <1>3, <1>7, <1>8

LEMMA ContentSettlesBase ==
  ASSUME Base, ContentSettles
  PROVE  Base'
<1>1. /\ queue # <<>> /\ queue[1] \in Job /\ Head(queue) = queue[1]
      /\ mode = "streaming" /\ cards # <<>> /\ mine = 1 /\ frozen = 0
      /\ queue[1].face = "streaming" /\ Len(cards) >= 1
  BY ContentShown
<1>2. cards' \in Seq(Card) /\ Len(cards') = Len(cards) /\ cards' # <<>>
  BY ContentShown DEF Becomes
<1>3. UNCHANGED <<state, text, creating, mine, frozen, fin, split, call, told, overruled>>
  BY DEF ContentSettles, caller
<1>4. seq' \in Seqs /\ failures' \in 0..MaxFailures
  BY BaseFields, OutcomeTyped DEF ContentSettles
<1>5. /\ queue \in Seq(Job) /\ fin \in Fin /\ fails \in Nat /\ fails < MaxPatchFailures
      /\ old \in Seq(Job) /\ old = <<>> /\ armed \in BOOLEAN
      /\ Ordered(queue, "streaming", fin, state, text)
      /\ fin.goal \in Goals \cup {"none"} /\ (Awaits(fin) => fin.goal \in Goals)
  BY <1>1, BaseFields, CardSizes DEF Base, TypeOK, LifeInv, QueueInv, NoFin
<1>6. /\ text' \in 0..MaxText /\ split' \in BOOLEAN /\ fin' \in Fin
      /\ state' \in {"idle", "creating", "streaming", "error"} \cup Final
      /\ call' \in {"none", "waiting", "completing", "fallback"}
      /\ told' \in {"none", "card", "plain"} /\ overruled' \in BOOLEAN
      /\ frozen' \in 0..MaxText
  BY <1>3, BaseFields DEF Base, TypeOK
<1>7. mine' \in 0..Len(cards')
  BY <1>1, <1>2, <1>3, BaseFields
<1>8. PICK o \in Outcomes :
        IF o # "ok" /\ state = "streaming" /\ fails + 1 = MaxPatchFailures
            THEN Degrade
            ELSE /\ fails' = IF o = "ok" THEN 0
                             ELSE IF state = "streaming" THEN fails + 1
                             ELSE fails
                 /\ queue' = Tail(queue)
                 /\ UNCHANGED <<mode, armed, old>>
  BY DEF ContentSettles
<1>9. /\ Tail(queue) \in Seq(Job) /\ Ordered(Tail(queue), "streaming", fin, state, text)
      /\ Len(Tail(queue)) = Len(queue) - 1
      /\ Tail(queue) # <<>> => ~Tail(queue)[1].tail
  BY <1>1, <1>5, FlushLeaves
<1>10. CASE o # "ok" /\ state = "streaming" /\ fails + 1 = MaxPatchFailures
  <2>1. /\ mode' = "v1" /\ fails' = 0 /\ armed' = TRUE /\ queue' = <<>>
        /\ old' = Append(Tail(queue), NewJob("disable", "streaming", 0))
    BY <1>8, <1>10 DEF Degrade
  <2>2. NewJob("disable", "streaming", 0) \in Job
    BY NewJobTyped, CardSizes
  <2>3. old' \in Seq(Job) /\ Len(old') = Len(queue) /\ Len(queue) <= MaxQueue + 1
    BY <1>5, <1>9, <2>1, <2>2, AppendProperties, LenProperties, OrderedShort
  <2>4. fin = NoFin /\ ~split /\ call \notin {"completing", "fallback"}
    BY <1>10 DEF Base, FinInv, LifeInv, NoFin
  <2>5. queue' \in Seq(Job) /\ QueueInv'
    BY <1>3, <2>1, <2>4, EmptyOrdered DEF QueueInv
  <2>6. TypeOK'
    <3>1. mode' \in Modes /\ fails' \in 0..MaxPatchFailures /\ armed' \in BOOLEAN
      BY <2>1, CardSizes DEF Modes
    <3> QED BY <1>2, <1>3, <1>4, <1>6, <1>7, <2>3, <2>5, <3>1, TypedAgain DEF Base
  <2>7. FinInv'
    BY <1>3, <2>4 DEF FinInv, NoFin
  <2>8. LifeInv'
    BY <1>2, <1>3, <1>10, <2>1, <2>4, <1>1 DEF Base, LifeInv
  <2>9. RollInv'
    BY <1>1, <1>2, <1>3, <2>1, <2>4 DEF Base, RollInv
  <2> QED BY <2>5, <2>6, <2>7, <2>8, <2>9 DEF Base
<1>11. CASE ~(o # "ok" /\ state = "streaming" /\ fails + 1 = MaxPatchFailures)
  <2>1. /\ queue' = Tail(queue) /\ UNCHANGED <<mode, armed, old>>
        /\ fails' \in 0..MaxPatchFailures /\ fails' < MaxPatchFailures
    BY <1>5, <1>8, <1>11, CardSizes
  <2>2. queue' \in Seq(Job) /\ QueueInv'
    BY <1>1, <1>3, <1>9, <2>1 DEF QueueInv
  <2>3. TypeOK'
    <3>1. /\ old' \in Seq(Job) /\ Len(old') <= MaxQueue + 1
          /\ mode' \in Modes /\ armed' \in BOOLEAN
      BY <2>1, BaseFields DEF Base, TypeOK
    <3> QED BY <1>2, <1>3, <1>4, <1>6, <1>7, <2>1, <2>2, <3>1, TypedAgain DEF Base
  <2>4. FinInv'
    BY <1>2, <1>3, <2>1 DEF Base, FinInv
  <2>5. LifeInv'
    BY <1>1, <1>2, <1>3, <2>1 DEF Base, LifeInv
  <2>6. RollInv'
    BY <1>1, <1>2, <1>3, <1>9, <2>1 DEF Base, RollInv
  <2> QED BY <2>2, <2>3, <2>4, <2>5, <2>6 DEF Base
<1> QED BY <1>10, <1>11

\* A request of a degraded backend settles.
LEMMA OldShown ==
  ASSUME Base, OldSettles
  PROVE  /\ old # <<>> /\ mode = "v1" /\ cards # <<>>
         /\ old' \in Seq(Job) /\ Len(old') <= MaxQueue + 1
         /\ \/ cards' = cards
            \/ cards[1].slots /\ \E x \in Card :
                 /\ Becomes(1, x) /\ x.face = cards[1].face /\ x.from = cards[1].from
                 /\ x.slots = cards[1].slots /\ x.cut = cards[1].cut
                 /\ x.missed = cards[1].missed
<1>1. /\ old # <<>> /\ old' = Tail(old) /\ old \in Seq(Job) /\ Len(old) <= MaxQueue + 1
      /\ mode = "v1" /\ cards # <<>>
  BY DEF OldSettles, Base, LifeInv, TypeOK
<1>2. old' \in Seq(Job) /\ Len(old') <= MaxQueue + 1
  BY <1>1, HeadTailProperties, LenProperties, CardSizes
<1>3. cards \in Seq(Card) /\ 1 \in 1..Len(cards)
  BY <1>1, BaseFields, EmptySeq, LenProperties
<1>4. cards[1] \in Card /\ Head(old) \in Job
  BY <1>1, <1>3, LenProperties, HeadOf
<1> DEFINE x == [cards[1] EXCEPT !.to = Head(old).len]
<1>5. /\ x \in Card /\ x.face = cards[1].face /\ x.from = cards[1].from
      /\ x.slots = cards[1].slots /\ x.cut = cards[1].cut /\ x.missed = cards[1].missed
  BY <1>4, JobTyped DEF Card, Job
<1>6. \/ cards' = cards
      \/ cards[1].slots /\ cards' = [cards EXCEPT ![1] = x]
  BY DEF OldSettles
<1> HIDE DEF x
<1>7. cards' = [cards EXCEPT ![1] = x] => Becomes(1, x)
  BY <1>3, <1>5, CardBecomes
<1> QED BY <1>1, <1>2, <1>5, <1>6, <1>7

LEMMA OldSettlesBase ==
  ASSUME Base, OldSettles
  PROVE  Base'
<1>1. /\ old # <<>> /\ mode = "v1" /\ cards # <<>>
      /\ old' \in Seq(Job) /\ Len(old') <= MaxQueue + 1
  BY OldShown
<1>2. cards' \in Seq(Card) /\ Len(cards') = Len(cards) /\ cards' # <<>>
  BY OldShown, BaseFields DEF Becomes
<1>3. UNCHANGED <<state, mode, text, creating, armed, queue, mine, frozen, fin, split,
                  call, told, overruled>>
  BY DEF OldSettles, caller
<1>4. seq' \in Seqs /\ failures' \in 0..MaxFailures
  BY BaseFields, OutcomeTyped DEF OldSettles
<1>5. fails' \in 0..MaxPatchFailures
  <2>1. fails \in 0..MaxPatchFailures /\ MaxPatchFailures \in Nat
    BY BaseFields, CardSizes
  <2>2. fails' = Smaller(fails + 1, MaxPatchFailures) \/ fails' = fails
    BY DEF OldSettles
  <2> QED BY <2>1, <2>2 DEF Smaller
<1>6. mine' \in 0..Len(cards')
  BY <1>2, <1>3, BaseFields
<1>7. QueueInv'
  BY <1>3 DEF Base, QueueInv
<1>8. TypeOK'
  BY <1>1, <1>2, <1>3, <1>4, <1>5, <1>6 DEF Base, TypeOK, Seqs
<1>9. FinInv'
  BY <1>1, <1>2, <1>3 DEF Base, FinInv
<1>10. LifeInv'
  BY <1>1, <1>2, <1>3 DEF Base, LifeInv
<1>11. RollInv'
  BY <1>1, <1>2, <1>3, RollKept DEF Base
<1> QED BY <1>7, <1>8, <1>9, <1>10, <1>11 DEF Base

-----------------------------------------------------------------------------
(* Base is kept: commits.                                                  *)

LEMMA CommitHead ==
  ASSUME Base, queue # <<>>, queue[1].op = "commit"
  PROVE  /\ queue \in Seq(Job) /\ queue[1] \in Job /\ Head(queue) = queue[1]
         /\ mode \in {"v1", "legacy"} /\ mode # "streaming" /\ cards # <<>> /\ ~split
         /\ mine \in 1..Len(cards) /\ Len(cards) \in Nat /\ cards \in Seq(Card)
         /\ queue[1].len <= text /\ text \in 0..MaxText
         /\ queue[1].face = "streaming" => StreamJob(mode, queue[1]) /\ ~queue[1].tail
         /\ queue[1].face # "streaming" =>
              /\ Tail(queue) = <<>> /\ Len(queue) = 1 /\ Awaits(fin) /\ fin # NoFin
              /\ queue[1].len = text /\ queue[1].face = FaceOf(fin.goal)
              /\ fin.goal \in Goals
<1>1. /\ queue \in Seq(Job) /\ queue[1] \in Job /\ Head(queue) = queue[1]
      /\ Ordered(queue, mode, fin, state, text) /\ mode \in Modes
      /\ cards \in Seq(Card) /\ mine \in 0..Len(cards) /\ text \in 0..MaxText
      /\ Len(queue) \in Nat /\ Len(queue) >= 1
  BY HeadOf, BaseFields DEF Base, QueueInv
<1>2. cards # <<>> /\ mine >= 1
  BY DEF Base, LifeInv
<1>3. queue[1].len <= text
  BY <1>1 DEF Ordered
<1>4. CASE StreamJob(mode, queue[1])
  <2>1. mode # "streaming" /\ queue[1].face = "streaming" /\ ~queue[1].tail
    BY <1>4 DEF StreamJob
  <2>2. ~split
    BY <2>1 DEF Base, LifeInv
  <2> QED BY <1>1, <1>2, <1>3, <1>4, <2>1, <2>2, LenProperties DEF Modes
<1>5. CASE ~StreamJob(mode, queue[1])
  <2>1. /\ Len(queue) = 1 /\ Tail(queue) = <<>> /\ Awaits(fin)
        /\ FinalJob(mode, fin.goal, text, queue[1])
    BY <1>1, <1>5, FinalIsLast
  <2>2. /\ mode # "streaming" /\ queue[1].face = FaceOf(fin.goal) /\ queue[1].len = text
    BY <2>1 DEF FinalJob
  <2>3. fin.goal \in Goals /\ fin # NoFin
    BY <2>1, BaseFields
  <2>4. queue[1].face # "streaming"
    BY <2>2, <2>3, FaceOfGoal
  <2>5. ~split
    BY <2>2 DEF Base, LifeInv
  <2> QED BY <1>1, <1>2, <1>3, <2>1, <2>2, <2>3, <2>4, <2>5, LenProperties DEF Modes
<1> QED BY <1>4, <1>5

\* The chain, the finalization and the run after a step of a request.
Settled ==
  /\ fin' \in Fin /\ queue' \in Seq(Job) /\ QueueInv' /\ FinInv' /\ LifeInv'
  /\ state' \in {"idle", "creating", "streaming", "error"} \cup Final
  /\ call' \in {"none", "waiting", "completing", "fallback"}
  /\ told' \in {"none", "card", "plain"} /\ fails' \in 0..MaxPatchFailures

\* patchCard settles.
LEMMA CommittedKeeps ==
  ASSUME Base, Frame, split' = split, queue # <<>>, queue[1].op = "commit",
         NEW ok \in BOOLEAN, Committed(queue[1], ok)
  PROVE  Settled /\ (queue' # <<>> => ~queue'[1].tail)
<1>1. /\ queue \in Seq(Job) /\ queue[1] \in Job /\ mode # "streaming" /\ cards # <<>>
      /\ queue[1].face # "streaming" => Tail(queue) = <<>> /\ fin # NoFin
  BY CommitHead
<1>2. fails' \in 0..MaxPatchFailures
  BY BaseFields, CardSizes DEF Committed, Smaller
<1>3. CASE queue[1].face = "streaming"
  <2>1. queue' = Tail(queue) /\ UNCHANGED <<state, fin, call, told>>
    BY <1>3 DEF Committed
  <2>2. Ordered(queue, mode, fin, state, text)
    BY DEF Base, QueueInv
  <2>3. fin.goal \in Goals \cup {"none"} /\ (Awaits(fin) => fin.goal \in Goals)
    BY BaseFields DEF NoFin
  <2>4. /\ queue' \in Seq(Job) /\ Ordered(queue', mode, fin, state, text)
        /\ queue' # <<>> => ~queue'[1].tail
    BY <1>1, <1>3, <2>1, <2>2, <2>3, FlushLeaves
  <2>5. QueueInv' /\ FinInv' /\ LifeInv'
    <3>1. QueueInv'
      BY <2>1, <2>4 DEF Frame, QueueInv
    <3>2. FinInv'
      BY <2>1, <1>1 DEF Base, FinInv, Frame
    <3>3. LifeInv'
      BY <2>1, <1>1 DEF Base, LifeInv, Frame
    <3> QED BY <3>1, <3>2, <3>3
  <2>6. /\ fin' \in Fin
        /\ state' \in {"idle", "creating", "streaming", "error"} \cup Final
        /\ call' \in {"none", "waiting", "completing", "fallback"}
        /\ told' \in {"none", "card", "plain"}
    BY <2>1, BaseFields DEF Base, TypeOK
  <2> QED BY <1>2, <2>4, <2>5, <2>6 DEF Settled
<1>4. CASE queue[1].face # "streaming"
  <2>1. Finished(ok, <<>>) /\ fin # NoFin
    BY <1>1, <1>4 DEF Committed
  <2>2. /\ fin' \in Fin /\ queue' \in Seq(Job) /\ QueueInv' /\ FinInv' /\ LifeInv'
        /\ queue' # <<>> => ~queue'[1].tail
        /\ state' \in Final \cup {"error"}
        /\ call' \in {"none", "waiting", "fallback"} /\ told' \in {"none", "card", "plain"}
    BY <2>1, FinishedKeeps
  <2> QED BY <1>2, <2>2 DEF Settled
<1> QED BY <1>3, <1>4

\* A step of a commit that goes on.
LEMMA CommitGoesOn ==
  ASSUME Base, Frame, split' = split, UNCHANGED <<state, fails, fin, call, told>>,
         mode # "streaming", cards # <<>>,
         queue' \in Seq(Job), queue' # <<>>, Ordered(queue', mode, fin, state, text)
  PROVE  Settled
<1>1. QueueInv'
  BY DEF QueueInv, Frame
<1>2. FinInv'
  BY DEF Base, FinInv, Frame
<1>3. LifeInv'
  BY DEF Base, LifeInv, Frame
<1> QED BY <1>1, <1>2, <1>3, BaseFields DEF Settled, Base, TypeOK

LEMMA CommitBase ==
  ASSUME Base, Frame, split' = split \/ split' \in BOOLEAN, Settled, RollInv',
         cards' \in Seq(Card), mine' \in 0..Len(cards'), frozen' \in 0..MaxText,
         seq' \in Seqs, failures' \in 0..MaxFailures
  PROVE  Base'
<1>1. /\ text' \in 0..MaxText /\ split' \in BOOLEAN /\ armed' \in BOOLEAN
      /\ mode' \in Modes /\ old' \in Seq(Job) /\ Len(old') <= MaxQueue + 1
      /\ overruled' \in BOOLEAN /\ creating' = creating
  BY BaseFields DEF Base, TypeOK, Frame
<1>2. TypeOK'
  BY <1>1, TypedAgain DEF Base, Settled
<1> QED BY <1>2 DEF Base, Settled

\* The next card begins within the text.
LEMMA NextBegins ==
  ASSUME Base, queue # <<>>, queue[1].op = "commit",
         RollsOver(queue[1]) \/ queue[1].len - frozen > Slice
  PROVE  frozen + Slice \in 0..MaxText /\ frozen + Slice < queue[1].len
<1>1. queue[1].len \in Nat /\ queue[1].len <= MaxText /\ frozen \in 0..MaxText
  BY CommitHead, JobTyped, BaseFields
<1>2. queue[1].len - frozen > Slice
  BY <1>1, CardSizes DEF RollsOver, Rest
<1> QED BY <1>1, <1>2, CardSizes

CommitFrame == UNCHANGED <<mode, text, creating, armed, old, split, overruled>>

LEMMA RolloverOpensBase ==
  ASSUME Base, queue # <<>>, queue[1].op = "commit", CommitFrame,
         RolloverOpens(queue[1])
  PROVE  Base'
<1>1. /\ queue \in Seq(Job) /\ mode # "streaming" /\ cards # <<>>
      /\ mine \in 1..Len(cards) /\ Len(cards) \in Nat /\ cards \in Seq(Card)
  BY CommitHead
<1>2. /\ RollsOver(queue[1]) /\ ~(Len(cards) > mine)
      /\ UNCHANGED <<seq, mine, frozen>>
  BY DEF RolloverOpens, Opened
<1>3. Len(cards) = mine /\ (mine = 1 => frozen = 0) /\ ~queue[1].tail
      /\ Rolls(mode, frozen, queue[1])
  BY <1>1, <1>2 DEF Base, RollInv, RollsOver, Rolls, Rest
<1>4. seq' \in Seqs /\ frozen' \in 0..MaxText /\ failures \in 0..MaxFailures
  BY <1>2, BaseFields
<1>5. CASE /\ cards' = Append(cards, Shown("streaming", frozen + Slice, frozen + Slice))
           /\ UNCHANGED <<state, fails, queue, fin, call, told, failures>>
  <2>1. Shown("streaming", frozen + Slice, frozen + Slice) \in Card
    BY <1>2, NextBegins, ShownTyped
  <2>2. cards' \in Seq(Card) /\ Len(cards') = Len(cards) + 1 /\ cards' # <<>>
    BY <1>1, <1>5, <2>1, CardAdded DEF Added
  <2>3. Frame
    BY <1>1, <1>2, <1>5, <2>2 DEF Frame, CommitFrame
  <2>4. Settled
    <3>1. Ordered(queue', mode, fin, state, text)
      BY <1>5 DEF Base, QueueInv
    <3> QED BY <1>1, <1>5, <2>3, <3>1, CommitGoesOn DEF CommitFrame
  <2>5. RollInv'
    BY <1>1, <1>2, <1>3, <1>5, <2>2 DEF RollInv, CommitFrame, Rolls
  <2>6. mine' \in 0..Len(cards')
    BY <1>1, <1>2, <2>2
  <2> QED BY <1>4, <1>5, <2>2, <2>3, <2>4, <2>5, <2>6, CommitBase DEF CommitFrame
<1>6. CASE OpenFails(mine) /\ Committed(queue[1], FALSE)
  <2>1. failures' \in 0..MaxFailures /\ cards' \in Seq(Card) /\ Len(cards') = Len(cards)
        /\ cards' # <<>>
    BY <1>1, <1>4, <1>6, CardWaits DEF Becomes
  <2>2. Frame
    BY <1>1, <1>2, <2>1 DEF Frame, CommitFrame
  <2>3. Settled /\ (queue' # <<>> => ~queue'[1].tail)
    BY <1>6, <2>2, CommittedKeeps DEF CommitFrame
  <2>4. RollInv'
    BY <1>1, <1>2, <1>3, <2>1, <2>3 DEF Base, RollInv, CommitFrame
  <2>5. mine' \in 0..Len(cards')
    BY <1>1, <1>2, <2>1
  <2> QED BY <1>4, <2>1, <2>2, <2>3, <2>4, <2>5, CommitBase DEF CommitFrame
<1> QED BY <1>5, <1>6 DEF RolloverOpens

LEMMA RolloverFreezesBase ==
  ASSUME Base, queue # <<>>, queue[1].op = "commit", CommitFrame,
         RolloverFreezes(queue[1])
  PROVE  Base'
<1>1. /\ queue \in Seq(Job) /\ queue[1] \in Job /\ mode # "streaming" /\ cards # <<>>
      /\ mine \in 1..Len(cards) /\ Len(cards) \in Nat /\ cards \in Seq(Card)
  BY CommitHead
<1>2. Len(cards) = mine + 1 /\ Rolls(mode, frozen, queue[1])
  BY <1>1 DEF RolloverFreezes, Opened, Base, RollInv
<1>3. RollsOver(queue[1]) /\ ~queue[1].tail /\ mode = "v1"
  BY <1>2 DEF Rolls, RollsOver, Rest
<1>4. frozen + Slice \in 0..MaxText /\ frozen \in 0..MaxText
  BY <1>3, NextBegins, BaseFields
<1>5. /\ frozen' = frozen + Slice /\ mine' = mine + 1
      /\ UNCHANGED <<state, fails, fin, call, told>>
      /\ queue' = [queue EXCEPT ![1].rolled = TRUE]
  BY DEF RolloverFreezes
<1>6. PICK o \in Outcomes : /\ Outcome("new", mine, o)
                            /\ Shows(mine, o, Shown("frozen", frozen, frozen + Slice))
  BY DEF RolloverFreezes
<1>7. Shown("frozen", frozen, frozen + Slice) \in Card
  BY <1>4, ShownTyped
<1>8. cards' \in Seq(Card) /\ Len(cards') = Len(cards) /\ cards' # <<>>
  BY <1>1, <1>6, <1>7, CardShows DEF Becomes
<1>9. seq' \in Seqs /\ failures' \in 0..MaxFailures
  BY <1>6, BaseFields, OutcomeTyped
<1> DEFINE x == [queue[1] EXCEPT !.rolled = TRUE]
<1>10. queue' = [queue EXCEPT ![1] = x]
  BY <1>5
<1>11. /\ x \in Job /\ x.op = queue[1].op /\ x.face = queue[1].face
       /\ x.len = queue[1].len /\ x.tail = queue[1].tail
  BY <1>1, MarksTyped
<1> HIDE DEF x
<1>12. /\ StreamJob(mode, queue[1]) => StreamJob(mode, x)
       /\ FinalJob(mode, fin.goal, text, queue[1]) => FinalJob(mode, fin.goal, text, x)
  BY <1>11 DEF StreamJob, FinalJob
<1>13. /\ queue' \in Seq(Job) /\ queue' # <<>> /\ queue'[1] = x
       /\ Ordered(queue', mode, fin, state, text)
  <2>1. LET r == [queue EXCEPT ![1] = x] IN
        r \in Seq(Job) /\ Len(r) = Len(queue) /\ r # <<>> /\ r[1] = x
        /\ Ordered(r, mode, fin, state, text)
    BY <1>1, <1>11, <1>12, HeadMarked DEF Base, QueueInv
  <2> QED BY <1>10, <2>1
<1>14. Frame
  BY <1>1, <1>5, <1>8 DEF Frame, CommitFrame
<1>15. Settled
  BY <1>1, <1>5, <1>13, <1>14, CommitGoesOn DEF CommitFrame
<1>16. RollInv'
  <2>1. Len(cards') = mine' /\ mine' > 1 /\ mode' = "v1"
    BY <1>1, <1>2, <1>3, <1>5, <1>8 DEF CommitFrame
  <2>2. ~queue'[1].tail
    BY <1>3, <1>11, <1>13
  <2> QED BY <2>1, <2>2 DEF RollInv
<1>17. mine' \in 0..Len(cards')
  BY <1>1, <1>2, <1>5, <1>8
<1> QED BY <1>4, <1>5, <1>8, <1>9, <1>14, <1>15, <1>16, <1>17, CommitBase DEF CommitFrame

LEMMA TailFirstBase ==
  ASSUME Base, queue # <<>>, queue[1].op = "commit", CommitFrame,
         TailFirst(queue[1])
  PROVE  Base'
<1>1. /\ queue \in Seq(Job) /\ queue[1] \in Job /\ mode # "streaming" /\ cards # <<>>
      /\ mine \in 1..Len(cards) /\ Len(cards) \in Nat /\ cards \in Seq(Card)
  BY CommitHead
<1>2. /\ ~(Len(cards) > mine) /\ mode = "v1" /\ queue[1].face # "streaming"
      /\ queue[1].len - frozen > Slice /\ UNCHANGED <<mine, frozen>>
  BY DEF TailFirst, Opened, Rest
<1>3. Len(cards) = mine /\ (mine = 1 => frozen = 0)
  BY <1>1, <1>2 DEF Base, RollInv
<1>4. frozen + Slice \in 0..MaxText /\ frozen \in 0..MaxText
  BY <1>2, NextBegins, BaseFields
<1>5. PICK o \in Outcomes :
        /\ Outcome("new", mine, o)
        /\ Shows(mine, o, Shown("frozen", frozen, frozen + Slice))
        /\ IF o = "ok"
             THEN /\ queue' = [queue EXCEPT ![1].tail = TRUE]
                  /\ UNCHANGED <<state, fails, fin, call, told>>
             ELSE Committed(queue[1], FALSE)
  BY DEF TailFirst
<1>6. Shown("frozen", frozen, frozen + Slice) \in Card
  BY <1>4, ShownTyped
<1>7. cards' \in Seq(Card) /\ Len(cards') = Len(cards) /\ cards' # <<>>
  BY <1>1, <1>5, <1>6, CardShows DEF Becomes
<1>8. seq' \in Seqs /\ failures' \in 0..MaxFailures
  BY <1>5, BaseFields, OutcomeTyped
<1>9. Frame
  BY <1>1, <1>2, <1>7 DEF Frame, CommitFrame
<1>10. mine' \in 0..Len(cards') /\ Len(cards') = mine' /\ frozen' \in 0..MaxText
       /\ mode' = "v1" /\ (mine' = 1 => frozen' = 0)
  BY <1>1, <1>2, <1>3, <1>4, <1>7 DEF CommitFrame
<1>11. CASE o = "ok"
  <2> DEFINE x == [queue[1] EXCEPT !.tail = TRUE]
  <2>1. queue' = [queue EXCEPT ![1] = x] /\ UNCHANGED <<state, fails, fin, call, told>>
    BY <1>5, <1>11
  <2>2. /\ x \in Job /\ x.op = queue[1].op /\ x.face = queue[1].face
        /\ x.len = queue[1].len
    BY <1>1, MarksTyped
  <2> HIDE DEF x
  <2>3. /\ StreamJob(mode, queue[1]) => StreamJob(mode, x)
        /\ FinalJob(mode, fin.goal, text, queue[1]) => FinalJob(mode, fin.goal, text, x)
    BY <1>2, <2>2 DEF StreamJob, FinalJob
  <2>4. /\ queue' \in Seq(Job) /\ queue' # <<>> /\ queue'[1] = x
        /\ Ordered(queue', mode, fin, state, text)
    <3>1. LET r == [queue EXCEPT ![1] = x] IN
          r \in Seq(Job) /\ Len(r) = Len(queue) /\ r # <<>> /\ r[1] = x
          /\ Ordered(r, mode, fin, state, text)
      BY <1>1, <2>2, <2>3, HeadMarked DEF Base, QueueInv
    <3> QED BY <2>1, <3>1
  <2>5. Settled
    BY <1>1, <1>9, <2>1, <2>4, CommitGoesOn DEF CommitFrame
  <2>6. RollInv'
    BY <1>2, <1>10, <2>2, <2>4 DEF RollInv
  <2> QED BY <1>7, <1>8, <1>9, <1>10, <2>5, <2>6, CommitBase DEF CommitFrame
<1>12. CASE o # "ok"
  <2>1. Committed(queue[1], FALSE)
    BY <1>5, <1>12
  <2>2. Settled /\ (queue' # <<>> => ~queue'[1].tail)
    BY <1>9, <2>1, CommittedKeeps DEF CommitFrame
  <2>3. RollInv'
    BY <1>10, <2>2 DEF RollInv
  <2> QED BY <1>7, <1>8, <1>9, <1>10, <2>2, <2>3, CommitBase DEF CommitFrame
<1> QED BY <1>11, <1>12

LEMMA TailLastBase ==
  ASSUME Base, queue # <<>>, queue[1].op = "commit", CommitFrame,
         TailLast(queue[1])
  PROVE  Base'
<1>1. /\ queue \in Seq(Job) /\ queue[1] \in Job /\ mode # "streaming" /\ cards # <<>>
      /\ mine \in 1..Len(cards) /\ Len(cards) \in Nat /\ cards \in Seq(Card)
  BY CommitHead
<1>2. queue[1].tail /\ UNCHANGED <<seq, frozen>>
  BY DEF TailLast
<1>3. /\ mode = "v1" /\ queue[1].len - frozen > Slice /\ Len(cards) = mine
      /\ (mine = 1 => frozen = 0)
  BY <1>1, <1>2 DEF Base, RollInv
<1>4. frozen + Slice \in 0..MaxText /\ frozen' \in 0..MaxText
      /\ seq' \in Seqs /\ failures \in 0..MaxFailures
  BY <1>2, <1>3, NextBegins, BaseFields
<1>5. queue[1].len \in 0..MaxText /\ queue[1].face \in Final \cup {"streaming", "frozen"}
  BY <1>1, CommitHead DEF Job
<1>6. CASE /\ cards' = Append(cards, Shown(queue[1].face, frozen + Slice, queue[1].len))
           /\ mine' = mine + 1 /\ Committed(queue[1], TRUE) /\ UNCHANGED failures
  <2>1. Shown(queue[1].face, frozen + Slice, queue[1].len) \in Card
    BY <1>4, <1>5, ShownTyped
  <2>2. cards' \in Seq(Card) /\ Len(cards') = Len(cards) + 1 /\ cards' # <<>>
    BY <1>1, <1>6, <2>1, CardAdded DEF Added
  <2>3. mine' \in 0..Len(cards') /\ Len(cards') = mine' /\ mine' > 1 /\ mode' = "v1"
    BY <1>1, <1>3, <1>6, <2>2 DEF CommitFrame
  <2>4. Frame
    BY <1>1, <2>2, <2>3 DEF Frame, CommitFrame
  <2>5. Settled /\ (queue' # <<>> => ~queue'[1].tail)
    BY <1>6, <2>4, CommittedKeeps DEF CommitFrame
  <2>6. RollInv'
    BY <2>3, <2>5 DEF RollInv
  <2> QED BY <1>4, <1>6, <2>2, <2>3, <2>4, <2>5, <2>6, CommitBase DEF CommitFrame
<1>7. CASE OpenFails(mine) /\ Committed(queue[1], FALSE) /\ UNCHANGED mine
  <2>1. failures' \in 0..MaxFailures /\ cards' \in Seq(Card) /\ Len(cards') = Len(cards)
        /\ cards' # <<>>
    BY <1>1, <1>4, <1>7, CardWaits DEF Becomes
  <2>2. Frame
    BY <1>1, <1>7, <2>1 DEF Frame, CommitFrame
  <2>3. Settled /\ (queue' # <<>> => ~queue'[1].tail)
    BY <1>7, <2>2, CommittedKeeps DEF CommitFrame
  <2>4. mine' \in 0..Len(cards') /\ Len(cards') = mine' /\ mode' = "v1"
        /\ (mine' = 1 => frozen' = 0)
    BY <1>1, <1>2, <1>3, <1>7, <2>1 DEF CommitFrame
  <2>5. RollInv'
    BY <2>3, <2>4 DEF RollInv
  <2> QED BY <1>4, <2>1, <2>2, <2>3, <2>4, <2>5, CommitBase DEF CommitFrame
<1> QED BY <1>6, <1>7 DEF TailLast

\* What a commit makes of the card of the active view.
LEMMA CommitCardTyped ==
  ASSUME Base, cards # <<>>, NEW job \in Job, frozen \in 0..MaxText
  PROVE  /\ CommitCard(job) \in Card /\ CommitCard(job).face = job.face
         /\ CommitCard(job).from = frozen /\ ~CommitCard(job).slots
         /\ CommitCard(job).to = IF mode = "legacy" /\ job.face # "streaming"
                                   THEN Body[job.len] ELSE job.len
<1> DEFINE f == job.face
           n == job.len
<1>1. f \in Final \cup {"streaming", "frozen"} /\ n \in 0..MaxText
  BY DEF Job
<1>2. CASE mode = "legacy" /\ job.face # "streaming"
  <2>1. frozen = 0
    BY <1>2 DEF Base, RollInv
  <2>2. CommitCard(job) = Structured(f, n)
    BY <1>2 DEF CommitCard
  <2> HIDE DEF f, n
  <2>3. /\ Structured(f, n) \in Card /\ Structured(f, n).face = f
        /\ Structured(f, n).from = 0 /\ ~Structured(f, n).slots
        /\ Structured(f, n).to = Body[n]
    BY <1>1, StructuredTyped
  <2> QED BY <1>2, <2>1, <2>2, <2>3 DEF f, n
<1>3. CASE ~(mode = "legacy" /\ job.face # "streaming")
  <2>1. CommitCard(job) = Shown(f, frozen, n)
    BY <1>3 DEF CommitCard
  <2> HIDE DEF f, n
  <2>2. /\ Shown(f, frozen, n) \in Card /\ Shown(f, frozen, n).face = f
        /\ Shown(f, frozen, n).from = frozen /\ ~Shown(f, frozen, n).slots
        /\ Shown(f, frozen, n).to = n
    BY <1>1, ShownTyped
  <2> QED BY <1>3, <2>1, <2>2 DEF f, n
<1> QED BY <1>2, <1>3

LEMMA CommitUpdatesBase ==
  ASSUME Base, queue # <<>>, queue[1].op = "commit", CommitFrame,
         CommitUpdates(queue[1])
  PROVE  Base'
<1>1. /\ queue \in Seq(Job) /\ queue[1] \in Job /\ mode # "streaming" /\ cards # <<>>
      /\ mine \in 1..Len(cards) /\ Len(cards) \in Nat /\ cards \in Seq(Card)
  BY CommitHead
<1>2. ~(Len(cards) > mine) /\ UNCHANGED <<mine, frozen>>
  BY DEF CommitUpdates, Opened
<1>3. Len(cards) = mine /\ (mine = 1 => frozen = 0)
  BY <1>1, <1>2 DEF Base, RollInv
<1>4. queue[1].len \in 0..MaxText /\ queue[1].face \in Final \cup {"streaming", "frozen"}
      /\ frozen \in 0..MaxText
  BY <1>1, CommitHead, BaseFields DEF Job
<1>5. PICK o \in Outcomes :
        /\ Outcome("new", mine, o)
        /\ Shows(mine, o, CommitCard(queue[1]))
        /\ Committed(queue[1], o = "ok")
  BY DEF CommitUpdates
<1>6. CommitCard(queue[1]) \in Card
  BY <1>1, <1>4, CommitCardTyped
<1>7. cards' \in Seq(Card) /\ Len(cards') = Len(cards) /\ cards' # <<>>
  BY <1>1, <1>5, <1>6, CardShows DEF Becomes
<1>8. seq' \in Seqs /\ failures' \in 0..MaxFailures
  BY <1>5, BaseFields, OutcomeTyped
<1>9. Frame
  BY <1>1, <1>2, <1>7 DEF Frame, CommitFrame
<1>10. mine' \in 0..Len(cards') /\ Len(cards') = mine' /\ frozen' \in 0..MaxText
       /\ mode' # "streaming" /\ (mine' = 1 => frozen' = 0)
       /\ (mode' # "v1" => mine' = 1)
  BY <1>1, <1>2, <1>3, <1>4, <1>7 DEF Base, RollInv, CommitFrame
<1>11. Settled /\ (queue' # <<>> => ~queue'[1].tail)
  <2>1. (o = "ok") \in BOOLEAN
    OBVIOUS
  <2> QED BY <1>5, <1>9, <2>1, CommittedKeeps DEF CommitFrame
<1>12. RollInv'
  BY <1>10, <1>11 DEF RollInv
<1> QED BY <1>7, <1>8, <1>9, <1>10, <1>11, <1>12, CommitBase DEF CommitFrame

LEMMA CommitSettlesBase ==
  ASSUME Base, CommitSettles
  PROVE  Base'
<1>1. queue # <<>> /\ Head(queue) = queue[1] /\ queue[1].op = "commit" /\ CommitFrame
  BY BaseFields, HeadOf DEF CommitSettles, CommitFrame
<1>2. \/ RolloverOpens(queue[1]) \/ RolloverFreezes(queue[1]) \/ TailFirst(queue[1])
      \/ TailLast(queue[1]) \/ CommitUpdates(queue[1])
  BY <1>1 DEF CommitSettles
<1> QED BY <1>1, <1>2, RolloverOpensBase, RolloverFreezesBase, TailFirstBase,
           TailLastBase, CommitUpdatesBase

-----------------------------------------------------------------------------
(* Base is kept: the steps of a finalization of a streaming card.          *)

FinishFrame ==
  UNCHANGED <<mode, text, creating, armed, fails, old, mine, frozen, overruled>>

LEMMA FinishHead ==
  ASSUME Base, queue # <<>>, queue[1].op = "finish"
  PROVE  /\ Head(queue) = queue[1] /\ Tail(queue) = <<>> /\ fin # NoFin
         /\ mode = "streaming" /\ mine = 1 /\ frozen = 0 /\ cards # <<>>
         /\ cards \in Seq(Card) /\ 1 \in 1..Len(cards) /\ Len(cards) \in Nat
         /\ fin.goal \in Goals /\ Len(queue) = 1
         /\ FaceOf(fin.goal) \in Final /\ FaceOf(fin.goal) # "streaming"
         /\ text \in 0..MaxText /\ (~split => Len(cards) = 1) /\ Awaits(fin)
<1>1. /\ Head(queue) = queue[1] /\ queue \in Seq(Job)
      /\ Ordered(queue, mode, fin, state, text)
  BY HeadOf, BaseFields DEF Base, QueueInv
<1>2. ~StreamJob(mode, queue[1])
  BY DEF StreamJob
<1>3. /\ Len(queue) = 1 /\ Tail(queue) = <<>> /\ Awaits(fin)
      /\ FinalJob(mode, fin.goal, text, queue[1])
  BY <1>1, <1>2, FinalIsLast
<1>4. mode = "streaming" /\ fin # NoFin /\ fin.goal \in Goals /\ text \in 0..MaxText
  BY <1>3, BaseFields DEF FinalJob
<1>5. cards # <<>> /\ mine = 1 /\ frozen = 0 /\ (~split => Len(cards) = 1)
  BY <1>4 DEF Base, FinInv, RollInv
<1>6. cards \in Seq(Card) /\ 1 \in 1..Len(cards) /\ Len(cards) \in Nat
  BY <1>5, BaseFields, EmptySeq, LenProperties
<1> QED BY <1>1, <1>3, <1>4, <1>5, <1>6, FaceOfGoal

\* The cards stay as many.
LEMMA FinishBase ==
  ASSUME Base, FinishFrame, Frame, mode = "streaming", mine = 1, frozen = 0,
         split => split', split' \in BOOLEAN, seq' \in Seqs,
         failures' \in 0..MaxFailures, cards' \in Seq(Card), cards' # <<>>,
         split' \/ Len(cards') = 1,
         fin' \in Fin, queue' \in Seq(Job), QueueInv', FinInv', LifeInv',
         state' \in {"idle", "creating", "streaming", "error"} \cup Final,
         call' \in {"none", "waiting", "completing", "fallback"},
         told' \in {"none", "card", "plain"}, queue' # <<>> => ~queue'[1].tail
  PROVE  Base'
<1>1. RollInv'
  BY DEF RollInv, FinishFrame
<1>2. /\ fails' \in 0..MaxPatchFailures /\ frozen' \in 0..MaxText
  BY BaseFields DEF FinishFrame
<1>3. mine' \in 0..Len(cards')
  BY EmptySeq, LenProperties DEF FinishFrame
<1> QED BY <1>1, <1>2, <1>3, CommitBase DEF Settled

\* A finalization goes on with the next card.
LEMMA NextKeeps ==
  ASSUME Base, Frame, fin # NoFin, mode = "streaming", fin.step \in {"first", "next"},
         NEW k \in Nat, Slice <= k, k < text, UNCHANGED <<split, state, call, told>>,
         fin' = [fin EXCEPT !.step = "next", !.at = k], queue' = <<>>
  PROVE  fin' \in Fin /\ queue' \in Seq(Job) /\ QueueInv' /\ FinInv' /\ LifeInv'
<1>1. fin \in Fin /\ text \in 0..MaxText /\ k \in 0..MaxText
  BY BaseFields, CardSizes
<1>2. /\ fin' \in Fin /\ fin'.goal = fin.goal /\ fin'.step = "next" /\ fin'.at = k
  BY <1>1 DEF Fin
<1>3. fin' # NoFin /\ ~Awaits(fin')
  BY <1>2 DEF NoFin, Awaits
<1>4. queue' \in Seq(Job) /\ Len(queue') = 0
  BY EmptySeq
<1>5. QueueInv'
  BY <1>3, <1>4, CardSizes DEF QueueInv, Ordered
<1>6. FinInv'
  BY <1>2, <1>3 DEF Base, FinInv, Frame
<1>7. LifeInv'
  BY <1>2, <1>3 DEF Base, FinInv, LifeInv, Frame
<1> QED BY <1>2, <1>4, <1>5, <1>6, <1>7

LEMMA FinishSettlesBase ==
  ASSUME Base, FinishSettles
  PROVE  Base'
<1>1. queue # <<>> /\ queue[1].op = "finish" /\ FinishFrame
  BY BaseFields, HeadOf DEF FinishSettles, FinishFrame
<1>2. /\ Head(queue) = queue[1] /\ Tail(queue) = <<>> /\ fin # NoFin
      /\ mode = "streaming" /\ mine = 1 /\ frozen = 0 /\ cards # <<>>
      /\ cards \in Seq(Card) /\ 1 \in 1..Len(cards) /\ Len(cards) \in Nat
      /\ fin.goal \in Goals /\ FaceOf(fin.goal) \in Final
      /\ text \in 0..MaxText /\ (~split => Len(cards) = 1)
  BY <1>1, FinishHead
<1>3. PICK o \in Outcomes :
       /\ Outcome("new", 1, o)
       /\ \/ fin.step = "disable" /\ Disabled(o)
          \/ fin.step = "full" /\ FullUpdated(o)
          \/ fin.step = "first" /\ FirstUpdated(o)
          \/ fin.step = "cut" /\ CutUpdated(o)
  BY DEF FinishSettles
<1>4. seq' \in Seqs /\ failures' \in 0..MaxFailures
  BY <1>3, BaseFields, OutcomeTyped
<1>5. /\ state \in {"idle", "creating", "streaming", "error"} \cup Final
      /\ call \in {"none", "waiting", "completing", "fallback"}
      /\ told \in {"none", "card", "plain"} /\ split \in BOOLEAN
  BY DEF Base, TypeOK
<1>6. \A step : Step(step, Tail(queue)) => Step(step, <<>>)
  BY <1>2
<1>7. fin.step # "full" => fin.goal # "usage"
  BY <1>2 DEF Base, FinInv
<1>8. ASSUME cards' # <<>> PROVE Frame
  BY <1>1, <1>2, <1>8 DEF Frame, FinishFrame
<1>9. CASE fin.step = "disable" /\ Disabled(o)
  <2>1. PICK step \in {"full", "first", "cut"} :
          /\ Step(step, <<>>) /\ cards' = cards
          /\ step = "first" => text > Limit /\ split' = TRUE
          /\ step # "first" => split' = split
    <3>1. cards' = cards
      BY <1>9 DEF Disabled
    <3>2. \/ Step("cut", <<>>) /\ split' = split
          \/ Step("full", <<>>) /\ split' = split
          \/ Step("first", <<>>) /\ split' = TRUE /\ ~(text <= Limit)
      BY <1>2, <1>9 DEF Disabled
    <3>3. ~(text <= Limit) => text > Limit
      BY <1>2, CardSizes
    <3> QED BY <3>1, <3>2, <3>3
  <2>2. Frame /\ split' \in BOOLEAN /\ (split => split')
    <3>1. Frame
      BY <1>2, <1>8, <2>1
    <3>2. CASE step = "first"
      BY <2>1, <3>1, <3>2
    <3>3. CASE step # "first"
      BY <1>5, <2>1, <3>1, <3>3
    <3> QED BY <3>2, <3>3
  <2>3. /\ fin' \in Fin /\ queue' \in Seq(Job) /\ QueueInv' /\ FinInv' /\ LifeInv'
        /\ UNCHANGED <<state, call, told>> /\ ~queue'[1].tail
    <3>1. step = "full" /\ fin.goal = "completed" => ~split'
      BY <1>9, <2>1 DEF Base, FinInv
    <3> QED BY <1>2, <1>7, <1>9, <2>1, <2>2, <3>1, StepKeeps
  <2> QED BY <1>1, <1>2, <1>4, <1>5, <2>1, <2>2, <2>3, FinishBase
<1>10. CASE fin.step = "full" /\ FullUpdated(o)
  <2> DEFINE s == Structured(FaceOf(fin.goal), text)
             c == [s EXCEPT !.slots = TRUE]
  <2>1. s \in Card
    BY <1>2, StructuredTyped
  <2> HIDE DEF s
  <2>2. c \in Card
    BY <2>1 DEF Card
  <2>3. Shows(1, o, c)
    BY <1>10 DEF FullUpdated, s
  <2> HIDE DEF c
  <2>4. cards' \in Seq(Card) /\ Len(cards') = Len(cards) /\ cards' # <<>>
    BY <1>2, <2>2, <2>3, CardShows DEF Becomes
  <2>5. split' = split /\ Frame
    BY <1>8, <1>10, <2>4 DEF FullUpdated
  <2>6. CASE Finished(TRUE, <<>>)
    <3>1. /\ fin' \in Fin /\ queue' \in Seq(Job) /\ QueueInv' /\ FinInv' /\ LifeInv'
          /\ queue' # <<>> => ~queue'[1].tail
          /\ state' \in Final \cup {"error"}
          /\ call' \in {"none", "waiting", "fallback"}
          /\ told' \in {"none", "card", "plain"}
      BY <1>2, <2>5, <2>6, FinishedKeeps
    <3> QED BY <1>1, <1>2, <1>4, <1>5, <2>4, <2>5, <3>1, FinishBase
  <2>7. CASE Step("cut", <<>>) /\ fin.goal # "usage"
    <3>1. /\ fin' \in Fin /\ queue' \in Seq(Job) /\ QueueInv' /\ FinInv' /\ LifeInv'
          /\ UNCHANGED <<state, call, told>> /\ ~queue'[1].tail
      BY <1>2, <1>5, <2>5, <2>7, StepKeeps
    <3> QED BY <1>1, <1>2, <1>4, <1>5, <2>4, <2>5, <3>1, FinishBase
  <2> QED BY <1>2, <1>10, <2>6, <2>7 DEF FullUpdated
<1>11. CASE fin.step = "first" /\ FirstUpdated(o)
  <2>1. text > Limit /\ split /\ Slice \in 0..MaxText /\ Slice \in Nat /\ Slice < text
    BY <1>2, <1>11, CardSizes DEF Base, FinInv
  <2>2. Shown("frozen", 0, Slice) \in Card
    BY <2>1, ShownTyped, CardSizes
  <2>3. cards' \in Seq(Card) /\ Len(cards') = Len(cards) /\ cards' # <<>>
    BY <1>2, <1>11, <2>2, CardShows DEF Becomes, FirstUpdated
  <2>4. split' = split /\ Frame
    BY <1>8, <1>11, <2>3 DEF FirstUpdated
  <2>5. CASE o = "ok"
    <3>1. /\ fin' = [fin EXCEPT !.step = "next", !.at = Slice]
          /\ queue' = <<>> /\ UNCHANGED <<state, call, told>>
      BY <1>2, <1>11, <2>5 DEF FirstUpdated
    <3>2. fin' \in Fin /\ queue' \in Seq(Job) /\ QueueInv' /\ FinInv' /\ LifeInv'
      <4>1. Slice <= Slice /\ fin.step \in {"first", "next"}
        BY <1>11, <2>1
      <4> QED BY <1>2, <2>1, <2>4, <3>1, <4>1, NextKeeps
    <3> QED BY <1>1, <1>2, <1>4, <1>5, <2>1, <2>3, <2>4, <3>1, <3>2, FinishBase
  <2>6. CASE o # "ok"
    <3>1. Step("cut", <<>>) /\ fin.goal # "usage"
      BY <1>2, <1>7, <1>11, <2>6 DEF FirstUpdated
    <3>2. /\ fin' \in Fin /\ queue' \in Seq(Job) /\ QueueInv' /\ FinInv' /\ LifeInv'
          /\ UNCHANGED <<state, call, told>> /\ ~queue'[1].tail
      BY <1>2, <1>5, <2>4, <3>1, StepKeeps
    <3> QED BY <1>1, <1>2, <1>4, <1>5, <2>1, <2>3, <2>4, <3>2, FinishBase
  <2> QED BY <2>5, <2>6
<1>12. CASE fin.step = "cut" /\ CutUpdated(o)
  <2> DEFINE s == Shown(FaceOf(fin.goal), 0, Smaller(text, Slice))
             c == [s EXCEPT !.cut = TRUE]
  <2>1. Smaller(text, Slice) \in 0..MaxText
    BY <1>2, CardSizes DEF Smaller
  <2>2. s \in Card
    BY <1>2, <2>1, ShownTyped, CardSizes
  <2> HIDE DEF s
  <2>3. c \in Card
    BY <2>2 DEF Card
  <2>4. Shows(1, o, c)
    BY <1>12 DEF CutUpdated, s
  <2> HIDE DEF c
  <2>5. cards' \in Seq(Card) /\ Len(cards') = Len(cards) /\ cards' # <<>>
    BY <1>2, <2>3, <2>4, CardShows DEF Becomes
  <2>6. split' = split /\ Frame /\ Finished(o = "ok", <<>>) /\ (o = "ok") \in BOOLEAN
    BY <1>2, <1>8, <1>12, <2>5 DEF CutUpdated
  <2>7. /\ fin' \in Fin /\ queue' \in Seq(Job) /\ QueueInv' /\ FinInv' /\ LifeInv'
        /\ queue' # <<>> => ~queue'[1].tail
        /\ state' \in Final \cup {"error"}
        /\ call' \in {"none", "waiting", "fallback"}
        /\ told' \in {"none", "card", "plain"}
    BY <1>2, <2>6, FinishedKeeps
  <2> QED BY <1>1, <1>2, <1>4, <1>5, <2>5, <2>6, <2>7, FinishBase
<1> QED BY <1>3, <1>9, <1>10, <1>11, <1>12

LEMMA NextHead ==
  ASSUME Base, fin.step = "next"
  PROVE  /\ queue = <<>> /\ fin # NoFin /\ mode = "streaming" /\ mine = 1 /\ frozen = 0
         /\ cards # <<>> /\ cards \in Seq(Card) /\ 1 \in 1..Len(cards)
         /\ Len(cards) \in Nat /\ fin.goal \in Final /\ FaceOf(fin.goal) \in Final
         /\ text \in 0..MaxText /\ split /\ text > Limit
         /\ fin.at \in 0..MaxText /\ Slice <= fin.at /\ fin.at < text
         /\ Smaller(text, fin.at + Slice) \in 0..MaxText
         /\ Slice <= Smaller(text, fin.at + Slice) /\ Smaller(text, fin.at + Slice) <= text
<1>1. /\ fin \in Fin /\ fin # NoFin /\ fin.goal \in Goals /\ text \in 0..MaxText
      /\ mode = "streaming" /\ cards # <<>> /\ split /\ text > Limit
      /\ Slice <= fin.at /\ fin.at < text /\ state # "streaming"
  BY BaseFields DEF Base, FinInv, NoFin
<1>2. fin.at \in 0..MaxText /\ ~Awaits(fin)
  BY <1>1 DEF Fin, Awaits
<1>3. queue = <<>>
  BY <1>1, <1>2, BaseFields, EmptySeq DEF Base, QueueInv, Ordered
<1>4. mine = 1 /\ frozen = 0
  BY <1>1 DEF Base, RollInv
<1>5. cards \in Seq(Card) /\ 1 \in 1..Len(cards) /\ Len(cards) \in Nat
  BY <1>1, BaseFields, EmptySeq, LenProperties
<1>6. fin.goal \in Final
  <2>1. fin.goal # "usage" /\ fin.goal # "giveup"
    BY <1>1 DEF Base, FinInv
  <2> QED BY <1>1, <2>1 DEF Goals
<1>7. /\ Smaller(text, fin.at + Slice) \in 0..MaxText
      /\ Slice <= Smaller(text, fin.at + Slice) /\ Smaller(text, fin.at + Slice) <= text
  BY <1>1, <1>2, CardSizes DEF Smaller
<1> QED BY <1>1, <1>2, <1>3, <1>4, <1>5, <1>6, <1>7, FaceOfGoal

LEMMA NextCardBase ==
  ASSUME Base, NextCard
  PROVE  Base'
<1>1. /\ fin.step = "next" /\ FinishFrame /\ split' = split /\ seq' = seq
  BY DEF NextCard, FinishFrame
<1> DEFINE to == Smaller(text, fin.at + Slice)
<1>2. /\ queue = <<>> /\ fin # NoFin /\ mode = "streaming" /\ mine = 1 /\ frozen = 0
      /\ cards # <<>> /\ cards \in Seq(Card) /\ 1 \in 1..Len(cards)
      /\ Len(cards) \in Nat /\ fin.goal \in Final /\ FaceOf(fin.goal) \in Final
      /\ text \in 0..MaxText /\ split /\ fin.at \in 0..MaxText
      /\ to \in 0..MaxText /\ Slice <= to /\ to <= text
  BY <1>1, NextHead
<1>3. split' /\ split' \in BOOLEAN /\ seq' \in Seqs /\ failures \in 0..MaxFailures
      /\ state \in {"idle", "creating", "streaming", "error"} \cup Final
      /\ call \in {"none", "waiting", "completing", "fallback"}
      /\ told \in {"none", "card", "plain"}
  BY <1>1, <1>2, BaseFields DEF Base, TypeOK
<1>4. ASSUME cards' # <<>> PROVE Frame
  BY <1>1, <1>2, <1>4 DEF Frame, FinishFrame
<1> DEFINE c == Shown(IF to = text THEN FaceOf(fin.goal) ELSE "frozen", fin.at, to)
<1>5. \/ /\ cards' = Append(cards, c)
         /\ IF to = text
             THEN Finished(TRUE, queue)
             ELSE /\ fin' = [fin EXCEPT !.at = to]
                  /\ UNCHANGED <<state, call, told, queue>>
         /\ UNCHANGED failures
      \/ OpenFails(1) /\ Step("cut", queue)
  BY DEF NextCard
<1>6. c \in Card
  BY <1>2, ShownTyped
<1> HIDE DEF to, c
<1>7. CASE cards' = Append(cards, c) /\ to = text /\ Finished(TRUE, queue)
           /\ UNCHANGED failures
  <2>1. cards' \in Seq(Card) /\ cards' # <<>>
    BY <1>2, <1>6, <1>7, CardAdded DEF Added
  <2>2. /\ fin' \in Fin /\ queue' \in Seq(Job) /\ QueueInv' /\ FinInv' /\ LifeInv'
        /\ queue' # <<>> => ~queue'[1].tail
        /\ state' \in Final \cup {"error"}
        /\ call' \in {"none", "waiting", "fallback"}
        /\ told' \in {"none", "card", "plain"}
    BY <1>1, <1>2, <1>4, <1>7, <2>1, FinishedKeeps
  <2> QED BY <1>1, <1>2, <1>3, <1>4, <1>7, <2>1, <2>2, FinishBase
<1>8. CASE /\ cards' = Append(cards, c) /\ to # text /\ fin' = [fin EXCEPT !.at = to]
           /\ UNCHANGED <<state, call, told, queue, failures>>
  <2>1. cards' \in Seq(Card) /\ cards' # <<>>
    BY <1>2, <1>6, <1>8, CardAdded DEF Added
  <2>2. fin' = [fin EXCEPT !.step = "next", !.at = to]
    BY <1>1, <1>8, BaseFields DEF Fin
  <2>3. to \in Nat /\ to < text
    BY <1>2, <1>8, CardSizes
  <2>4. fin' \in Fin /\ queue' \in Seq(Job) /\ QueueInv' /\ FinInv' /\ LifeInv'
    BY <1>1, <1>2, <1>4, <1>8, <2>1, <2>2, <2>3, NextKeeps
  <2> QED BY <1>1, <1>2, <1>3, <1>4, <1>8, <2>1, <2>4, FinishBase
<1>9. CASE OpenFails(1) /\ Step("cut", queue)
  <2>1. failures' \in 0..MaxFailures /\ cards' \in Seq(Card) /\ cards' # <<>>
    BY <1>2, <1>3, <1>9, CardWaits DEF Becomes
  <2>2. /\ fin' \in Fin /\ queue' \in Seq(Job) /\ QueueInv' /\ FinInv' /\ LifeInv'
        /\ UNCHANGED <<state, call, told>> /\ ~queue'[1].tail
    <3>1. fin.goal # "usage"
      BY <1>2 DEF Final
    <3> QED BY <1>1, <1>2, <1>3, <1>4, <1>9, <2>1, <3>1, StepKeeps
  <2> QED BY <1>1, <1>2, <1>3, <1>4, <2>1, <2>2, FinishBase
<1> QED BY <1>5, <1>7, <1>8, <1>9

-----------------------------------------------------------------------------
(* Base is kept: the run, and everybody else.                              *)

CallFrame == UNCHANGED <<mode, creating, fails, old, seq, cards, mine, frozen, split,
                         failures>>

\* A finalization is called.
LEMMA FinalizeFacts ==
  ASSUME Base, fin = NoFin, cards # <<>>, CallFrame, NEW g \in Goals,
         text' \in 0..MaxText, text <= text', Finalize(mode, g, text', queue)
  PROVE  /\ fin' \in Fin /\ fin' # NoFin /\ fin'.goal = g /\ Awaits(fin')
         /\ fin'.step = "commit" <=> mode # "streaming"
         /\ fin'.step \notin {"first", "next", "none"}
         /\ mode = "streaming" /\ g = "usage" => fin'.step = "full"
         /\ queue' \in Seq(Job) /\ queue' # <<>> /\ QueueInv' /\ RollInv'
         /\ queue # <<>> => queue'[1] = queue[1]
         /\ Len(queue') = Len(queue) + 1
         /\ queue = <<>> => ~queue'[1].tail /\ ~queue'[1].rolled
              /\ queue'[1].len = text' /\ queue'[1].face = FaceOf(g)
<1>1. Ordered(queue, mode, NoFin, state, text')
  <2>1. text \in Nat /\ text' \in Nat /\ queue \in Seq(Job) /\ ~Awaits(NoFin)
    BY BaseFields, CardSizes, EmptyOrdered
  <2>2. Ordered(queue, mode, NoFin, state, text)
    BY DEF Base, QueueInv
  <2> QED BY <2>1, <2>2, OrderedGrows
<1>2. /\ fin' \in Fin /\ fin' # NoFin /\ fin'.goal = g /\ Awaits(fin')
      /\ fin'.step = "commit" <=> mode # "streaming"
      /\ fin'.step \notin {"first", "next", "none"}
      /\ mode = "streaming" /\ g = "usage" => fin'.step = "full"
      /\ queue' \in Seq(Job) /\ queue' # <<>>
      /\ Ordered(queue', mode, fin', state', text')
      /\ queue # <<>> => queue'[1] = queue[1]
      /\ Len(queue') = Len(queue) + 1
      /\ queue = <<>> => ~queue'[1].tail /\ ~queue'[1].rolled
           /\ queue'[1].len = text' /\ queue'[1].face = FaceOf(g)
  BY <1>1, BaseFields, FinalizeOrders
<1>3. QueueInv' /\ RollInv'
  BY <1>2, RollKept DEF Base, CallFrame, QueueInv
<1> QED BY <1>2, <1>3

LEMMA CallTyped ==
  ASSUME Base, CallFrame, text' \in 0..MaxText, armed' \in BOOLEAN,
         queue' \in Seq(Job), QueueInv', fin' \in Fin, FinInv', LifeInv', RollInv',
         state' \in {"idle", "creating", "streaming", "error"} \cup Final,
         call' \in {"none", "waiting", "completing", "fallback"},
         told' \in {"none", "card", "plain"}, overruled' \in BOOLEAN
  PROVE  Base'
<1>1. /\ split' \in BOOLEAN /\ fails' \in 0..MaxPatchFailures /\ mode' \in Modes
      /\ seq' \in Seqs /\ failures' \in 0..MaxFailures /\ cards' \in Seq(Card)
      /\ mine' \in 0..Len(cards') /\ frozen' \in 0..MaxText
      /\ old' \in Seq(Job) /\ Len(old') <= MaxQueue + 1 /\ creating' = creating
  BY BaseFields DEF CallFrame, Base, TypeOK
<1>2. TypeOK'
  BY <1>1, TypedAgain DEF Base
<1> QED BY <1>2 DEF Base

LEMMA CompletesBase ==
  ASSUME Base, state = "streaming", NEW t \in text..MaxText, Completes(t), CallFrame,
         overruled' = overruled, told = "none", call \in {"none", "waiting"}
  PROVE  Base'
<1>1. /\ state' = "completed" /\ text' = t /\ armed' = FALSE /\ call' = "completing"
      /\ told' = told /\ Finalize(mode, "completed", text', queue)
  BY DEF Completes
<1>2. text' \in 0..MaxText /\ text <= text' /\ "completed" \in Goals
  BY <1>1, BaseFields, CardSizes DEF Goals, Final
<1>3. fin = NoFin /\ cards # <<>> /\ creating.level = "none" /\ ~overruled /\ ~split
  BY DEF Base, FinInv, LifeInv
<1>4. /\ fin' \in Fin /\ fin' # NoFin /\ fin'.goal = "completed" /\ Awaits(fin')
      /\ fin'.step = "commit" <=> mode # "streaming"
      /\ fin'.step \notin {"first", "next", "none"}
      /\ queue' \in Seq(Job) /\ queue' # <<>> /\ QueueInv' /\ RollInv'
  BY <1>1, <1>2, <1>3, FinalizeFacts
<1>5. FinInv'
  BY <1>1, <1>3, <1>4 DEF FinInv, CallFrame, NoFin
<1>6. LifeInv'
  BY <1>1, <1>3, <1>4 DEF Base, LifeInv, CallFrame
<1>7. overruled' \in BOOLEAN /\ armed' \in BOOLEAN
  BY <1>1 DEF Base, TypeOK
<1> QED BY <1>1, <1>2, <1>4, <1>5, <1>6, <1>7, CallTyped DEF Final

LEMMA ResultBase ==
  ASSUME Base, NEW t \in text..MaxText, Result(t)
  PROVE  Base'
<1>1. call = "none" /\ told = "none" /\ CallFrame /\ overruled' = overruled
  BY DEF Result, CallFrame
<1>2. CASE state = "streaming" /\ Completes(t)
  BY <1>1, <1>2, CompletesBase
<1>3. CASE /\ state # "streaming" /\ UNCHANGED <<state, text, armed, fin, queue>>
           /\ \/ state = "creating" /\ call' = "waiting" /\ told' = told
              \/ state # "creating" /\ call' = call /\ told' = "plain"
  <2>1. /\ text' \in 0..MaxText /\ armed' \in BOOLEAN /\ queue' \in Seq(Job)
        /\ fin' \in Fin /\ overruled' \in BOOLEAN
        /\ state' \in {"idle", "creating", "streaming", "error"} \cup Final
        /\ call' \in {"none", "waiting", "completing", "fallback"}
        /\ told' \in {"none", "card", "plain"}
    BY <1>1, <1>3, BaseFields DEF Base, TypeOK
  <2>2. QueueInv'
    BY <1>1, <1>3 DEF Base, QueueInv, CallFrame
  <2>3. FinInv'
    BY <1>1, <1>3 DEF Base, FinInv, CallFrame
  <2>4. LifeInv'
    <3>1. state = "creating" => fin.goal = "none"
      BY DEF Base, FinInv
    <3> QED BY <1>1, <1>3, <3>1 DEF Base, LifeInv, CallFrame
  <2>5. RollInv'
    BY <1>1, <1>3 DEF Base, RollInv, CallFrame
  <2> QED BY <1>1, <2>1, <2>2, <2>3, <2>4, <2>5, CallTyped
<1> QED BY <1>2, <1>3 DEF Result

LEMMA CompleteGoesOnBase ==
  ASSUME Base, NEW t \in text..MaxText, CompleteGoesOn(t)
  PROVE  Base'
<1>1. call = "waiting" /\ creating.level = "none" /\ CallFrame
      /\ overruled' = overruled /\ told = "none"
  BY DEF CompleteGoesOn, CallFrame, Base, LifeInv
<1>2. CASE state = "streaming" /\ Completes(t)
  BY <1>1, <1>2, CompletesBase
<1>3. CASE /\ UNCHANGED <<text, armed, fin, queue>> /\ call' = "none"
           /\ \/ state = "error" /\ state' = "aborted" /\ told' = "plain"
              \/ state \in Final /\ state' = state /\ told' = "card"
  <2>1. /\ text' \in 0..MaxText /\ armed' \in BOOLEAN /\ queue' \in Seq(Job)
        /\ fin' \in Fin /\ overruled' \in BOOLEAN
        /\ state' \in {"idle", "creating", "streaming", "error"} \cup Final
        /\ call' \in {"none", "waiting", "completing", "fallback"}
        /\ told' \in {"none", "card", "plain"}
    BY <1>1, <1>3, BaseFields DEF Base, TypeOK, Final
  <2>2. QueueInv'
    BY <1>1, <1>3 DEF Base, QueueInv, CallFrame, Ordered, Final
  <2>3. fin.goal \notin {"giveup", "completed", "usage"}
        /\ (state \in Final => state = "aborted" /\ overruled)
    BY <1>1 DEF Base, FinInv, LifeInv, Final
  <2>4. FinInv'
    BY <1>1, <1>3, <2>3 DEF Base, FinInv, CallFrame, Final
  <2>5. LifeInv'
    BY <1>1, <1>3, <2>3 DEF Base, LifeInv, CallFrame, Final
  <2>6. RollInv'
    BY <1>1, <1>3 DEF Base, RollInv, CallFrame
  <2> QED BY <1>1, <2>1, <2>2, <2>4, <2>5, <2>6, CallTyped
<1> QED BY <1>2, <1>3 DEF CompleteGoesOn

LEMMA AbortBase ==
  ASSUME Base, Abort
  PROVE  Base'
<1>1. /\ state \in {"streaming", "creating"} /\ state' = "aborted" /\ armed' = FALSE
      /\ overruled' = TRUE /\ CallFrame /\ UNCHANGED <<text, call, told>>
  BY DEF Abort, CallFrame
<1>2. /\ fin = NoFin /\ call \notin {"completing", "fallback"} /\ ~split
      /\ fin.goal = "none"
  BY <1>1 DEF Base, FinInv, LifeInv, NoFin
<1>3. /\ text' \in 0..MaxText /\ armed' \in BOOLEAN /\ overruled' \in BOOLEAN
      /\ call' \in {"none", "waiting", "completing", "fallback"}
      /\ told' \in {"none", "card", "plain"} /\ text <= text'
      /\ state' \in {"idle", "creating", "streaming", "error"} \cup Final
      /\ "aborted" \in Goals
  <2>1. text' \in 0..MaxText /\ text <= text'
    BY <1>1, BaseFields
  <2>2. armed' \in BOOLEAN /\ overruled' \in BOOLEAN
    BY <1>1
  <2> QED BY <1>1, <2>1, <2>2 DEF Base, TypeOK, Final, Goals
<1>4. CASE state = "streaming"
  <2>1. Finalize(mode, "aborted", text', queue) /\ cards # <<>> /\ creating.level = "none"
    BY <1>1, <1>4 DEF Abort, Base, LifeInv
  <2>2. /\ fin' \in Fin /\ fin' # NoFin /\ fin'.goal = "aborted" /\ Awaits(fin')
        /\ fin'.step = "commit" <=> mode # "streaming"
        /\ fin'.step \notin {"first", "next", "none"}
        /\ queue' \in Seq(Job) /\ queue' # <<>> /\ QueueInv' /\ RollInv'
    BY <1>1, <1>2, <1>3, <2>1, FinalizeFacts
  <2>3. FinInv'
    BY <1>1, <2>1, <2>2 DEF FinInv, CallFrame, NoFin
  <2>4. LifeInv'
    BY <1>1, <1>2, <2>1, <2>2 DEF Base, LifeInv, CallFrame
  <2> QED BY <1>1, <1>3, <2>2, <2>3, <2>4, CallTyped
<1>5. CASE state = "creating"
  <2>1. UNCHANGED <<fin, queue>> /\ cards = <<>> /\ queue = <<>>
    BY <1>5 DEF Abort, Base, LifeInv
  <2>2. fin' \in Fin /\ queue' \in Seq(Job)
    BY <2>1, BaseFields
  <2>3. QueueInv'
    BY <1>2, <2>1, EmptyOrdered DEF QueueInv
  <2>4. FinInv'
    BY <1>2, <2>1 DEF FinInv, NoFin
  <2>5. LifeInv'
    BY <1>1, <1>2, <1>5, <2>1 DEF Base, LifeInv, CallFrame
  <2>6. RollInv'
    BY <1>1, <2>1 DEF RollInv, CallFrame
  <2> QED BY <1>1, <1>3, <2>2, <2>3, <2>4, <2>5, <2>6, CallTyped
<1> QED BY <1>1, <1>4, <1>5

LEMMA UsageNoteBase ==
  ASSUME Base, UsageNote
  PROVE  Base'
<1>1. /\ state = "completed" /\ told = "card" /\ fin = NoFin /\ CallFrame
      /\ UNCHANGED <<state, text, armed, call, told, overruled>>
      /\ Finalize(mode, "usage", text', queue) /\ (mode = "streaming" => ~split)
  BY DEF UsageNote, CallFrame, caller
<1>2. /\ text' \in 0..MaxText /\ armed' \in BOOLEAN /\ overruled' \in BOOLEAN
      /\ call' \in {"none", "waiting", "completing", "fallback"}
      /\ told' \in {"none", "card", "plain"} /\ text <= text'
      /\ state' \in {"idle", "creating", "streaming", "error"} \cup Final
      /\ "usage" \in Goals
  BY <1>1, BaseFields DEF Base, TypeOK, Goals
<1>3. cards # <<>> /\ call = "none"
  BY <1>1 DEF Base, LifeInv, TypeOK
<1>4. /\ fin' \in Fin /\ fin' # NoFin /\ fin'.goal = "usage" /\ Awaits(fin')
      /\ fin'.step = "commit" <=> mode # "streaming"
      /\ fin'.step \notin {"first", "next", "none"}
      /\ mode = "streaming" => fin'.step = "full"
      /\ queue' \in Seq(Job) /\ queue' # <<>> /\ QueueInv' /\ RollInv'
  BY <1>1, <1>2, <1>3, FinalizeFacts
<1>5. FinInv'
  BY <1>1, <1>3, <1>4 DEF FinInv, CallFrame, NoFin
<1>6. LifeInv'
  BY <1>1, <1>3, <1>4 DEF Base, LifeInv, CallFrame
<1> QED BY <1>1, <1>2, <1>4, <1>5, <1>6, CallTyped

-----------------------------------------------------------------------------
(* Base holds.                                                             *)

LEMMA InitBase ==
  ASSUME Init
  PROVE  Base
<1>1. /\ NoFin.goal = "none" /\ NoFin.step = "none" /\ NoFin \in Fin
  BY CardSizes DEF NoFin, Fin
<1>2. /\ queue \in Seq(Job) /\ Len(queue) = 0 /\ old \in Seq(Job) /\ Len(old) = 0
      /\ cards \in Seq(Card) /\ Len(cards) = 0
  BY EmptySeq DEF Init
<1>3. QueueInv
  BY EmptyOrdered DEF Init, QueueInv
<1>4. seq \in Seqs
  BY CardSizes DEF Init, Seqs, Top
<1>5. TypeOK
  <2>1. state \in {"idle", "creating", "streaming", "error"} \cup Final
        /\ text \in 0..MaxText /\ fails \in 0..MaxPatchFailures
        /\ failures \in 0..MaxFailures /\ frozen \in 0..MaxText
        /\ mine \in 0..Len(cards)
    BY <1>2, CardSizes DEF Init
  <2>2. creating \in [level : {"none", "streaming", "v1", "legacy"}, initial : 0..MaxText]
    BY CardSizes DEF Init
  <2>3. /\ armed \in BOOLEAN /\ split \in BOOLEAN /\ overruled \in BOOLEAN
    BY DEF Init
  <2>4. Len(queue) <= MaxQueue + 1 /\ Len(old) <= MaxQueue + 1
    BY <1>2, CardSizes
  <2>5. fin \in Fin
    BY <1>1 DEF Init
  <2>6. /\ mode \in {"streaming", "v1", "legacy"} /\ told \in {"none", "card", "plain"}
        /\ call \in {"none", "waiting", "completing", "fallback"}
    BY DEF Init
  <2> QED BY <1>2, <1>4, <2>1, <2>2, <2>3, <2>4, <2>5, <2>6 DEF TypeOK, Fin, Seqs
<1>6. FinInv
  BY <1>1 DEF Init, FinInv
<1>7. LifeInv
  BY <1>1, CardSizes DEF Init, LifeInv
<1>8. RollInv
  BY DEF Init, RollInv
<1> QED BY <1>3, <1>5, <1>6, <1>7, <1>8 DEF Base

LEMMA StutterBase ==
  ASSUME Base, UNCHANGED vars
  PROVE  Base'
<1>1. UNCHANGED <<state, mode, text, creating, armed, fails, queue, old, seq, cards,
                  mine, frozen, fin, split, call, told, overruled, failures>>
  BY DEF vars, backend, caller
<1>2. TypeOK'
  BY <1>1 DEF Base, TypeOK
<1>3. QueueInv' /\ FinInv' /\ RollInv'
  BY <1>1 DEF Base, QueueInv, FinInv, RollInv
<1>4. LifeInv'
  BY <1>1 DEF Base, LifeInv
<1> QED BY <1>2, <1>3, <1>4 DEF Base

LEMMA NextBase ==
  ASSUME Base, [Next]_vars
  PROVE  Base'
<1>1. CASE Requests
  BY <1>1, CreationFailsBase, CreatedBase, ContentExpiresBase, ContentSettlesBase,
     OldSettlesBase, CommitSettlesBase, FinishSettlesBase, NextCardBase DEF Requests
<1>2. CASE Controller
  BY <1>2, FlushFiresBase, CompleteGoesOnBase DEF Controller
<1>3. CASE Abort
  BY <1>3, AbortBase
<1>4. CASE UsageNote
  BY <1>4, UsageNoteBase
<1>5. CASE \E t \in text..MaxText : Fed(t) \/ Result(t)
  BY <1>5, FedBase, ResultBase
<1>6. CASE UNCHANGED vars
  BY <1>6, StutterBase
<1> QED BY <1>1, <1>2, <1>3, <1>4, <1>5, <1>6 DEF Next

LEMMA BaseHolds == Spec => []Base
  BY InitBase, NextBase, PTL DEF Spec

\* Every variable keeps its type whatever the order of requests, flushes, aborts
\* and failures: in particular no chain grows beyond what the controller lets
\* wait plus one request of a finalization, and offsets stay within the text.
THEOREM CardTypes == Spec => []TypeOK
<1>1. Base => TypeOK
  BY DEF Base
<1> QED BY <1>1, BaseHolds, PTL

-----------------------------------------------------------------------------
(* What the cards show: steps that do not change them.                     *)

\* What such a step may change.
Quiet ==
  /\ UNCHANGED <<cards, mine, frozen, mode>>
  /\ state' # "streaming" /\ fin' = NoFin => state # "streaming" /\ fin = NoFin
  /\ state' = "streaming" \/ Len(queue') > 1 => state = "streaming" \/ Len(queue) > 1
  /\ queue' # <<>> /\ queue'[1].tail => queue # <<>> /\ queue[1].tail
  /\ fin'.step = "next" => fin' = fin
  /\ queue' # <<>> \/ state' = "streaming" => queue # <<>> \/ state = "streaming" \/ mine = 1
  /\ Going' => Going
  /\ Going' /\ fin'.step \in {"disable", "full", "first"}
       => fin.step \in {"disable", "full", "first"} \/ ~split
  /\ Going' /\ mode # "streaming" /\ queue' # <<>> /\ ~queue'[1].tail /\ fin'.goal # "usage"
       => state = "streaming" \/ (queue # <<>> /\ ~queue[1].tail /\ fin.goal # "usage")
  /\ told' = "card" /\ ~overruled' =>
       /\ told = "card" /\ ~overruled /\ UNCHANGED <<state, call, text, split>>
       /\ Len(queue') <= 1
       /\ mode # "streaming" /\ fin'.goal = "usage" => fin.goal = "usage" \/ mine = 1

LEMMA QuietKeeps ==
  ASSUME Base, Base', Showing, Quiet
  PROVE  Showing'
<1>1. cards' = cards /\ mine' = mine /\ frozen' = frozen /\ mode' = mode
  BY DEF Quiet
<1>2. FacesInv'
  <2>1. Current' = Current
    BY <1>1 DEF Current
  <2> QED BY <1>1, <2>1 DEF Showing, FacesInv, Quiet
<1>3. MeetInv'
  <2> SUFFICES ASSUME cards # <<>> PROVE MeetInv'
    BY <1>1 DEF MeetInv
  <2>1. cards[1].from = 0
    BY DEF Showing, MeetInv
  <2>2. mode # "streaming" /\ (queue' # <<>> \/ state' = "streaming")
          => cards[mine].from = frozen
    <3>1. mine = 1 => frozen = 0
      BY DEF Base, RollInv
    <3> QED BY <2>1, <3>1 DEF Showing, MeetInv, Quiet
  <2>3. ASSUME Going'
        PROVE  /\ \A i \in 1..Len(cards) :
                    i < Len(cards) /\ cards[i].face = "frozen" /\ ~cards[i].missed
                      => cards[i].to = cards[i + 1].from
               /\ fin'.step \in {"disable", "full", "first"} => Len(cards) = 1
               /\ fin'.step = "next" /\ cards[Len(cards)].face = "frozen"
                    /\ ~cards[Len(cards)].missed => cards[Len(cards)].to = fin'.at
               /\ mode # "streaming" /\ queue' # <<>> /\ ~queue'[1].tail
                    /\ fin'.goal # "usage" => cards[mine].face = "streaming"
    <3>1. Going
      BY <2>3 DEF Quiet
    <3>2. \A i \in 1..Len(cards) :
              i < Len(cards) /\ cards[i].face = "frozen" /\ ~cards[i].missed
                => cards[i].to = cards[i + 1].from
      BY <3>1 DEF Showing, MeetInv
    <3>3. fin'.step \in {"disable", "full", "first"} => Len(cards) = 1
      <4> SUFFICES ASSUME fin'.step \in {"disable", "full", "first"} PROVE Len(cards) = 1
        OBVIOUS
      <4>1. mode = "streaming"
        BY <1>1 DEF Base, FinInv, NoFin
      <4>2. ~split => Len(cards) = 1
        BY <4>1 DEF Base, RollInv
      <4> QED BY <2>3, <3>1, <4>2 DEF Showing, MeetInv, Quiet
    <3>4. fin'.step = "next" /\ cards[Len(cards)].face = "frozen"
            /\ ~cards[Len(cards)].missed => cards[Len(cards)].to = fin'.at
      BY <3>1 DEF Showing, MeetInv, Quiet
    <3>5. mode # "streaming" /\ queue' # <<>> /\ ~queue'[1].tail
            /\ fin'.goal # "usage" => cards[mine].face = "streaming"
      <4>1. state = "streaming" /\ mode # "streaming" => cards[mine].face = "streaming"
        BY DEF Showing, FacesInv, Current
      <4> QED BY <2>3, <3>1, <4>1 DEF Showing, MeetInv, Quiet
    <3> QED BY <3>2, <3>3, <3>4, <3>5
  <2> QED BY <1>1, <2>1, <2>2, <2>3 DEF MeetInv
<1>4. ReplyInv'
  BY <1>1 DEF Showing, ReplyInv, Quiet, Reply, Visible
<1> QED BY <1>2, <1>3, <1>4 DEF Showing

\* No card, no reply on it.
LEMMA NoCardYet ==
  ASSUME Base', Showing, cards = <<>>, cards' = <<>>,
         told' = told, overruled => overruled'
  PROVE  Showing'
<1>1. FacesInv' /\ MeetInv'
  BY DEF FacesInv, MeetInv
<1>2. ReplyInv'
  BY DEF Showing, ReplyInv
<1> QED BY <1>1, <1>2 DEF Showing

LEMMA CreationFailsShowing ==
  ASSUME Base, Base', Showing, CreationFails
  PROVE  Showing'
<1>1. cards = <<>>
  BY DEF Base, LifeInv, CreationFails
<1>2. cards' = cards /\ told' = told /\ overruled' = overruled
  BY DEF CreationFails, backend, caller
<1> QED BY <1>1, <1>2, NoCardYet

LEMMA FedShowing ==
  ASSUME Base, Base', Showing, NEW t \in text..MaxText, Fed(t)
  PROVE  Showing'
<1>1. /\ UNCHANGED <<cards, mine, frozen, mode, call, told, overruled>>
      /\ call = "none" /\ told = "none"
  BY DEF Fed, caller
<1>2. CASE cards = <<>>
  BY <1>1, <1>2, NoCardYet
<1>3. CASE cards # <<>>
  <2>1. state = "streaming" /\ fin = NoFin /\ ~split
    BY <1>3 DEF Base, LifeInv, FinInv, Fed
  <2>2. CASE UNCHANGED <<state, fin, queue>>
    BY <1>1, <2>1, <2>2, QuietKeeps DEF Quiet, Going
  <2>3. CASE state' = "error" /\ Finalize(mode, "giveup", t, queue)
    <3>1. t \in 0..MaxText /\ text <= t /\ text' = t
      BY BaseFields, CardSizes DEF Fed
    <3>2. Ordered(queue, mode, NoFin, state, t)
      BY <2>1, <3>1, BaseFields, CardSizes, OrderedGrows, EmptyOrdered
         DEF Base, QueueInv
    <3>3. /\ fin' # NoFin /\ fin'.goal = "giveup" /\ fin'.step # "next"
          /\ queue # <<>> => queue'[1] = queue[1]
          /\ queue = <<>> => ~queue'[1].tail
      <4>1. "giveup" \in Goals
        BY DEF Goals
      <4> QED BY <2>3, <3>1, <3>2, <4>1, BaseFields, FinalizeOrders
    <3> QED BY <1>1, <2>1, <2>3, <3>3, QuietKeeps DEF Quiet, Going
  <2> QED BY <2>1, <2>2, <2>3 DEF Fed, SchedulePatch
<1> QED BY <1>2, <1>3

LEMMA FlushFiresShowing ==
  ASSUME Base, Base', Showing, FlushFires
  PROVE  Showing'
<1>1. /\ UNCHANGED <<state, text, fin, cards, mine, frozen, mode, call, told, overruled>>
      /\ queue \in Seq(Job)
  BY BaseFields DEF FlushFires, caller
<1>2. CASE state # "streaming"
  BY <1>1, <1>2, QuietKeeps DEF Quiet, Going, FlushFires, Showing, ReplyInv
<1>3. CASE state = "streaming"
  <2> DEFINE j == NewJob(IF mode = "streaming" THEN "content" ELSE "commit",
                         "streaming", text)
  <2>1. j \in Job /\ ~j.tail
    BY NewJobTyped, BaseFields
  <2>2. queue' = Append(queue, j)
    BY <1>3 DEF FlushFires
  <2> HIDE DEF j
  <2>3. /\ queue # <<>> => queue'[1] = queue[1]
        /\ queue = <<>> => queue'[1] = j
    BY <1>1, <2>1, <2>2, AppendProperties, EmptySeq, LenProperties
  <2>4. ~(told = "card" /\ ~overruled)
    BY <1>3 DEF Showing, ReplyInv
  <2>5. fin = NoFin /\ NoFin.step = "none"
    BY <1>3 DEF Base, FinInv, NoFin
  <2> QED BY <1>1, <1>3, <2>1, <2>3, <2>4, <2>5, QuietKeeps DEF Quiet, Going
<1> QED BY <1>2, <1>3

LEMMA ContentExpiresShowing ==
  ASSUME Base, Base', Showing, ContentExpires
  PROVE  Showing'
<1>1. /\ UNCHANGED <<state, text, fin, cards, mine, frozen, mode, call, told, overruled,
                      split>>
      /\ queue # <<>> /\ Head(queue) = queue[1] /\ queue[1] \in Job
      /\ queue \in Seq(Job) /\ queue[1].op = "content"
  BY BaseFields, HeadOf DEF ContentExpires, caller
<1>2. mode = "streaming"
  BY <1>1, PushInStreaming
<1> DEFINE x == [queue[1] EXCEPT !.op = "retry"]
<1>3. queue' = [queue EXCEPT ![1] = x]
  BY DEF ContentExpires
<1>4. x.tail = queue[1].tail
  BY <1>1, MarksTyped
<1> HIDE DEF x
<1>5. queue'[1] = x /\ Len(queue') = Len(queue)
  BY <1>1, <1>3, ExceptSeq, EmptySeq, LenProperties
<1> QED BY <1>1, <1>2, <1>4, <1>5, QuietKeeps DEF Quiet, Going, Showing, ReplyInv

LEMMA CompletesShowing ==
  ASSUME Base, Base', Showing, state = "streaming", NEW t \in text..MaxText,
         Completes(t), CallFrame, overruled' = overruled, told = "none",
         call \in {"none", "waiting"}
  PROVE  Showing'
<1>1. /\ state' = "completed" /\ text' = t /\ call' = "completing" /\ told' = told
      /\ Finalize(mode, "completed", text', queue)
  BY DEF Completes
<1>2. text' \in 0..MaxText /\ text <= text' /\ "completed" \in Goals
  BY <1>1, BaseFields, CardSizes DEF Goals, Final
<1>3. fin = NoFin /\ cards # <<>> /\ ~split
  BY DEF Base, FinInv, LifeInv
<1>4. /\ fin' # NoFin /\ fin'.step # "next"
      /\ queue # <<>> => queue'[1] = queue[1]
      /\ queue = <<>> => ~queue'[1].tail
  BY <1>1, <1>2, <1>3, FinalizeFacts
<1> QED BY <1>1, <1>3, <1>4, QuietKeeps DEF Quiet, Going, CallFrame

LEMMA ResultShowing ==
  ASSUME Base, Base', Showing, NEW t \in text..MaxText, Result(t)
  PROVE  Showing'
<1>1. call = "none" /\ told = "none" /\ CallFrame /\ overruled' = overruled
  BY DEF Result, CallFrame
<1>2. CASE state = "streaming" /\ Completes(t)
  BY <1>1, <1>2, CompletesShowing
<1>3. CASE /\ UNCHANGED <<state, text, fin, queue>>
           /\ \/ call' = "waiting" /\ told' = told
              \/ call' = call /\ told' = "plain"
  BY <1>1, <1>3, QuietKeeps DEF Quiet, Going, CallFrame
<1> QED BY <1>2, <1>3 DEF Result

LEMMA CompleteGoesOnShowing ==
  ASSUME Base, Base', Showing, NEW t \in text..MaxText, CompleteGoesOn(t)
  PROVE  Showing'
<1>1. call = "waiting" /\ CallFrame /\ overruled' = overruled /\ told = "none"
  BY DEF CompleteGoesOn, CallFrame, Base, LifeInv
<1>2. CASE state = "streaming" /\ Completes(t)
  BY <1>1, <1>2, CompletesShowing
<1>3. CASE /\ UNCHANGED <<text, fin, queue>> /\ call' = "none"
           /\ \/ state = "error" /\ state' = "aborted" /\ told' = "plain"
              \/ state \in Final /\ state' = state /\ told' = "card"
  <2>1. state \in Final => overruled /\ state # "streaming"
    BY <1>1 DEF Base, LifeInv, Final
  <2>2. state # "streaming" /\ state' # "streaming"
    BY <1>3, <2>1
  <2> QED BY <1>1, <1>3, <2>1, <2>2, QuietKeeps DEF Quiet, Going, CallFrame
<1> QED BY <1>2, <1>3 DEF CompleteGoesOn

LEMMA AbortShowing ==
  ASSUME Base, Base', Showing, Abort
  PROVE  Showing'
<1>1. /\ state' = "aborted" /\ overruled' = TRUE /\ CallFrame
      /\ UNCHANGED <<text, call, told>>
  BY DEF Abort, CallFrame
<1>2. CASE state = "streaming"
  <2>1. fin = NoFin /\ cards # <<>> /\ ~split /\ text' \in 0..MaxText /\ text <= text'
        /\ "aborted" \in Goals
    <3>1. fin = NoFin /\ cards # <<>> /\ ~split
      BY <1>2 DEF Base, FinInv, LifeInv
    <3> QED BY <1>1, <3>1, BaseFields DEF Goals, Final
  <2>2. Finalize(mode, "aborted", text', queue)
    BY <1>1, <1>2 DEF Abort
  <2>3. /\ fin' # NoFin /\ fin'.step # "next"
        /\ queue # <<>> => queue'[1] = queue[1]
        /\ queue = <<>> => ~queue'[1].tail
    BY <1>1, <2>1, <2>2, FinalizeFacts
  <2> QED BY <1>1, <1>2, <2>1, <2>3, QuietKeeps DEF Quiet, Going, CallFrame
<1>3. CASE state = "creating"
  <2>1. cards = <<>>
    BY <1>3 DEF Base, LifeInv
  <2> QED BY <1>1, <2>1, NoCardYet DEF CallFrame
<1> QED BY <1>2, <1>3 DEF Abort

LEMMA UsageNoteShowing ==
  ASSUME Base, Base', Showing, UsageNote
  PROVE  Showing'
<1>1. /\ state = "completed" /\ told = "card" /\ fin = NoFin /\ CallFrame
      /\ UNCHANGED <<state, text, call, told, overruled>>
      /\ Finalize(mode, "usage", text', queue)
      /\ (IF mode = "streaming" THEN ~split /\ Body[text] <= Limit ELSE mine = 1)
  BY DEF UsageNote, CallFrame, caller
<1>2. text' \in 0..MaxText /\ text <= text' /\ "usage" \in Goals
  BY <1>1, BaseFields DEF Goals
<1>3. cards # <<>> /\ ~overruled /\ ~Awaits(fin)
  BY <1>1, EmptyOrdered DEF Base, LifeInv
<1>4. /\ fin' # NoFin /\ fin'.goal = "usage" /\ fin'.step # "next"
      /\ fin'.step = "commit" <=> mode # "streaming"
      /\ queue # <<>> => queue'[1] = queue[1]
      /\ Len(queue') = Len(queue) + 1
      /\ queue = <<>> => ~queue'[1].tail
  BY <1>1, <1>2, <1>3, FinalizeFacts
<1>5. queue = <<>> /\ Len(queue) = 0
  BY <1>1, <1>3, BaseFields, EmptySeq DEF Base, QueueInv, Ordered
<1>6. mine = 1
  BY <1>1, <1>3 DEF Base, RollInv
<1>7. Len(queue') = 1
  BY <1>4, <1>5
<1> QED BY <1>1, <1>3, <1>4, <1>5, <1>6, <1>7, QuietKeeps DEF Quiet, Going, CallFrame

LEMMA StutterShowing ==
  ASSUME Base, Base', Showing, UNCHANGED vars
  PROVE  Showing'
<1>1. UNCHANGED <<state, mode, text, queue, cards, mine, frozen, fin, call, told,
                  overruled, split>>
  BY DEF vars, backend, caller
<1> QED BY <1>1, QuietKeeps DEF Quiet, Going, Showing, ReplyInv

-----------------------------------------------------------------------------
(* What the cards show: creation and pushes.                               *)

LEMMA CreatedShowing ==
  ASSUME Base, Base', Showing, Created
  PROVE  Showing'
<1>1. /\ cards = <<>> /\ mode' \in {"streaming", "v1", "legacy"} /\ mine' = 1
      /\ Len(cards') = 1 /\ cards' # <<>> /\ queue = <<>> /\ fin = NoFin /\ frozen = 0
      /\ cards'[1].face = "streaming" /\ cards'[1].from = 0
      /\ state \in {"creating", "aborted"}
  BY CreatedCard
<1>2. UNCHANGED <<frozen, call, told, overruled>>
  BY DEF Created, caller
<1>3. state' # "streaming" => fin' # NoFin /\ fin'.step # "next"
  <2> SUFFICES ASSUME state' # "streaming" PROVE fin' # NoFin /\ fin'.step # "next"
    OBVIOUS
  <2>1. Finalize(mode', state, text, queue) /\ state = "aborted"
    BY <1>1 DEF Created
  <2>2. fin' = [goal |-> state, at |-> 0,
                step |-> IF mode' # "streaming" THEN "commit"
                         ELSE IF state = "usage" THEN "full" ELSE "disable"]
    BY <2>1 DEF Finalize
  <2> QED BY <2>1, <2>2 DEF NoFin
<1>4. state' = "streaming" => fin' = fin /\ queue' = queue
  BY <1>1 DEF Created
<1>5. Len(queue') <= 1 /\ (queue' # <<>> => ~queue'[1].tail)
  <2>1. CASE state = "creating"
    BY <1>1, <2>1, EmptySeq DEF Created
  <2>2. CASE state = "aborted"
    <3> DEFINE j == NewJob(IF mode' = "streaming" THEN "finish" ELSE "commit",
                           FaceOf(state), text)
    <3>1. queue' = Append(<<>>, j)
      BY <1>1, <2>2 DEF Created, Finalize
    <3>2. j \in Job /\ ~j.tail
      <4>1. FaceOf("aborted") \in Final \cup {"streaming"}
        BY FaceOfGoal DEF Goals, Final
      <4> QED BY <2>2, <4>1, NewJobTyped, BaseFields
    <3> HIDE DEF j
    <3>3. Len(queue') = 1 /\ queue'[1] = j
      BY <3>1, <3>2
    <3> QED BY <3>2, <3>3
  <2> QED BY <1>1, <2>1, <2>2
<1>6. Current' = 1 /\ NoFin.step = "none"
  BY <1>1 DEF Current, NoFin
<1>7. FacesInv'
  BY <1>1, <1>3, <1>4, <1>5, <1>6 DEF FacesInv, Ended
<1>8. MeetInv'
  BY <1>1, <1>2, <1>3, <1>4, <1>5, <1>6 DEF MeetInv
<1>9. ReplyInv'
  BY <1>1, <1>2 DEF Showing, ReplyInv
<1> QED BY <1>7, <1>8, <1>9 DEF Showing

\* No card that shows its end looks alive again.
NoneRevived ==
  \A i \in 1..Len(cards) : cards[i].face # "streaming" => cards'[i].face # "streaming"

\* A flush at the head of the chain is meant for a card that looks alive.
LEMMA HeadAlive ==
  ASSUME Base, FacesInv, queue # <<>>, queue[1].face = "streaming", cards # <<>>
  PROVE  /\ cards[Current].face = "streaming" /\ (state = "streaming" \/ Len(queue) > 1)
         /\ state = "streaming" \/ fin # NoFin
<1>1. /\ Ordered(queue, mode, fin, state, text) /\ queue \in Seq(Job)
      /\ Len(queue) \in Nat /\ Len(queue) >= 1 /\ (Awaits(fin) => fin.goal \in Goals)
  BY HeadOf, BaseFields DEF Base, QueueInv
<1>2. CASE ~Awaits(fin)
  <2>1. state = "streaming"
    BY <1>1, <1>2 DEF Ordered
  <2> QED BY <2>1 DEF FacesInv
<1>3. CASE Awaits(fin)
  <2>1. Len(queue) > 1
    <3> SUFFICES ASSUME Len(queue) = 1 PROVE FALSE
      BY <1>1, OneOrMore
    <3>1. queue[1].face = FaceOf(fin.goal)
      BY <1>1, <1>3 DEF Ordered, FinalJob
    <3> QED BY <1>1, <1>3, <3>1, FaceOfGoal
  <2>2. fin # NoFin
    BY <1>3 DEF NoFin, Awaits
  <2> QED BY <2>1, <2>2 DEF FacesInv
<1> QED BY <1>2, <1>3

LEMMA OnCardStays ==
  ASSUME NEW cs, NEW ds, NEW t, Len(cs) = Len(ds), OnCard(cs, t),
         \A i \in 1..Len(cs) : cs[i].cut => ds[i].cut,
         ds[Len(cs)].face = cs[Len(cs)].face, ds[Len(cs)].to = cs[Len(cs)].to
  PROVE  OnCard(ds, t)
  BY DEF OnCard

LEMMA ContentSettlesShowing ==
  ASSUME Base, Base', Showing, ContentSettles
  PROVE  Showing' /\ NoneRevived
<1>1. /\ queue # <<>> /\ queue[1] \in Job /\ Head(queue) = queue[1]
      /\ mode = "streaming" /\ cards # <<>> /\ mine = 1 /\ frozen = 0
      /\ queue[1].face = "streaming" /\ Len(cards) >= 1
  BY ContentShown
<1>2. PICK x \in Card :
        /\ Becomes(1, x) /\ x.face = cards[1].face /\ x.from = cards[1].from
        /\ x.slots = cards[1].slots /\ x.cut = cards[1].cut
  BY ContentShown
<1>3. UNCHANGED <<state, text, mine, frozen, fin, call, told, overruled>>
  BY DEF ContentSettles, caller
<1>4. /\ cards' # <<>> /\ Len(cards') = Len(cards) /\ cards'[1] = x
      /\ \A k \in 1..Len(cards) : k # 1 => cards'[k] = cards[k]
      /\ Len(cards) \in Nat
  BY <1>2, BaseFields, LenProperties DEF Becomes
<1>5. /\ cards[1].face = "streaming" /\ (state = "streaming" \/ Len(queue) > 1)
      /\ state = "streaming" \/ fin # NoFin
  BY <1>1, HeadAlive DEF Showing, Current
<1>6. \/ mode' = "v1" /\ queue' = <<>> /\ state = "streaming"
      \/ mode' = mode /\ (queue' # <<>> => ~queue'[1].tail)
  <2>1. Ordered(queue, mode, fin, state, text) /\ queue \in Seq(Job)
        /\ fin.goal \in Goals \cup {"none"} /\ (Awaits(fin) => fin.goal \in Goals)
    BY BaseFields DEF Base, QueueInv, NoFin
  <2>2. Tail(queue) # <<>> => ~Tail(queue)[1].tail
    BY <1>1, <2>1, FlushLeaves
  <2> QED BY <2>2 DEF ContentSettles, Degrade
<1>7. fin.step # "next" /\ (state = "streaming" => Len(cards) = 1)
  BY <1>1, <1>5 DEF Showing, FacesInv, Base, RollInv, LifeInv
<1>8. Current = 1 /\ Current' = 1
  BY <1>1, <1>3 DEF Current
<1>9. FacesInv'
  <2>1. \A i \in 1..Len(cards) : i # 1 => Ended(cards[i])
    BY <1>1, <1>8 DEF Showing, FacesInv
  <2>2. \A i \in 1..Len(cards) : cards[i].slots => cards[i].face # "frozen" /\ i = 1
    BY <1>1 DEF Showing, FacesInv
  <2>3. \A i \in 1..Len(cards') : i # 1 => Ended(cards'[i])
    BY <1>4, <2>1
  <2>4. \A i \in 1..Len(cards') : cards'[i].slots => cards'[i].face # "frozen" /\ i = 1
    BY <1>2, <1>4, <2>2
  <2>5. ~(mode' # "streaming" /\ Len(cards') = mine' + 1)
    BY <1>1, <1>3, <1>4, <1>6, <1>7
  <2>6. queue' # <<>> => ~queue'[1].tail
    BY <1>6
  <2>7. ~(state' # "streaming" /\ fin' = NoFin) /\ fin'.step # "next"
    BY <1>3, <1>5, <1>7
  <2>8. cards'[1].face = "streaming"
    BY <1>2, <1>4, <1>5
  <2> QED BY <1>8, <2>3, <2>4, <2>5, <2>6, <2>7, <2>8 DEF FacesInv
<1>10. MeetInv'
  <2>1. cards'[1].from = 0
    BY <1>1, <1>2, <1>4 DEF Showing, MeetInv
  <2>2. cards'[mine'].from = frozen'
    BY <1>1, <1>3, <2>1
  <2>3. ASSUME Going'
        PROVE  /\ \A i \in 1..Len(cards') :
                    i < Len(cards') /\ cards'[i].face = "frozen" /\ ~cards'[i].missed
                      => cards'[i].to = cards'[i + 1].from
               /\ fin'.step \in {"disable", "full", "first"} => Len(cards') = 1
    <3>1. Going
      BY <1>3, <2>3 DEF Going
    <3>2. fin'.step \in {"disable", "full", "first"} => Len(cards') = 1
      BY <1>1, <1>3, <1>4, <3>1 DEF Showing, MeetInv
    <3>3. ASSUME NEW i \in 1..Len(cards'), i < Len(cards'),
                 cards'[i].face = "frozen", ~cards'[i].missed
          PROVE  cards'[i].to = cards'[i + 1].from
      <4>1. i # 1
        BY <1>2, <1>4, <1>5, <3>3
      <4>2. i + 1 \in 1..Len(cards) /\ i + 1 # 1 /\ i \in 1..Len(cards) /\ i < Len(cards)
        BY <1>4, <3>3
      <4>3. cards'[i] = cards[i] /\ cards'[i + 1] = cards[i + 1]
        BY <1>4, <4>1, <4>2
      <4> QED BY <1>1, <3>1, <3>3, <4>2, <4>3 DEF Showing, MeetInv
    <3> QED BY <3>2, <3>3
  <2>4. mode' # "streaming" => queue' = <<>>
    BY <1>1, <1>6
  <2> QED BY <1>3, <1>7, <2>1, <2>2, <2>3, <2>4 DEF MeetInv
<1>11. ReplyInv'
  <2>1. ~(told = "card" /\ ~overruled)
    BY <1>5 DEF Showing, ReplyInv
  <2> QED BY <1>3, <2>1 DEF ReplyInv
<1>12. NoneRevived
  BY <1>2, <1>4 DEF NoneRevived
<1> QED BY <1>9, <1>10, <1>11, <1>12 DEF Showing

LEMMA OldSettlesShowing ==
  ASSUME Base, Base', Showing, OldSettles
  PROVE  Showing' /\ NoneRevived
<1>1. /\ mode = "v1" /\ cards # <<>> /\ mine \in 1..Len(cards) /\ Len(cards) \in Nat
      /\ UNCHANGED <<state, mode, text, queue, mine, frozen, fin, call, told, overruled,
                      split>>
  BY OldShown, BaseFields, LenProperties DEF OldSettles, caller, Base, LifeInv
<1>2. CASE cards' = cards
  BY <1>1, <1>2, QuietKeeps DEF Quiet, Going, Showing, ReplyInv, NoneRevived
<1>3. CASE cards' # cards
  <2>1. /\ cards[1].slots
        /\ \E x \in Card :
             /\ Becomes(1, x) /\ x.face = cards[1].face /\ x.from = cards[1].from
             /\ x.slots = cards[1].slots /\ x.cut = cards[1].cut
             /\ x.missed = cards[1].missed
    BY <1>3, OldShown
  <2>2. /\ cards' # <<>> /\ Len(cards') = Len(cards)
        /\ \A i \in 1..Len(cards) :
             /\ cards'[i].face = cards[i].face /\ cards'[i].from = cards[i].from
             /\ cards'[i].slots = cards[i].slots /\ cards'[i].cut = cards[i].cut
             /\ cards'[i].missed = cards[i].missed
             /\ i # 1 => cards'[i].to = cards[i].to
    BY <2>1 DEF Becomes
  <2>3. cards[1].face # "frozen" /\ 1 \in 1..Len(cards)
    BY <1>1, <2>1 DEF Showing, FacesInv
  <2>4. fin.step # "next"
    BY <1>1 DEF Base, FinInv, NoFin
  <2>5. Current' = Current /\ Current \in 1..Len(cards) /\ mine' = mine
    BY <1>1 DEF Current
  <2>6. FacesInv'
    <3>1. \A i \in 1..Len(cards') :
            i # Current' /\ (mode' = "streaming" \/ i # mine' + 1) => Ended(cards'[i])
      BY <1>1, <2>2, <2>5 DEF Showing, FacesInv, Ended
    <3>2. mode' # "streaming" /\ Len(cards') = mine' + 1
            => /\ cards'[mine' + 1].face = "streaming"
               /\ cards'[mine' + 1].from = frozen' + Slice
      <4> SUFFICES ASSUME Len(cards) = mine + 1
                   PROVE  /\ cards'[mine + 1].face = "streaming"
                          /\ cards'[mine + 1].from = frozen + Slice
        BY <1>1, <2>2
      <4>1. mine + 1 \in 1..Len(cards)
        BY <1>1
      <4> QED BY <1>1, <2>2, <4>1 DEF Showing, FacesInv
    <3>3. state' # "streaming" /\ fin' = NoFin => Ended(cards'[Current'])
      BY <1>1, <2>2, <2>5 DEF Showing, FacesInv, Ended
    <3>4. state' = "streaming" \/ Len(queue') > 1 => cards'[Current'].face = "streaming"
      BY <1>1, <2>2, <2>5 DEF Showing, FacesInv
    <3>5. \A i \in 1..Len(cards') :
            cards'[i].slots => cards'[i].face # "frozen" /\ i = 1
      BY <1>1, <2>2 DEF Showing, FacesInv
    <3>6. queue' # <<>> /\ queue'[1].tail
            => cards'[mine'].to = frozen' + Slice /\ cards'[mine'].face = "frozen"
      BY <1>1, <2>2, <2>3 DEF Showing, FacesInv
    <3> QED BY <1>1, <2>4, <3>1, <3>2, <3>3, <3>4, <3>5, <3>6 DEF FacesInv
  <2>7. MeetInv'
    <3>1. cards'[1].from = 0
      BY <1>1, <2>2, <2>3 DEF Showing, MeetInv
    <3>2. mode' # "streaming" /\ (queue' # <<>> \/ state' = "streaming")
            => cards'[mine'].from = frozen'
      BY <1>1, <2>2 DEF Showing, MeetInv
    <3>3. ASSUME Going'
          PROVE  /\ \A i \in 1..Len(cards') :
                      i < Len(cards') /\ cards'[i].face = "frozen" /\ ~cards'[i].missed
                        => cards'[i].to = cards'[i + 1].from
                 /\ fin'.step \in {"disable", "full", "first"} => Len(cards') = 1
                 /\ mode' # "streaming" /\ queue' # <<>> /\ ~queue'[1].tail
                      /\ fin'.goal # "usage" => cards'[mine'].face = "streaming"
      <4>1. Going
        BY <1>1, <3>3 DEF Going
      <4>2. ASSUME NEW i \in 1..Len(cards'), i < Len(cards'),
                   cards'[i].face = "frozen", ~cards'[i].missed
            PROVE  cards'[i].to = cards'[i + 1].from
        <5>1. i + 1 \in 1..Len(cards) /\ i \in 1..Len(cards) /\ i < Len(cards)
          BY <1>1, <2>2, <4>2
        <5>2. i # 1
          BY <2>2, <2>3, <4>2
        <5>3. /\ cards'[i].to = cards[i].to /\ cards'[i + 1].from = cards[i + 1].from
              /\ cards[i].face = "frozen" /\ ~cards[i].missed
          BY <2>2, <4>2, <5>1, <5>2
        <5> QED BY <1>1, <4>1, <5>1, <5>3 DEF Showing, MeetInv
      <4>3. fin'.step \in {"disable", "full", "first"} => Len(cards') = 1
        BY <1>1, <2>2, <4>1 DEF Showing, MeetInv
      <4>4. mode' # "streaming" /\ queue' # <<>> /\ ~queue'[1].tail
              /\ fin'.goal # "usage" => cards'[mine'].face = "streaming"
        BY <1>1, <2>2, <4>1 DEF Showing, MeetInv
      <4> QED BY <4>2, <4>3, <4>4
    <3> QED BY <1>1, <2>4, <3>1, <3>2, <3>3 DEF MeetInv
  <2>8. ReplyInv'
    <3> SUFFICES ASSUME told = "card", ~overruled PROVE ReplyInv'
      BY <1>1 DEF ReplyInv
    <3>1. ~cards[Len(cards)].slots /\ OnCard(cards, Reply)
      BY <1>1 DEF Showing, ReplyInv
    <3>2. Len(cards) # 1 /\ Len(cards) \in 1..Len(cards)
      BY <1>1, <2>1, <3>1
    <3>3. OnCard(cards', Reply)
      BY <2>2, <3>1, <3>2, OnCardStays
    <3>4. ~cards'[Len(cards')].slots
      BY <2>2, <3>1, <3>2
    <3>5. Reply' = Reply
      BY <1>1 DEF Reply, Visible
    <3> QED BY <1>1, <2>2, <3>3, <3>4, <3>5 DEF Showing, ReplyInv
  <2>9. NoneRevived
    BY <2>2 DEF NoneRevived
  <2> QED BY <2>6, <2>7, <2>8, <2>9 DEF Showing
<1> QED BY <1>2, <1>3

-----------------------------------------------------------------------------
(* What the cards show: the end of a finalization.                         *)

\* A finalization has returned or thrown.
Returned(ok) ==
  /\ Len(queue') <= 1 /\ state' # "streaming" /\ fin'.step \notin {"first", "next"}
  /\ queue' # <<>> => call' = "fallback" /\ ~queue'[1].tail
  /\ queue' = <<>> => fin' = NoFin /\ state' = state
  /\ told' = told \/ told' = "plain"
       \/ (told' = "card" /\ ok /\ fin.goal = "completed" /\ queue' = <<>>)
  /\ Going' => Going

LEMMA AtMostOne == \A n \in Nat : n <= 1 => n = 0 \/ n = 1
  OBVIOUS

LEMMA ShortChain ==
  ASSUME NEW q \in Seq(Job), Len(q) <= 1
  PROVE  q = <<>> \/ Len(q) = 1
<1>1. Len(q) \in Nat
  BY LenProperties
<1>2. Len(q) = 0 \/ Len(q) = 1
  BY <1>1, AtMostOne
<1> QED BY <1>2, EmptySeq

LEMMA FinishedReturns ==
  ASSUME Base, Frame, fin # NoFin, split' = split, NEW ok \in BOOLEAN,
         Finished(ok, <<>>)
  PROVE  Returned(ok)
<1>1. /\ queue' \in Seq(Job)
      /\ queue' # <<>> => /\ call' = "fallback" /\ Len(queue') = 1
                          /\ ~queue'[1].tail /\ state' = "aborted"
      /\ queue' = <<>> => fin' = NoFin /\ state' = state
      /\ state' \in Final \cup {"error"} /\ fin'.step \notin {"first", "next"}
      /\ told' = told \/ told' = "plain"
           \/ (told' = "card" /\ ok /\ fin.goal = "completed" /\ queue' = <<>>)
      /\ call = "fallback" => call' = "fallback" \/ told' = "plain"
      /\ told = "plain" => told' = "plain"
  BY FinishedKeeps
<1>2. Len(queue') <= 1
  <2>1. CASE queue' = <<>>
    <3>1. Len(queue') = 0
      BY <2>1
    <3> QED BY <3>1
  <2>2. CASE queue' # <<>>
    <3>1. Len(queue') = 1
      BY <1>1, <2>2
    <3> QED BY <3>1
  <2> QED BY <2>1, <2>2
<1> QED BY <1>1, <1>2 DEF Returned, Going, Final

\* Whose reply is on the card has at most a usage note under way.
LEMMA ReplyAtRest ==
  ASSUME Base, ReplyInv, told = "card", ~overruled
  PROVE  /\ fin = NoFin \/ fin.goal = "usage"
         /\ Going /\ state = "completed"
<1>1. state = "completed" /\ call = "none"
  BY DEF ReplyInv
<1>2. fin = NoFin \/ fin.goal = "usage"
  BY <1>1, BaseFields DEF Base, FinInv, Goals, Final
<1> QED BY <1>1, <1>2 DEF Going

LEMMA ReturnedReply ==
  ASSUME Base, Base', Frame, split' = split, ReplyInv, NEW ok, Returned(ok),
         fin # NoFin,
         ok /\ fin.goal = "completed" =>
           /\ OnCard(cards', Reply) /\ (mode = "v1" /\ mine' = 1 => text <= Slice)
           /\ mode = "v1" => ~cards'[Len(cards')].slots,
         told = "card" /\ ~overruled =>
           /\ OnCard(cards', Reply) /\ (mode = "v1" /\ mine' = 1 => text <= Slice)
           /\ mode = "v1" => ~cards'[Len(cards')].slots
  PROVE  ReplyInv'
<1> SUFFICES ASSUME told' = "card", ~overruled'
             PROVE  ReplyInv'
  BY DEF ReplyInv
<1>1. /\ ~overruled /\ mode' = mode /\ text' = text /\ cards' # <<>>
      /\ Reply' = Reply
  BY DEF Frame, Reply, Visible
<1>2. call' = "none"
  BY DEF Base, LifeInv
<1>3. queue' = <<>> /\ fin' = NoFin /\ state' = state
  BY <1>2 DEF Returned
<1>4. state = "completed"
  <2>1. CASE told = "card"
    BY <1>1, <2>1 DEF ReplyInv
  <2>2. CASE fin.goal = "completed"
    BY <2>2 DEF Base, FinInv
  <2> QED BY <2>1, <2>2 DEF Returned
<1>5. /\ OnCard(cards', Reply) /\ (mode = "v1" /\ mine' = 1 => text <= Slice)
      /\ mode = "v1" => ~cards'[Len(cards')].slots
  BY <1>1 DEF Returned
<1>6. Len(queue') <= 1 /\ fin'.goal # "usage"
  BY <1>3 DEF Returned, NoFin
<1> QED BY <1>1, <1>2, <1>3, <1>4, <1>5, <1>6 DEF ReplyInv

\* A step of a finalization of a streaming card, on which card 1 becomes x.
LEMMA SplitFaces ==
  ASSUME FacesInv, cards # <<>>, mode = "streaming", mode' = "streaming", NEW x,
         Becomes(1, x), state' # "streaming", Len(queue') <= 1,
         queue' # <<>> => ~queue'[1].tail, fin' = NoFin => Ended(x),
         fin'.step = "next" => x.face # "streaming", x.slots => x.face # "frozen",
         queue' = <<>> \/ Len(queue') = 1
  PROVE  FacesInv'
<1>1. /\ cards' # <<>> /\ Len(cards') = Len(cards) /\ cards'[1] = x
      /\ \A k \in 1..Len(cards) : k # 1 => cards'[k] = cards[k]
  BY DEF Becomes
<1>2. Current = 1 /\ Current' = 1
  BY DEF Current
<1>3. \A i \in 1..Len(cards') : i # 1 => Ended(cards'[i])
  BY <1>1, <1>2 DEF FacesInv
<1>4. \A i \in 1..Len(cards') : cards'[i].slots => cards'[i].face # "frozen" /\ i = 1
  BY <1>1 DEF FacesInv
<1>5. ~(state' = "streaming" \/ Len(queue') > 1)
  BY EmptySeq
<1> QED BY <1>1, <1>2, <1>3, <1>4, <1>5 DEF FacesInv

LEMMA SplitMeets ==
  ASSUME MeetInv, cards \in Seq(Card), cards # <<>>, mode' = "streaming", NEW x,
         Becomes(1, x), x.from = 0, Going' => Going,
         Going' /\ x.face = "frozen" /\ ~x.missed => Len(cards) = 1,
         Going' /\ fin'.step \in {"disable", "full", "first"} => Len(cards) = 1,
         Going' /\ fin'.step = "next" => Len(cards) = 1 /\ x.to = fin'.at
  PROVE  MeetInv'
<1>1. /\ cards' # <<>> /\ Len(cards') = Len(cards) /\ cards'[1] = x
      /\ \A k \in 1..Len(cards) : k # 1 => cards'[k] = cards[k]
      /\ Len(cards) \in Nat
  BY LenProperties DEF Becomes
<1>2. ASSUME Going', NEW i \in 1..Len(cards'), i < Len(cards'),
             cards'[i].face = "frozen", ~cards'[i].missed
      PROVE  cards'[i].to = cards'[i + 1].from
  <2>1. i # 1
    BY <1>1, <1>2
  <2>2. i + 1 \in 1..Len(cards) /\ i + 1 # 1 /\ i \in 1..Len(cards) /\ i < Len(cards)
    BY <1>1, <1>2
  <2>3. cards'[i] = cards[i] /\ cards'[i + 1] = cards[i + 1]
    BY <1>1, <2>1, <2>2
  <2> QED BY <1>2, <2>2, <2>3 DEF MeetInv
<1>3. ASSUME Going'
      PROVE  /\ fin'.step \in {"disable", "full", "first"} => Len(cards') = 1
             /\ fin'.step = "next" => cards'[Len(cards')].to = fin'.at
  BY <1>1, <1>3
<1> QED BY <1>1, <1>2, <1>3 DEF MeetInv

\* Card 1 is updated, or misses the update.
LEMMA FirstRevived ==
  ASSUME cards \in Seq(Card), NEW x, Becomes(1, x),
         x.face # "streaming" \/ x.face = cards[1].face
  PROVE  NoneRevived
  BY DEF NoneRevived, Becomes

\* A finalization of a streaming card goes on with its next step.
Stepped(step) ==
  /\ UNCHANGED <<state, call, told>> /\ fin'.step = step /\ fin' # NoFin
  /\ fin'.goal = fin.goal /\ Len(queue') = 1 /\ queue' # <<>> /\ ~queue'[1].tail

LEMMA StepSteps ==
  ASSUME Base, fin # NoFin, NEW step \in {"full", "first", "cut"}, Step(step, <<>>)
  PROVE  Stepped(step)
<1>1. fin \in Fin /\ fin.goal \in Goals /\ text \in 0..MaxText
  BY BaseFields
<1>2. /\ fin' # NoFin /\ fin'.goal = fin.goal /\ fin'.step = step
      /\ Len(queue') = 1 /\ queue' # <<>> /\ ~queue'[1].tail
      /\ UNCHANGED <<state, call, told>>
  BY <1>1, StepOrders
<1> QED BY <1>2 DEF Stepped

\* No reply is on the card while its finalization goes on.
LEMMA NoReplyYet ==
  ASSUME Base, ReplyInv, fin # NoFin, fin.goal # "usage", told' = told,
         overruled' = overruled
  PROVE  ReplyInv'
  BY ReplyAtRest DEF ReplyInv

LEMMA DisabledShowing ==
  ASSUME Base, Base', Showing, queue # <<>>, queue[1].op = "finish", FinishFrame,
         fin.step = "disable", NEW o \in Outcomes, Disabled(o)
  PROVE  Showing' /\ NoneRevived
<1>1. /\ Tail(queue) = <<>> /\ fin # NoFin /\ mode = "streaming" /\ cards # <<>>
      /\ cards' = cards
  BY FinishHead DEF Disabled
<1>2. PICK step \in {"full", "first", "cut"} : Stepped(step)
  <2>1. PICK step \in {"full", "first", "cut"} : Step(step, <<>>)
    BY <1>1 DEF Disabled
  <2> QED BY <1>1, <2>1, StepSteps
<1>3. state # "streaming" /\ fin.goal # "usage"
  BY <1>1 DEF Base, FinInv
<1>4. ~(told = "card" /\ ~overruled)
  BY <1>1, <1>3, ReplyAtRest DEF Showing
<1>5. Showing'
  BY <1>1, <1>2, <1>3, <1>4, QuietKeeps DEF Quiet, Going, FinishFrame, Stepped
<1>6. NoneRevived
  BY <1>1 DEF NoneRevived
<1> QED BY <1>5, <1>6

LEMMA FullUpdatedShowing ==
  ASSUME Base, Base', Showing, queue # <<>>, queue[1].op = "finish", FinishFrame,
         fin.step = "full", NEW o \in Outcomes, FullUpdated(o)
  PROVE  Showing' /\ NoneRevived
<1>1. /\ Tail(queue) = <<>> /\ fin # NoFin /\ mode = "streaming" /\ mine = 1
      /\ cards # <<>> /\ cards \in Seq(Card) /\ 1 \in 1..Len(cards)
      /\ fin.goal \in Goals /\ FaceOf(fin.goal) \in Final
      /\ FaceOf(fin.goal) # "streaming" /\ text \in 0..MaxText
  BY FinishHead
<1>2. FacesInv /\ MeetInv /\ ReplyInv
  BY DEF Showing
<1> DEFINE s == Structured(FaceOf(fin.goal), text)
           c == [s EXCEPT !.slots = TRUE]
<1>3. s \in Card /\ s.face = FaceOf(fin.goal) /\ s.from = 0 /\ s.to = Body[text]
  BY <1>1, StructuredTyped
<1> HIDE DEF s
<1>4. c \in Card /\ c.face = FaceOf(fin.goal) /\ c.from = 0 /\ c.to = Body[text]
  BY <1>3 DEF Card
<1>5. Shows(1, o, c) /\ split' = split
  BY DEF FullUpdated, s
<1> HIDE DEF c
<1>6. PICK x \in Card : /\ Becomes(1, x)
                        /\ IF o = "failed" THEN Missed(cards[1], x) ELSE x = c
  BY <1>1, <1>4, <1>5, CardShows
<1>7. /\ cards' # <<>> /\ Len(cards') = Len(cards) /\ cards'[1] = x
      /\ \A k \in 1..Len(cards) : k # 1 => cards'[k] = cards[k]
  BY <1>6 DEF Becomes
<1>8. /\ Ended(x) /\ x.from = 0 /\ (x.face = "frozen" => x.missed)
      /\ x.face # "streaming" \/ x.face = cards[1].face
      /\ x.slots => x.face # "frozen"
  <2>1. /\ cards[1].from = 0
        /\ cards[1].slots => cards[1].face # "frozen"
    BY <1>1, <1>2 DEF FacesInv, MeetInv
  <2> QED BY <1>1, <1>4, <1>6, <2>1 DEF Missed, Ended, Final
<1>9. Frame /\ mode' = "streaming" /\ overruled' = overruled
  BY <1>1, <1>7 DEF Frame, FinishFrame
<1>10. NoneRevived
  BY <1>1, <1>6, <1>8, FirstRevived
<1>11. CASE Finished(TRUE, <<>>) /\ (o = "ok" \/ fin.goal = "usage")
  <2>1. Returned(TRUE)
    BY <1>1, <1>5, <1>9, <1>11, FinishedReturns
  <2>2. FacesInv'
    <3>1. (queue' = <<>> \/ Len(queue') = 1) /\ state' # "streaming"
          /\ Len(queue') <= 1 /\ (queue' # <<>> => ~queue'[1].tail)
          /\ fin'.step # "next"
      <4>1. queue' \in Seq(Job)
        BY BaseFields DEF Base, TypeOK
      <4>2. queue' = <<>> \/ Len(queue') = 1
        BY <2>1, <4>1, ShortChain DEF Returned
      <4> QED BY <2>1, <4>2 DEF Returned
    <3> QED BY <1>1, <1>2, <1>6, <1>8, <1>9, <3>1, SplitFaces
  <2>3. MeetInv'
    <3>1. Going' => fin'.step \notin {"disable", "full", "first", "next"}
      BY <2>1 DEF Returned, Going, NoFin
    <3>2. Going' => Going
      BY <2>1 DEF Returned
    <3> QED BY <1>1, <1>2, <1>6, <1>8, <1>9, <3>1, <3>2, SplitMeets
  <2>4. ReplyInv'
    <3>1. fin.goal = "completed" => OnCard(cards', Reply)
      <4> SUFFICES ASSUME fin.goal = "completed" PROVE OnCard(cards', Reply)
        OBVIOUS
      <4>1. Going
        BY DEF Base, FinInv, LifeInv, Going
      <4>2. Len(cards) = 1 /\ o = "ok"
        BY <1>1, <1>2, <1>11, <4>1 DEF MeetInv
      <4>3. Reply = Body[text]
        BY <1>1 DEF Base, FinInv, Reply, Visible
      <4>4. cards'[Len(cards')].face = "completed" /\ cards'[Len(cards')].to = Reply
        BY <1>4, <1>6, <1>7, <4>2, <4>3 DEF FaceOf
      <4> QED BY <4>4 DEF OnCard
    <3>2. told = "card" /\ ~overruled => OnCard(cards', Reply)
      <4> SUFFICES ASSUME told = "card", ~overruled PROVE OnCard(cards', Reply)
        OBVIOUS
      <4>1. fin.goal = "usage" /\ Going /\ OnCard(cards, Reply)
        BY <1>1, <1>2, ReplyAtRest DEF ReplyInv
      <4>2. Len(cards) = 1
        BY <1>1, <1>2, <4>1 DEF MeetInv
      <4>3. CASE o = "failed"
        BY <1>6, <1>7, <4>1, <4>2, <4>3, OnCardStays DEF Missed
      <4>4. CASE o # "failed"
        <5>1. Reply = Body[text]
          BY <1>1, <4>1 DEF Base, FinInv, Reply, Visible
        <5>2. cards'[Len(cards')].face = "completed" /\ cards'[Len(cards')].to = Reply
          BY <1>4, <1>6, <1>7, <4>1, <4>2, <4>4, <5>1 DEF FaceOf
        <5> QED BY <5>2 DEF OnCard
      <4> QED BY <4>3, <4>4
    <3> QED BY <1>1, <1>2, <1>5, <1>9, <2>1, <3>1, <3>2, ReturnedReply
  <2> QED BY <1>10, <2>2, <2>3, <2>4 DEF Showing
<1>12. CASE Step("cut", <<>>) /\ fin.goal # "usage"
  <2>1. Stepped("cut")
    BY <1>1, <1>12, StepSteps
  <2>2. state # "streaming"
    BY <1>1 DEF Base, FinInv
  <2>3. FacesInv'
    BY <1>1, <1>2, <1>6, <1>8, <1>9, <2>1, <2>2, SplitFaces DEF Stepped
  <2>4. MeetInv'
    BY <1>1, <1>2, <1>6, <1>8, <1>9, <2>1, SplitMeets DEF Stepped, Going
  <2>5. ReplyInv'
    BY <1>1, <1>2, <1>9, <1>12, <2>1, NoReplyYet DEF Stepped
  <2> QED BY <1>10, <2>3, <2>4, <2>5 DEF Showing
<1> QED BY <1>1, <1>11, <1>12 DEF FullUpdated

LEMMA FirstUpdatedShowing ==
  ASSUME Base, Base', Showing, queue # <<>>, queue[1].op = "finish", FinishFrame,
         fin.step = "first", NEW o \in Outcomes, FirstUpdated(o)
  PROVE  Showing' /\ NoneRevived
<1>1. /\ Tail(queue) = <<>> /\ fin # NoFin /\ mode = "streaming" /\ mine = 1
      /\ cards # <<>> /\ cards \in Seq(Card) /\ 1 \in 1..Len(cards)
      /\ text \in 0..MaxText /\ fin \in Fin
  BY FinishHead, BaseFields
<1>2. FacesInv /\ MeetInv /\ ReplyInv
  BY DEF Showing
<1>3. state # "streaming" /\ fin.goal # "usage" /\ text > Limit
  BY <1>1 DEF Base, FinInv
<1> DEFINE c == Shown("frozen", 0, Slice)
<1>4. /\ c \in Card /\ c.face = "frozen" /\ c.from = 0 /\ c.to = Slice
      /\ ~c.missed /\ ~c.slots
  <2>1. Slice \in 0..MaxText /\ 0 \in 0..MaxText
    BY <1>1, <1>3, CardSizes
  <2> QED BY <2>1, CardSizes DEF Shown, Card
<1>5. Shows(1, o, c) /\ split' = split
  BY DEF FirstUpdated
<1> HIDE DEF c
<1>6. PICK x \in Card : /\ Becomes(1, x)
                        /\ IF o = "failed" THEN Missed(cards[1], x) ELSE x = c
  BY <1>1, <1>4, <1>5, CardShows
<1>7. cards' # <<>>
  BY <1>6 DEF Becomes
<1>8. /\ Ended(x) /\ x.from = 0 /\ (x.slots => x.face # "frozen")
      /\ x.face # "streaming" \/ x.face = cards[1].face
  <2>1. cards[1].from = 0 /\ (cards[1].slots => cards[1].face # "frozen")
    BY <1>1, <1>2 DEF FacesInv, MeetInv
  <2> QED BY <1>4, <1>6, <2>1 DEF Missed, Ended
<1>9. mode' = "streaming" /\ overruled' = overruled
  BY <1>1 DEF FinishFrame
<1>10. NoneRevived
  BY <1>1, <1>6, <1>8, FirstRevived
<1>11. Going => Len(cards) = 1
  BY <1>1, <1>2 DEF MeetInv
<1>12. CASE o = "ok"
  <2>1. /\ fin' = [fin EXCEPT !.step = "next", !.at = Slice] /\ queue' = <<>>
        /\ UNCHANGED <<state, call, told>>
    BY <1>1, <1>12 DEF FirstUpdated
  <2>2. fin'.step = "next" /\ fin'.at = Slice
    BY <1>1, <2>1 DEF Fin
  <2>3. fin' # NoFin
    BY <2>2 DEF NoFin
  <2>4. x = c /\ Len(queue') <= 1
    BY <1>6, <1>12, <2>1
  <2>5. FacesInv'
    BY <1>1, <1>2, <1>3, <1>4, <1>6, <1>8, <1>9, <2>1, <2>3, <2>4, SplitFaces
  <2>6. MeetInv'
    BY <1>1, <1>2, <1>4, <1>6, <1>8, <1>9, <1>11, <2>1, <2>2, <2>4, SplitMeets DEF Going
  <2>7. ReplyInv'
    BY <1>1, <1>2, <1>3, <1>9, <2>1, NoReplyYet
  <2> QED BY <1>10, <2>5, <2>6, <2>7 DEF Showing
<1>13. CASE o # "ok"
  <2>1. Stepped("cut")
    BY <1>1, <1>13, StepSteps DEF FirstUpdated
  <2>2. FacesInv'
    BY <1>1, <1>2, <1>3, <1>6, <1>8, <1>9, <2>1, SplitFaces DEF Stepped
  <2>3. MeetInv'
    BY <1>1, <1>2, <1>6, <1>8, <1>9, <1>11, <2>1, SplitMeets DEF Stepped, Going
  <2>4. ReplyInv'
    BY <1>1, <1>2, <1>3, <1>9, <2>1, NoReplyYet DEF Stepped
  <2> QED BY <1>10, <2>2, <2>3, <2>4 DEF Showing
<1> QED BY <1>12, <1>13

LEMMA CutUpdatedShowing ==
  ASSUME Base, Base', Showing, queue # <<>>, queue[1].op = "finish", FinishFrame,
         fin.step = "cut", NEW o \in Outcomes, CutUpdated(o)
  PROVE  Showing' /\ NoneRevived
<1>1. /\ Tail(queue) = <<>> /\ fin # NoFin /\ mode = "streaming" /\ mine = 1
      /\ cards # <<>> /\ cards \in Seq(Card) /\ 1 \in 1..Len(cards)
      /\ fin.goal \in Goals /\ FaceOf(fin.goal) \in Final
      /\ FaceOf(fin.goal) # "streaming" /\ text \in 0..MaxText
  BY FinishHead
<1>2. FacesInv /\ MeetInv /\ ReplyInv
  BY DEF Showing
<1> DEFINE s == Shown(FaceOf(fin.goal), 0, Smaller(text, Slice))
           c == [s EXCEPT !.cut = TRUE]
<1>3. s \in Card /\ s.face = FaceOf(fin.goal) /\ s.from = 0 /\ ~s.slots
  <2>1. Smaller(text, Slice) \in 0..MaxText /\ 0 \in 0..MaxText
    BY <1>1, CardSizes DEF Smaller
  <2> QED BY <1>1, <2>1, ShownTyped
<1> HIDE DEF s
<1>4. c \in Card /\ c.face = FaceOf(fin.goal) /\ c.from = 0 /\ c.cut /\ ~c.slots
  BY <1>3 DEF Card
<1>5. Shows(1, o, c) /\ split' = split /\ Finished(o = "ok", <<>>)
  BY <1>1 DEF CutUpdated, s
<1> HIDE DEF c
<1>6. PICK x \in Card : /\ Becomes(1, x)
                        /\ IF o = "failed" THEN Missed(cards[1], x) ELSE x = c
  BY <1>1, <1>4, <1>5, CardShows
<1>7. cards' # <<>> /\ Len(cards') = Len(cards) /\ cards'[1] = x
  BY <1>6 DEF Becomes
<1>8. /\ Ended(x) /\ x.from = 0 /\ (x.face = "frozen" => x.missed)
      /\ x.face # "streaming" \/ x.face = cards[1].face
      /\ x.slots => x.face # "frozen"
  <2>1. /\ cards[1].from = 0
        /\ cards[1].slots => cards[1].face # "frozen"
    BY <1>1, <1>2 DEF FacesInv, MeetInv
  <2> QED BY <1>1, <1>4, <1>6, <2>1 DEF Missed, Ended, Final
<1>9. Frame /\ mode' = "streaming"
  BY <1>1, <1>7 DEF Frame, FinishFrame
<1>10. NoneRevived
  BY <1>1, <1>6, <1>8, FirstRevived
<1>11. Returned(o = "ok")
  <2>1. (o = "ok") \in BOOLEAN
    OBVIOUS
  <2> QED BY <1>1, <1>5, <1>9, <2>1, FinishedReturns
<1>12. FacesInv'
  <2>1. queue' \in Seq(Job)
    BY BaseFields DEF Base, TypeOK
  <2>2. queue' = <<>> \/ Len(queue') = 1
    BY <1>11, <2>1, ShortChain DEF Returned
  <2>3. state' # "streaming" /\ Len(queue') <= 1 /\ (queue' # <<>> => ~queue'[1].tail)
        /\ fin'.step # "next"
    BY <1>11 DEF Returned
  <2> QED BY <1>1, <1>2, <1>6, <1>8, <1>9, <2>2, <2>3, SplitFaces
<1>13. MeetInv'
  <2>1. Going' => fin'.step \notin {"disable", "full", "first", "next"}
    BY <1>11 DEF Returned, Going, NoFin
  <2>2. Going' => Going
    BY <1>11 DEF Returned
  <2> QED BY <1>1, <1>2, <1>6, <1>8, <1>9, <2>1, <2>2, SplitMeets
<1>14. ReplyInv'
  <2>1. o = "ok" => OnCard(cards', Reply)
    BY <1>1, <1>4, <1>6, <1>7 DEF OnCard
  <2>2. ~(told = "card" /\ ~overruled)
    <3>1. fin.goal # "usage"
      BY <1>1 DEF Base, FinInv
    <3> QED BY <1>1, <1>2, <3>1, ReplyAtRest
  <2> QED BY <1>1, <1>2, <1>5, <1>9, <1>11, <2>1, <2>2, ReturnedReply
<1> QED BY <1>10, <1>12, <1>13, <1>14 DEF Showing

LEMMA FinishSettlesShowing ==
  ASSUME Base, Base', Showing, FinishSettles
  PROVE  Showing' /\ NoneRevived
<1>1. queue # <<>> /\ queue[1].op = "finish" /\ FinishFrame
  BY BaseFields, HeadOf DEF FinishSettles, FinishFrame
<1>2. PICK o \in Outcomes :
        \/ fin.step = "disable" /\ Disabled(o)
        \/ fin.step = "full" /\ FullUpdated(o)
        \/ fin.step = "first" /\ FirstUpdated(o)
        \/ fin.step = "cut" /\ CutUpdated(o)
  BY DEF FinishSettles
<1> QED BY <1>1, <1>2, DisabledShowing, FullUpdatedShowing, FirstUpdatedShowing,
           CutUpdatedShowing

\* One more card of a split.
LEMMA SplitAdds ==
  ASSUME FacesInv, MeetInv, cards # <<>>, cards \in Seq(Card), mode = "streaming",
         mode' = "streaming", NEW x, Added(x), fin.step = "next",
         state' # "streaming", Len(queue') <= 1, queue' # <<>> => ~queue'[1].tail,
         queue' = <<>> \/ Len(queue') = 1, x.face # "streaming", ~x.slots,
         x.from = fin.at, Going' => Going,
         Going' => fin'.step \notin {"disable", "full", "first"},
         Going' /\ fin'.step = "next" => x.to = fin'.at
  PROVE  FacesInv' /\ MeetInv' /\ NoneRevived
<1>1. /\ cards' # <<>> /\ Len(cards') = Len(cards) + 1 /\ cards'[Len(cards) + 1] = x
      /\ \A k \in 1..Len(cards) : cards'[k] = cards[k]
      /\ Len(cards) \in Nat /\ Len(cards) >= 1
  BY LenProperties, EmptySeq DEF Added
<1>2. Current = 1 /\ Current' = 1 /\ cards'[1] = cards[1]
  BY <1>1 DEF Current
<1>3. cards[1].face # "streaming"
  BY DEF FacesInv
<1>4. \A i \in 1..Len(cards') : i \in 1..Len(cards) \/ i = Len(cards) + 1
  BY <1>1
<1>5. FacesInv'
  <2>1. \A i \in 1..Len(cards') : i # 1 => Ended(cards'[i])
    <3>1. \A i \in 1..Len(cards) : i # 1 => Ended(cards[i])
      BY <1>2 DEF FacesInv
    <3>2. Ended(x)
      BY DEF Ended
    <3> QED BY <1>1, <1>4, <3>1, <3>2
  <2>2. \A i \in 1..Len(cards') : cards'[i].slots => cards'[i].face # "frozen" /\ i = 1
    <3>1. \A i \in 1..Len(cards) : cards[i].slots => cards[i].face # "frozen" /\ i = 1
      BY DEF FacesInv
    <3> QED BY <1>1, <1>4, <3>1
  <2>3. ~(state' = "streaming" \/ Len(queue') > 1)
    BY EmptySeq
  <2>4. Ended(cards'[1])
    BY <1>2, <1>3 DEF Ended
  <2> QED BY <1>2, <1>3, <2>1, <2>2, <2>3, <2>4 DEF FacesInv
<1>6. MeetInv'
  <2>1. cards'[1].from = 0
    BY <1>2 DEF MeetInv
  <2>2. ASSUME Going', NEW i \in 1..Len(cards'), i < Len(cards'),
               cards'[i].face = "frozen", ~cards'[i].missed
        PROVE  cards'[i].to = cards'[i + 1].from
    <3>1. i \in 1..Len(cards) /\ cards'[i] = cards[i]
      BY <1>1, <2>2
    <3>2. CASE i < Len(cards)
      <4>1. i + 1 \in 1..Len(cards)
        BY <1>1, <3>1, <3>2
      <4>2. cards'[i + 1] = cards[i + 1]
        BY <1>1, <4>1
      <4> QED BY <2>2, <3>1, <3>2, <4>2 DEF MeetInv
    <3>3. CASE i = Len(cards)
      <4>1. cards[i].to = fin.at
        BY <2>2, <3>1, <3>3 DEF MeetInv
      <4> QED BY <1>1, <3>1, <3>3, <4>1
    <3>4. i < Len(cards) \/ i = Len(cards)
      BY <1>1, <3>1
    <3> QED BY <3>2, <3>3, <3>4
  <2>3. ASSUME Going'
        PROVE  fin'.step = "next" => cards'[Len(cards')].to = fin'.at
    BY <1>1, <2>3
  <2> QED BY <2>1, <2>2, <2>3 DEF MeetInv
<1>7. NoneRevived
  BY <1>1 DEF NoneRevived
<1> QED BY <1>5, <1>6, <1>7

LEMMA NextCardShowing ==
  ASSUME Base, Base', Showing, NextCard
  PROVE  Showing' /\ NoneRevived
<1>1. /\ fin.step = "next" /\ FinishFrame /\ split' = split
  BY DEF NextCard, FinishFrame
<1> DEFINE to == Smaller(text, fin.at + Slice)
<1>2. /\ queue = <<>> /\ fin # NoFin /\ mode = "streaming" /\ mine = 1
      /\ cards # <<>> /\ cards \in Seq(Card) /\ 1 \in 1..Len(cards)
      /\ fin.goal \in Final /\ FaceOf(fin.goal) \in Final
      /\ text \in 0..MaxText /\ fin.at \in 0..MaxText /\ to \in 0..MaxText
  BY <1>1, NextHead
<1>3. FacesInv /\ MeetInv /\ ReplyInv /\ fin \in Fin
  BY BaseFields DEF Showing
<1>4. state # "streaming" /\ fin.goal # "usage" /\ Len(<<>>) = 0
  BY <1>2, EmptyOrdered DEF Base, FinInv, Final
<1>5. ~(told = "card" /\ ~overruled)
  BY <1>2, <1>3, <1>4, ReplyAtRest
<1>6. ASSUME cards' # <<>>
      PROVE  Frame /\ mode' = "streaming" /\ overruled' = overruled
  BY <1>1, <1>2, <1>6 DEF Frame, FinishFrame
<1> DEFINE face == IF to = text THEN FaceOf(fin.goal) ELSE "frozen"
           c == Shown(face, fin.at, to)
<1>7. \/ /\ cards' = Append(cards, c)
         /\ IF to = text
             THEN Finished(TRUE, queue)
             ELSE /\ fin' = [fin EXCEPT !.at = to]
                  /\ UNCHANGED <<state, call, told, queue>>
      \/ OpenFails(1) /\ Step("cut", queue) /\ UNCHANGED <<state, call, told>>
  BY DEF NextCard, Step
<1>8. /\ c \in Card /\ c.face # "streaming" /\ ~c.slots /\ c.from = fin.at /\ c.to = to
      /\ to = text => c.face = FaceOf(fin.goal)
  <2>1. /\ face \in Final \cup {"streaming", "frozen"} /\ face # "streaming"
        /\ to = text => face = FaceOf(fin.goal)
    BY <1>2 DEF Final
  <2> HIDE DEF to, face
  <2> QED BY <1>2, <2>1, ShownTyped
<1> HIDE DEF to, face, c
<1>9. CASE cards' = Append(cards, c) /\ to = text /\ Finished(TRUE, <<>>)
  <2>1. Added(c) /\ cards' # <<>>
    BY <1>2, <1>8, <1>9, CardAdded DEF Added
  <2>2. Returned(TRUE)
    BY <1>1, <1>2, <1>6, <1>9, <2>1, FinishedReturns
  <2>3. queue' = <<>> \/ Len(queue') = 1
    <3>1. queue' \in Seq(Job)
      BY BaseFields DEF Base, TypeOK
    <3> QED BY <2>2, <3>1, ShortChain DEF Returned
  <2>4. Going' => fin'.step \notin {"disable", "full", "first", "next"}
    BY <2>2 DEF Returned, Going, NoFin
  <2>5. /\ state' # "streaming" /\ Len(queue') <= 1 /\ (queue' # <<>> => ~queue'[1].tail)
        /\ Going' => Going
    BY <2>2 DEF Returned
  <2>6. FacesInv' /\ MeetInv' /\ NoneRevived
    BY <1>1, <1>2, <1>3, <1>6, <1>8, <2>1, <2>3, <2>4, <2>5, SplitAdds
  <2>7. ReplyInv'
    <3>1. fin.goal = "completed" => OnCard(cards', Reply)
      <4> SUFFICES ASSUME fin.goal = "completed" PROVE OnCard(cards', Reply)
        OBVIOUS
      <4>1. Reply = text
        BY <1>1 DEF Base, FinInv, Reply, Visible
      <4>2. cards'[Len(cards')].face = "completed" /\ cards'[Len(cards')].to = Reply
        BY <1>8, <1>9, <2>1, <4>1 DEF Added, FaceOf
      <4> QED BY <4>2 DEF OnCard
    <3> QED BY <1>1, <1>2, <1>3, <1>5, <1>6, <2>1, <2>2, <3>1, ReturnedReply
  <2> QED BY <2>6, <2>7 DEF Showing
<1>10. CASE /\ cards' = Append(cards, c) /\ to # text /\ fin' = [fin EXCEPT !.at = to]
            /\ UNCHANGED <<state, call, told, queue>>
  <2>1. Added(c) /\ cards' # <<>>
    BY <1>2, <1>8, <1>10, CardAdded DEF Added
  <2>2. fin'.step = "next" /\ fin'.at = to
    BY <1>1, <1>3, <1>10 DEF Fin
  <2>3. queue' = <<>> /\ Len(queue') <= 1
    BY <1>2, <1>4, <1>10
  <2>4. FacesInv' /\ MeetInv' /\ NoneRevived
    BY <1>1, <1>2, <1>3, <1>4, <1>6, <1>8, <1>10, <2>1, <2>2, <2>3, SplitAdds DEF Going
  <2>5. ReplyInv'
    BY <1>2, <1>3, <1>4, <1>6, <1>10, <2>1, NoReplyYet
  <2> QED BY <2>4, <2>5 DEF Showing
<1>11. CASE OpenFails(1) /\ Step("cut", queue)
  <2>1. PICK x \in Card : Becomes(1, x) /\ Missed(cards[1], x)
    BY <1>2, <1>11, BaseFields, CardWaits
  <2>2. cards' # <<>>
    BY <2>1 DEF Becomes
  <2>3. Stepped("cut")
    BY <1>2, <1>11, StepSteps
  <2>4. /\ Ended(x) /\ x.from = 0 /\ x.missed /\ x.face = cards[1].face
        /\ x.slots => x.face # "frozen"
    BY <1>2, <1>3, <2>1 DEF FacesInv, MeetInv, Missed, Ended
  <2>5. FacesInv'
    BY <1>2, <1>3, <1>4, <1>6, <2>1, <2>2, <2>3, <2>4, SplitFaces DEF Stepped
  <2>6. MeetInv'
    BY <1>2, <1>3, <1>6, <2>1, <2>2, <2>3, <2>4, SplitMeets DEF Stepped, Going
  <2>7. ReplyInv'
    BY <1>2, <1>3, <1>4, <1>6, <2>2, <2>3, NoReplyYet DEF Stepped
  <2>8. NoneRevived
    BY <1>2, <2>1, <2>4, FirstRevived
  <2> QED BY <2>5, <2>6, <2>7, <2>8 DEF Showing
<1> QED BY <1>2, <1>7, <1>9, <1>10, <1>11

-----------------------------------------------------------------------------
(* What the cards show: commits.                                           *)

\* A flush has left the chain.
Flushed ==
  /\ UNCHANGED <<state, fin, call, told>>
  /\ queue' # <<>> => ~queue'[1].tail

LEMMA CommittedReturns ==
  ASSUME Base, Frame, split' = split, queue # <<>>, queue[1].op = "commit",
         NEW ok \in BOOLEAN, Committed(queue[1], ok)
  PROVE  /\ queue[1].face = "streaming" => Flushed
         /\ queue[1].face # "streaming" => Returned(ok) /\ fin # NoFin
         /\ queue[1].face # "streaming" /\ ok => queue' = <<>>
<1>1. /\ queue \in Seq(Job) /\ queue[1] \in Job
      /\ queue[1].face # "streaming" => Tail(queue) = <<>> /\ fin # NoFin
  BY CommitHead
<1>2. CASE queue[1].face = "streaming"
  <2>1. queue' = Tail(queue) /\ UNCHANGED <<state, fin, call, told>>
    BY <1>2 DEF Committed
  <2>2. Ordered(queue, mode, fin, state, text)
        /\ fin.goal \in Goals \cup {"none"} /\ (Awaits(fin) => fin.goal \in Goals)
    BY BaseFields DEF Base, QueueInv, NoFin
  <2>3. Tail(queue) # <<>> => ~Tail(queue)[1].tail
    BY <1>1, <1>2, <2>2, FlushLeaves
  <2> QED BY <1>2, <2>1, <2>3 DEF Flushed
<1>3. CASE queue[1].face # "streaming"
  <2>1. Finished(ok, <<>>) /\ fin # NoFin
    BY <1>1, <1>3 DEF Committed
  <2>2. Returned(ok)
    BY <2>1, FinishedReturns
  <2>3. ok => queue' = <<>>
    BY <2>1 DEF Finished
  <2> QED BY <1>3, <2>1, <2>2, <2>3
<1> QED BY <1>2, <1>3

\* The usage note of a reply fits into the card that has it.
LEMMA UsageFits ==
  ASSUME Base, ReplyInv, queue # <<>>, queue[1].op = "commit", told = "card",
         ~overruled
  PROVE  /\ fin.goal = "usage" /\ queue[1].face # "streaming" /\ mine = 1 /\ frozen = 0
         /\ ~RollsOver(queue[1]) /\ ~queue[1].tail
         /\ mode = "v1" => ~(queue[1].len - frozen > Slice)
<1>1. /\ queue[1] \in Job /\ mode # "streaming" /\ cards # <<>>
      /\ queue \in Seq(Job) /\ Len(queue) \in Nat /\ text \in 0..MaxText
      /\ queue[1].len <= text /\ queue[1].len \in Nat /\ text \in Nat
  BY CommitHead, JobTyped, LenProperties, BaseFields
<1>2. state = "completed" /\ Len(queue) <= 1
  BY DEF ReplyInv
<1>3. Awaits(fin) /\ fin # NoFin
  <2>1. Len(queue) # 0
    BY <1>1, EmptySeq
  <2>2. Awaits(fin)
    BY <1>2, <2>1 DEF Base, QueueInv, Ordered
  <2> QED BY <2>2, BaseFields
<1>4. fin.goal = "usage"
  BY <1>3, ReplyAtRest
<1>5. mine = 1 /\ frozen = 0 /\ (mode = "v1" => text <= Slice)
  BY <1>1, <1>4 DEF ReplyInv, Base, RollInv
<1>6. queue[1].face # "streaming"
  <2>1. Len(queue) = 1
    BY <1>1, <1>2, ShortChain
  <2>2. queue[1].face = FaceOf(fin.goal)
    BY <1>3, <2>1 DEF Base, QueueInv, Ordered, FinalJob
  <2> QED BY <1>4, <2>2 DEF FaceOf
<1>7. mode = "v1" => ~(queue[1].len - frozen > Slice)
  BY <1>1, <1>5, CardSizes
<1>8. ~RollsOver(queue[1])
  BY <1>1, <1>5, CardSizes DEF RollsOver, Rest
<1>9. ~queue[1].tail
  BY <1>7 DEF Base, RollInv, LifeInv, FinInv
<1> QED BY <1>4, <1>5, <1>6, <1>7, <1>8, <1>9

\* A commit ends with an update of the last card.
LEMMA CommitShows ==
  ASSUME Base, Base', Showing, CommitFrame, queue # <<>>, queue[1].op = "commit",
         Len(cards) = mine, UNCHANGED <<mine, frozen>>, NEW x, Becomes(mine, x),
         x.from = frozen, x.slots => x.face # "frozen" /\ mine = 1,
         queue[1].face = "streaming" => x.face = "streaming" /\ Flushed,
         NEW ok, queue[1].face # "streaming" => Ended(x) /\ Returned(ok),
         x.face # "streaming" \/ x.face = cards[mine].face
  PROVE  /\ FacesInv' /\ MeetInv' /\ NoneRevived
         /\ queue[1].face = "streaming" => ReplyInv'
<1>1. /\ mode # "streaming" /\ cards # <<>> /\ mine \in 1..Len(cards)
      /\ Len(cards) \in Nat /\ cards \in Seq(Card) /\ mine \in Nat /\ mine >= 1
  BY CommitHead
<1>2. /\ cards' # <<>> /\ Len(cards') = Len(cards) /\ cards'[mine] = x
      /\ \A k \in 1..Len(cards) : k # mine => cards'[k] = cards[k]
  BY DEF Becomes
<1>3. /\ mode' = mode /\ mine' = mine /\ frozen' = frozen /\ text' = text
      /\ overruled' = overruled /\ Current = mine /\ Current' = mine
  BY <1>1 DEF CommitFrame, Current
<1>4. FacesInv /\ MeetInv /\ ReplyInv /\ cards[mine].from = frozen
  BY <1>1 DEF Showing, MeetInv
<1>5. queue[1].face = "streaming" =>
        /\ state = "streaming" \/ Len(queue) > 1
        /\ state = "streaming" \/ fin # NoFin
        /\ cards[mine].face = "streaming"
  BY <1>1, <1>3, <1>4, HeadAlive
<1>6. fin'.step \notin {"disable", "full", "first", "next"}
  BY <1>1, <1>3 DEF Base, FinInv, NoFin
<1>7. queue' # <<>> => ~queue'[1].tail
  BY DEF Flushed, Returned
<1>8. FacesInv'
  <2>1. \A i \in 1..Len(cards') : i # mine => Ended(cards'[i])
    <3>1. \A i \in 1..Len(cards) : i # mine => Ended(cards[i])
      <4>1. \A i \in 1..Len(cards) : i # mine + 1
        BY <1>1
      <4> QED BY <1>1, <1>3, <1>4, <4>1 DEF FacesInv
    <3> QED BY <1>2, <3>1
  <2>2. \A i \in 1..Len(cards') : cards'[i].slots => cards'[i].face # "frozen" /\ i = 1
    BY <1>1, <1>2, <1>4 DEF FacesInv
  <2>3. Len(cards') # mine' + 1
    BY <1>1, <1>2, <1>3
  <2>4. state' # "streaming" /\ fin' = NoFin => Ended(cards'[mine])
    BY <1>2, <1>5 DEF Flushed
  <2>5. state' = "streaming" \/ Len(queue') > 1 => cards'[mine].face = "streaming"
    <3>1. CASE queue[1].face = "streaming"
      BY <1>2, <3>1
    <3>2. CASE queue[1].face # "streaming"
      BY <3>2 DEF Returned
    <3> QED BY <3>1, <3>2
  <2> QED BY <1>3, <1>6, <1>7, <2>1, <2>2, <2>3, <2>4, <2>5 DEF FacesInv
<1>9. MeetInv'
  <2>1. cards'[1].from = 0
    <3>1. CASE mine = 1
      BY <1>1, <1>2, <3>1 DEF Base, RollInv
    <3>2. CASE mine # 1
      <4>1. cards'[1] = cards[1]
        BY <1>1, <1>2, <3>2
      <4> QED BY <1>1, <1>4, <4>1 DEF MeetInv
    <3> QED BY <3>1, <3>2
  <2>2. cards'[mine'].from = frozen'
    BY <1>2, <1>3
  <2>3. Going' => Going
    BY DEF Flushed, Returned, Going
  <2>4. ASSUME Going', NEW i \in 1..Len(cards'), i < Len(cards'),
               cards'[i].face = "frozen", ~cards'[i].missed
        PROVE  cards'[i].to = cards'[i + 1].from
    <3>1. i \in 1..Len(cards) /\ i + 1 \in 1..Len(cards) /\ i < Len(cards) /\ i # mine
      BY <1>1, <1>2, <2>4
    <3>2. cards'[i] = cards[i]
      BY <1>2, <3>1
    <3>3. cards'[i + 1].from = cards[i + 1].from
      BY <1>2, <1>4, <3>1
    <3> QED BY <1>1, <1>4, <2>3, <2>4, <3>1, <3>2, <3>3 DEF MeetInv
  <2>5. Going' /\ queue' # <<>> => cards'[mine'].face = "streaming"
    <3>1. CASE queue[1].face = "streaming"
      BY <1>2, <1>3, <3>1
    <3>2. CASE queue[1].face # "streaming"
      BY <3>2 DEF Returned, Going
    <3> QED BY <3>1, <3>2
  <2> QED BY <1>6, <2>1, <2>2, <2>4, <2>5 DEF MeetInv
<1>10. NoneRevived
  BY <1>2 DEF NoneRevived
<1>11. queue[1].face = "streaming" => ReplyInv'
  BY <1>3, <1>4, UsageFits DEF Flushed, ReplyInv, Reply, Visible, CommitFrame
<1> QED BY <1>8, <1>9, <1>10, <1>11

\* A commit fails, and there was more to it than one card holds.
LEMMA CommitFails ==
  ASSUME Base, Base', Showing, CommitFrame, queue # <<>>, queue[1].op = "commit",
         Len(cards) = mine, UNCHANGED <<mine, frozen>>, NEW x, Becomes(mine, x),
         x.from = frozen, x.slots => x.face # "frozen" /\ mine = 1,
         queue[1].face = "streaming" => x.face = "streaming",
         queue[1].face # "streaming" => Ended(x),
         x.face # "streaming" \/ x.face = cards[mine].face,
         Committed(queue[1], FALSE), ~(told = "card" /\ ~overruled)
  PROVE  Showing' /\ NoneRevived
<1>1. mode # "streaming" /\ cards' # <<>> /\ mine \in Nat /\ mine >= 1
  BY CommitHead DEF Becomes
<1>2. Frame /\ split' = split
  BY <1>1 DEF Frame, CommitFrame
<1>3. /\ queue[1].face = "streaming" => Flushed
      /\ queue[1].face # "streaming" => Returned(FALSE) /\ fin # NoFin
  BY <1>2, CommittedReturns
<1>4. /\ FacesInv' /\ MeetInv' /\ NoneRevived
      /\ queue[1].face = "streaming" => ReplyInv'
  BY <1>3, CommitShows
<1>5. queue[1].face # "streaming" => ReplyInv'
  BY <1>2, <1>3, ReturnedReply DEF Showing
<1> QED BY <1>4, <1>5 DEF Showing

\* What a card that waits for its successor shows.
LEMMA WaitsShown ==
  ASSUME Base, Showing, queue # <<>>, queue[1].op = "commit", Len(cards) = mine,
         NEW x, Missed(cards[mine], x)
  PROVE  /\ x.from = frozen /\ (x.slots => x.face # "frozen" /\ mine = 1)
         /\ queue[1].face = "streaming" => x.face = "streaming"
         /\ Ended(x) /\ x.face = cards[mine].face
<1>1. mode # "streaming" /\ cards # <<>> /\ mine \in 1..Len(cards)
  BY CommitHead
<1>2. cards[mine].from = frozen
      /\ (cards[mine].slots => cards[mine].face # "frozen" /\ mine = 1)
  BY <1>1 DEF Showing, MeetInv, FacesInv
<1>3. queue[1].face = "streaming" => cards[mine].face = "streaming"
  BY <1>1, HeadAlive DEF Showing, Current
<1> QED BY <1>2, <1>3 DEF Missed, Ended

LEMMA RolloverOpensShowing ==
  ASSUME Base, Base', Showing, queue # <<>>, queue[1].op = "commit", CommitFrame,
         RolloverOpens(queue[1])
  PROVE  Showing' /\ NoneRevived
<1>1. /\ queue[1] \in Job /\ mode # "streaming" /\ cards # <<>>
      /\ mine \in 1..Len(cards) /\ Len(cards) \in Nat /\ cards \in Seq(Card)
      /\ mine \in Nat /\ failures \in 0..MaxFailures
  BY CommitHead, BaseFields
<1>2. /\ RollsOver(queue[1]) /\ ~(Len(cards) > mine) /\ ~queue[1].tail
      /\ UNCHANGED <<seq, mine, frozen>>
  BY DEF RolloverOpens, Opened, RollsOver
<1>3. Len(cards) = mine /\ frozen + Slice \in 0..MaxText
  BY <1>1, <1>2, NextBegins
<1>4. ~(told = "card" /\ ~overruled)
  BY <1>2, UsageFits DEF Showing
<1>5. FacesInv /\ MeetInv
  BY DEF Showing
<1> DEFINE x == Shown("streaming", frozen + Slice, frozen + Slice)
<1>6. CASE /\ cards' = Append(cards, x)
           /\ UNCHANGED <<state, fails, queue, fin, call, told, failures>>
  <2>1. x \in Card /\ x.face = "streaming" /\ x.from = frozen + Slice /\ ~x.slots
    <3> DEFINE k == frozen + Slice
    <3>1. k \in 0..MaxText
      BY <1>3
    <3> HIDE DEF k
    <3>2. "streaming" \in Final \cup {"streaming", "frozen"}
      OBVIOUS
    <3>3. /\ Shown("streaming", k, k) \in Card
          /\ Shown("streaming", k, k).face = "streaming"
          /\ Shown("streaming", k, k).from = k /\ ~Shown("streaming", k, k).slots
      BY <3>1, <3>2, ShownTyped
    <3> QED BY <3>3 DEF k
  <2> HIDE DEF x
  <2>2. /\ cards' # <<>> /\ Len(cards') = mine + 1 /\ cards'[mine + 1] = x
        /\ \A k \in 1..mine : cards'[k] = cards[k]
    BY <1>1, <1>3, <1>6, <2>1, CardAdded DEF Added
  <2>3. /\ mode' = mode /\ overruled' = overruled /\ Current = mine /\ Current' = mine
        /\ mine' = mine /\ frozen' = frozen /\ queue' = queue /\ fin' = fin
        /\ state' = state /\ call' = call /\ told' = told
    BY <1>1, <1>2, <1>6 DEF CommitFrame, Current
  <2>4. fin.step \notin {"disable", "full", "first", "next"}
    BY <1>1 DEF Base, FinInv, NoFin
  <2>5. \A i \in 1..Len(cards') : i \in 1..mine \/ i = mine + 1
    BY <1>1, <2>2
  <2>6. FacesInv'
    <3>1. \A i \in 1..Len(cards') : i # mine /\ i # mine + 1 => Ended(cards'[i])
      <4>1. \A i \in 1..mine : i # mine => Ended(cards[i])
        BY <1>1, <1>3, <1>5, <2>3 DEF FacesInv
      <4> QED BY <2>2, <2>5, <4>1
    <3>2. \A i \in 1..Len(cards') : cards'[i].slots => cards'[i].face # "frozen" /\ i = 1
      <4>1. \A i \in 1..mine : cards[i].slots => cards[i].face # "frozen" /\ i = 1
        BY <1>1, <1>3, <1>5 DEF FacesInv
      <4> QED BY <2>1, <2>2, <2>5, <4>1
    <3>3. cards'[mine] = cards[mine]
      BY <1>1, <1>3, <2>2
    <3>4. /\ state # "streaming" /\ fin = NoFin => Ended(cards[mine])
          /\ state = "streaming" \/ Len(queue) > 1 => cards[mine].face = "streaming"
      BY <1>1, <1>5, <2>3 DEF FacesInv
    <3>5. cards'[mine'] = cards[mine] /\ (queue' # <<>> => ~queue'[1].tail)
      BY <1>2, <2>3, <3>3
    <3>6. /\ cards'[mine' + 1].face = "streaming"
          /\ cards'[mine' + 1].from = frozen' + Slice
      BY <2>1, <2>2, <2>3
    <3>7. /\ state' # "streaming" /\ fin' = NoFin => Ended(cards'[Current'])
          /\ state' = "streaming" \/ Len(queue') > 1
               => cards'[Current'].face = "streaming"
      BY <2>3, <3>3, <3>4
    <3> QED BY <1>1, <2>3, <2>4, <3>1, <3>2, <3>5, <3>6, <3>7 DEF FacesInv
  <2>7. MeetInv'
    <3>1. cards'[1].from = 0 /\ cards'[mine].from = frozen
      BY <1>1, <1>3, <1>5, <2>2 DEF MeetInv
    <3>2. Going' => cards[mine].face = "streaming"
      <4>1. fin.goal # "usage"
        BY <1>4 DEF Base, FinInv, LifeInv, Final
      <4> QED BY <1>1, <1>2, <1>5, <2>3, <4>1 DEF MeetInv, Going
    <3>3. ASSUME Going', NEW i \in 1..Len(cards'), i < Len(cards'),
                 cards'[i].face = "frozen", ~cards'[i].missed
          PROVE  cards'[i].to = cards'[i + 1].from
      <4>1. i \in 1..mine /\ cards'[i] = cards[i]
        BY <1>1, <2>2, <3>3
      <4>2. i # mine
        BY <1>1, <3>2, <3>3, <4>1
      <4>3. i + 1 \in 1..mine /\ i < Len(cards) /\ i \in 1..Len(cards)
        BY <1>1, <1>3, <4>1, <4>2
      <4>4. cards'[i + 1] = cards[i + 1] /\ Going
        BY <2>2, <2>3, <3>3, <4>3 DEF Going
      <4> QED BY <1>1, <1>5, <3>3, <4>1, <4>3, <4>4 DEF MeetInv
    <3>4. Going' => cards'[mine].face = "streaming"
      BY <1>1, <1>3, <2>2, <3>2
    <3> QED BY <2>3, <2>4, <3>1, <3>3, <3>4 DEF MeetInv
  <2>8. ReplyInv'
    BY <1>4, <2>3 DEF ReplyInv
  <2>9. NoneRevived
    BY <1>3, <2>2 DEF NoneRevived
  <2> QED BY <2>6, <2>7, <2>8, <2>9 DEF Showing
<1>7. CASE OpenFails(mine) /\ Committed(queue[1], FALSE)
  <2>1. PICK y \in Card : Becomes(mine, y) /\ Missed(cards[mine], y)
    BY <1>1, <1>7, CardWaits
  <2>2. /\ y.from = frozen /\ (y.slots => y.face # "frozen" /\ mine = 1)
        /\ queue[1].face = "streaming" => y.face = "streaming"
        /\ Ended(y) /\ y.face = cards[mine].face
    BY <1>3, <2>1, WaitsShown
  <2> QED BY <1>2, <1>3, <1>4, <1>7, <2>1, <2>2, CommitFails
<1> QED BY <1>6, <1>7 DEF RolloverOpens

LEMMA SliceShown ==
  ASSUME NEW k \in 0..MaxText, k + Slice \in 0..MaxText
  PROVE  LET c == Shown("frozen", k, k + Slice) IN
         /\ c \in Card /\ c.face = "frozen" /\ c.from = k
         /\ c.to = k + Slice /\ ~c.slots /\ ~c.missed
<1> DEFINE n == k + Slice
<1>1. n \in 0..MaxText /\ "frozen" \in Final \cup {"streaming", "frozen"}
  OBVIOUS
<1> HIDE DEF n
<1>2. /\ Shown("frozen", k, n) \in Card /\ Shown("frozen", k, n).face = "frozen"
      /\ Shown("frozen", k, n).from = k /\ Shown("frozen", k, n).to = n
      /\ ~Shown("frozen", k, n).slots /\ ~Shown("frozen", k, n).missed
  BY <1>1, ShownTyped
<1> QED BY <1>2 DEF n

LEMMA RolloverFreezesShowing ==
  ASSUME Base, Base', Showing, queue # <<>>, queue[1].op = "commit", CommitFrame,
         RolloverFreezes(queue[1])
  PROVE  Showing' /\ NoneRevived
<1>1. /\ queue \in Seq(Job) /\ queue[1] \in Job /\ mode # "streaming" /\ cards # <<>>
      /\ mine \in 1..Len(cards) /\ Len(cards) \in Nat /\ cards \in Seq(Card)
      /\ mine \in Nat /\ Len(queue) \in Nat /\ Len(queue) >= 1
  BY CommitHead, BaseFields, HeadOf
<1>2. Len(cards) = mine + 1 /\ Rolls(mode, frozen, queue[1])
  BY <1>1 DEF RolloverFreezes, Opened, Base, RollInv
<1>3. RollsOver(queue[1]) /\ ~queue[1].tail
  BY <1>2 DEF Rolls, RollsOver, Rest
<1>4. frozen + Slice \in 0..MaxText /\ frozen \in 0..MaxText
  BY <1>3, NextBegins, BaseFields
<1>5. ~(told = "card" /\ ~overruled)
  BY <1>3, UsageFits DEF Showing
<1>6. FacesInv /\ MeetInv
  BY DEF Showing
<1>7. /\ frozen' = frozen + Slice /\ mine' = mine + 1 /\ mode' = mode
      /\ fin' = fin /\ state' = state /\ call' = call /\ told' = told
      /\ overruled' = overruled /\ Current = mine /\ Current' = mine + 1
      /\ queue' = [queue EXCEPT ![1].rolled = TRUE]
  BY <1>1 DEF RolloverFreezes, CommitFrame, Current
<1>8. queue' # <<>> => ~queue'[1].tail
  <2>1. Len(queue) >= 1 /\ 1 \in DOMAIN queue
    BY <1>1
  <2>2. queue'[1] = [queue[1] EXCEPT !.rolled = TRUE]
    BY <1>7, <2>1
  <2>3. queue'[1].tail = queue[1].tail
    BY <1>1, <2>2 DEF Job
  <2> QED BY <1>3, <2>3
<1>9. PICK o \in Outcomes : Shows(mine, o, Shown("frozen", frozen, frozen + Slice))
  BY DEF RolloverFreezes
<1> DEFINE c == Shown("frozen", frozen, frozen + Slice)
<1>10. /\ c \in Card /\ c.face = "frozen" /\ c.from = frozen
       /\ c.to = frozen + Slice /\ ~c.slots /\ ~c.missed
  BY <1>4, SliceShown
<1> HIDE DEF c
<1>11. PICK x \in Card : /\ Becomes(mine, x)
                         /\ IF o = "failed" THEN Missed(cards[mine], x) ELSE x = c
  BY <1>1, <1>9, <1>10, CardShows DEF c
<1>12. /\ cards' # <<>> /\ Len(cards') = mine + 1 /\ cards'[mine] = x
       /\ \A k \in 1..Len(cards) : k # mine => cards'[k] = cards[k]
       /\ mine + 1 \in 1..Len(cards) /\ mine + 1 # mine
       /\ cards'[mine + 1] = cards[mine + 1]
  BY <1>1, <1>2, <1>11 DEF Becomes
<1>13. cards[mine].from = frozen
       /\ (cards[mine].slots => cards[mine].face # "frozen" /\ mine = 1)
  BY <1>1, <1>6 DEF MeetInv, FacesInv
<1>14. /\ x.from = frozen /\ Ended(x) /\ (x.slots => x.face # "frozen" /\ mine = 1)
       /\ x.face = "frozen" /\ ~x.missed => x.to = frozen + Slice
       /\ x.face # "streaming" \/ x.face = cards[mine].face
  BY <1>10, <1>11, <1>13 DEF Missed, Ended
<1>15. cards[mine + 1].face = "streaming" /\ cards[mine + 1].from = frozen + Slice
  BY <1>1, <1>2, <1>6 DEF FacesInv
<1>16. fin.step \notin {"disable", "full", "first", "next"}
  BY <1>1 DEF Base, FinInv, NoFin
<1>17. FacesInv'
  <2>1. \A i \in 1..Len(cards') : i # mine + 1 => Ended(cards'[i])
    <3>1. \A i \in 1..Len(cards) : i # mine /\ i # mine + 1 => Ended(cards[i])
      BY <1>1, <1>6, <1>7 DEF FacesInv
    <3> QED BY <1>2, <1>12, <1>14, <3>1
  <2>2. \A i \in 1..Len(cards') : cards'[i].slots => cards'[i].face # "frozen" /\ i = 1
    <3>1. \A i \in 1..Len(cards) : cards[i].slots => cards[i].face # "frozen" /\ i = 1
      BY <1>6 DEF FacesInv
    <3> QED BY <1>2, <1>12, <1>14, <3>1
  <2>3. Len(cards') # mine' + 1
    BY <1>1, <1>7, <1>12
  <2>4. ~(state' # "streaming" /\ fin' = NoFin)
    <3>1. Len(queue) # 0
      BY <1>1
    <3>2. state # "streaming" => Awaits(fin)
      BY <3>1 DEF Base, QueueInv, Ordered
    <3> QED BY <1>7, <3>2 DEF Awaits, NoFin
  <2>5. cards'[mine'].face = "streaming"
    BY <1>7, <1>12, <1>15
  <2> QED BY <1>7, <1>8, <1>16, <2>1, <2>2, <2>3, <2>4, <2>5 DEF FacesInv
<1>18. MeetInv'
  <2>1. cards'[1].from = 0
    <3>1. CASE mine = 1
      BY <1>1, <1>12, <1>14, <3>1 DEF Base, RollInv
    <3>2. CASE mine # 1
      <4>1. cards'[1] = cards[1]
        BY <1>1, <1>12, <3>2
      <4> QED BY <1>1, <1>6, <4>1 DEF MeetInv
    <3> QED BY <3>1, <3>2
  <2>2. cards'[mine'].from = frozen' /\ cards'[mine'].face = "streaming"
    BY <1>7, <1>12, <1>15
  <2>3. ASSUME Going', NEW i \in 1..Len(cards'), i < Len(cards'),
               cards'[i].face = "frozen", ~cards'[i].missed
        PROVE  cards'[i].to = cards'[i + 1].from
    <3>1. CASE i = mine
      BY <1>12, <1>14, <1>15, <2>3, <3>1
    <3>2. CASE i # mine
      <4>1. i \in 1..Len(cards) /\ i + 1 \in 1..Len(cards) /\ i < Len(cards)
        BY <1>1, <1>2, <1>12, <2>3
      <4>2. cards'[i] = cards[i] /\ Going
        BY <1>7, <1>12, <2>3, <3>2, <4>1 DEF Going
      <4>3. cards'[i + 1].from = cards[i + 1].from
        BY <1>12, <1>13, <1>14, <4>1
      <4> QED BY <1>1, <1>6, <2>3, <4>1, <4>2, <4>3 DEF MeetInv
    <3> QED BY <3>1, <3>2
  <2> QED BY <1>7, <1>16, <2>1, <2>2, <2>3 DEF MeetInv
<1>19. ReplyInv'
  BY <1>5, <1>7 DEF ReplyInv
<1>20. NoneRevived
  BY <1>12, <1>14 DEF NoneRevived
<1> QED BY <1>17, <1>18, <1>19, <1>20 DEF Showing

LEMMA TailFirstShowing ==
  ASSUME Base, Base', Showing, queue # <<>>, queue[1].op = "commit", CommitFrame,
         TailFirst(queue[1])
  PROVE  Showing' /\ NoneRevived
<1>1. /\ queue \in Seq(Job) /\ queue[1] \in Job /\ mode # "streaming" /\ cards # <<>>
      /\ mine \in 1..Len(cards) /\ Len(cards) \in Nat /\ cards \in Seq(Card)
      /\ mine \in Nat /\ Len(queue) \in Nat
  BY CommitHead, BaseFields, HeadOf
<1>2. /\ Len(cards) = mine /\ mode = "v1" /\ queue[1].face # "streaming"
      /\ queue[1].len - frozen > Slice /\ UNCHANGED <<mine, frozen>>
  BY <1>1 DEF TailFirst, Opened, Rest
<1>3. Len(queue) = 1 /\ fin # NoFin
  BY <1>2, CommitHead
<1>4. frozen + Slice \in 0..MaxText /\ frozen \in 0..MaxText
  BY <1>2, NextBegins, BaseFields
<1>5. ~(told = "card" /\ ~overruled)
  BY <1>2, UsageFits DEF Showing
<1>6. FacesInv /\ MeetInv
  BY DEF Showing
<1>7. PICK o \in Outcomes :
        /\ Shows(mine, o, Shown("frozen", frozen, frozen + Slice))
        /\ IF o = "ok"
             THEN /\ queue' = [queue EXCEPT ![1].tail = TRUE]
                  /\ UNCHANGED <<state, fails, fin, call, told>>
             ELSE Committed(queue[1], FALSE)
  BY DEF TailFirst
<1> DEFINE c == Shown("frozen", frozen, frozen + Slice)
<1>8. /\ c \in Card /\ c.face = "frozen" /\ c.from = frozen
      /\ c.to = frozen + Slice /\ ~c.slots /\ ~c.missed
  BY <1>4, SliceShown
<1> HIDE DEF c
<1>9. PICK x \in Card : /\ Becomes(mine, x)
                        /\ IF o = "failed" THEN Missed(cards[mine], x) ELSE x = c
  BY <1>1, <1>7, <1>8, CardShows DEF c
<1>10. CASE o = "ok"
  <2>1. /\ x.face = "frozen" /\ x.from = frozen /\ x.to = frozen + Slice /\ ~x.slots
    BY <1>8, <1>9, <1>10
  <2>2. /\ cards' # <<>> /\ Len(cards') = mine /\ cards'[mine] = x
        /\ \A k \in 1..Len(cards) : k # mine => cards'[k] = cards[k]
    BY <1>2, <1>9 DEF Becomes
  <2>3. /\ frozen' = frozen /\ mine' = mine /\ mode' = mode
        /\ fin' = fin /\ state' = state /\ call' = call /\ told' = told
        /\ overruled' = overruled /\ Current = mine /\ Current' = mine
        /\ queue' = [queue EXCEPT ![1].tail = TRUE]
    BY <1>1, <1>2, <1>7, <1>10 DEF CommitFrame, Current
  <2>4. Len(queue') = 1 /\ queue'[1].tail
    <3>1. Len(queue') = Len(queue) /\ 1 \in DOMAIN queue
      BY <1>1, <1>3, <2>3
    <3>2. queue'[1] = [queue[1] EXCEPT !.tail = TRUE]
      BY <2>3, <3>1
    <3> QED BY <1>1, <1>3, <3>1, <3>2 DEF Job
  <2>5. fin.step \notin {"disable", "full", "first", "next"} /\ state # "streaming"
    BY <1>1, <1>3 DEF Base, FinInv, NoFin
  <2>6. cards[mine].from = frozen
    BY <1>1, <1>6 DEF MeetInv
  <2>7. FacesInv'
    <3>1. \A i \in 1..Len(cards') : i # mine => Ended(cards'[i])
      <4>1. \A i \in 1..Len(cards) : i # mine /\ i # mine + 1 => Ended(cards[i])
        BY <1>1, <1>6, <2>3 DEF FacesInv
      <4>2. \A i \in 1..Len(cards) : i # mine + 1
        BY <1>1, <1>2
      <4> QED BY <1>2, <2>2, <4>1, <4>2
    <3>2. \A i \in 1..Len(cards') : cards'[i].slots => cards'[i].face # "frozen" /\ i = 1
      <4>1. \A i \in 1..Len(cards) : cards[i].slots => cards[i].face # "frozen" /\ i = 1
        BY <1>6 DEF FacesInv
      <4> QED BY <1>2, <2>1, <2>2, <4>1
    <3>3. Len(cards') # mine' + 1
      BY <1>1, <2>2, <2>3
    <3>4. ~(state' = "streaming" \/ Len(queue') > 1) /\ Ended(cards'[mine])
      <4>1. ~(Len(queue') > 1)
        BY <2>4
      <4> QED BY <2>1, <2>2, <2>3, <2>5, <4>1 DEF Ended
    <3>5. cards'[mine'].to = frozen' + Slice /\ cards'[mine'].face = "frozen"
      BY <2>1, <2>2, <2>3
    <3> QED BY <2>3, <2>5, <3>1, <3>2, <3>3, <3>4, <3>5 DEF FacesInv
  <2>8. MeetInv'
    <3>1. cards'[1].from = 0
      <4>1. CASE mine = 1
        BY <1>1, <2>1, <2>2, <4>1 DEF Base, RollInv
      <4>2. CASE mine # 1
        <5>1. cards'[1] = cards[1]
          BY <1>1, <2>2, <4>2
        <5> QED BY <1>1, <1>6, <5>1 DEF MeetInv
      <4> QED BY <4>1, <4>2
    <3>2. cards'[mine'].from = frozen'
      BY <2>1, <2>2, <2>3
    <3>3. ASSUME Going', NEW i \in 1..Len(cards'), i < Len(cards'),
                 cards'[i].face = "frozen", ~cards'[i].missed
          PROVE  cards'[i].to = cards'[i + 1].from
      <4>1. i \in 1..Len(cards) /\ i + 1 \in 1..Len(cards) /\ i < Len(cards) /\ i # mine
        BY <1>1, <1>2, <2>2, <3>3
      <4>2. cards'[i] = cards[i] /\ Going
        BY <2>2, <2>3, <3>3, <4>1 DEF Going
      <4>3. cards'[i + 1].from = cards[i + 1].from
        BY <2>1, <2>2, <2>6, <4>1
      <4> QED BY <1>1, <1>6, <3>3, <4>1, <4>2, <4>3 DEF MeetInv
    <3> QED BY <2>3, <2>4, <2>5, <3>1, <3>2, <3>3 DEF MeetInv
  <2>9. ReplyInv'
    BY <1>5, <2>3 DEF ReplyInv
  <2>10. NoneRevived
    BY <2>1, <2>2 DEF NoneRevived
  <2> QED BY <2>7, <2>8, <2>9, <2>10 DEF Showing
<1>11. CASE o # "ok"
  <2>1. /\ x.from = frozen /\ (x.slots => x.face # "frozen" /\ mine = 1)
        /\ Ended(x) /\ (x.face # "streaming" \/ x.face = cards[mine].face)
    <3>1. CASE o = "failed"
      BY <1>2, <1>9, <3>1, WaitsShown
    <3>2. CASE o # "failed"
      BY <1>8, <1>9, <3>2 DEF Ended
    <3> QED BY <3>1, <3>2
  <2>2. Committed(queue[1], FALSE)
    BY <1>7, <1>11
  <2> QED BY <1>2, <1>5, <1>9, <2>1, <2>2, CommitFails
<1> QED BY <1>10, <1>11

LEMMA TailLastShowing ==
  ASSUME Base, Base', Showing, queue # <<>>, queue[1].op = "commit", CommitFrame,
         TailLast(queue[1])
  PROVE  Showing' /\ NoneRevived
<1>1. /\ queue \in Seq(Job) /\ queue[1] \in Job /\ mode # "streaming" /\ cards # <<>>
      /\ mine \in 1..Len(cards) /\ Len(cards) \in Nat /\ cards \in Seq(Card)
      /\ mine \in Nat /\ queue[1].len \in 0..MaxText /\ failures \in 0..MaxFailures
      /\ frozen \in 0..MaxText
  BY CommitHead, BaseFields DEF Job
<1>2. /\ queue[1].tail /\ frozen' = frozen /\ mode = "v1" /\ Len(cards) = mine
      /\ queue[1].len - frozen > Slice
  BY <1>1 DEF TailLast, Base, RollInv
<1>3. /\ queue[1].face # "streaming" /\ fin # NoFin /\ queue[1].face = FaceOf(fin.goal)
      /\ queue[1].len = text /\ fin.goal \in Goals /\ queue[1].face \in Final
  BY <1>2, CommitHead, FaceOfGoal
<1>4. ~(told = "card" /\ ~overruled)
  BY <1>2, UsageFits DEF Showing
<1>5. FacesInv /\ MeetInv
  BY DEF Showing
<1> DEFINE x == Shown(queue[1].face, frozen + Slice, queue[1].len)
<1>6. CASE /\ cards' = Append(cards, x) /\ mine' = mine + 1
           /\ Committed(queue[1], TRUE)
  <2>1. /\ x \in Card /\ x.face = queue[1].face /\ x.from = frozen + Slice
        /\ x.to = queue[1].len /\ ~x.slots
    <3> DEFINE k == frozen + Slice
               f == queue[1].face
               n == queue[1].len
    <3>1. k \in 0..MaxText
      BY <1>2, NextBegins
    <3>2. f \in Final \cup {"streaming", "frozen"} /\ n \in 0..MaxText
      BY <1>1, <1>3
    <3> HIDE DEF k, f, n
    <3>3. /\ Shown(f, k, n) \in Card /\ Shown(f, k, n).face = f
          /\ Shown(f, k, n).from = k /\ Shown(f, k, n).to = n /\ ~Shown(f, k, n).slots
      BY <3>1, <3>2 DEF Shown, Card
    <3> QED BY <3>3 DEF k, f, n
  <2> HIDE DEF x
  <2>2. /\ cards' # <<>> /\ Len(cards') = mine + 1 /\ cards'[mine + 1] = x
        /\ \A k \in 1..mine : cards'[k] = cards[k]
    BY <1>1, <1>2, <1>6, <2>1, CardAdded DEF Added
  <2>3. /\ mode' = mode /\ mine' = mine + 1 /\ Current = mine /\ Current' = mine + 1
        /\ text' = text /\ Frame /\ split' = split
    BY <1>1, <1>6, <2>2 DEF CommitFrame, Current, Frame
  <2>4. Returned(TRUE) /\ queue' = <<>>
    BY <1>3, <1>6, <2>3, CommittedReturns
  <2>5. \A i \in 1..Len(cards') : i \in 1..mine \/ i = mine + 1
    BY <1>1, <2>2
  <2>6. cards[mine].to = frozen + Slice /\ cards[mine].face = "frozen"
    BY <1>1, <1>2, <1>5 DEF FacesInv
  <2>7. Ended(x)
    BY <1>3, <2>1 DEF Ended
  <2>8. fin'.step \notin {"disable", "full", "first", "next"} /\ Going' => Going
    BY <2>4 DEF Returned, NoFin
  <2>9. FacesInv'
    <3>1. \A i \in 1..Len(cards') : i # mine + 1 => Ended(cards'[i])
      <4>1. \A i \in 1..mine : i # mine => Ended(cards[i])
        BY <1>1, <1>2, <1>5, <2>3 DEF FacesInv
      <4>2. Ended(cards[mine])
        BY <2>6 DEF Ended
      <4> QED BY <2>2, <2>5, <4>1, <4>2
    <3>2. \A i \in 1..Len(cards') : cards'[i].slots => cards'[i].face # "frozen" /\ i = 1
      <4>1. \A i \in 1..mine : cards[i].slots => cards[i].face # "frozen" /\ i = 1
        BY <1>2, <1>5 DEF FacesInv
      <4> QED BY <2>1, <2>2, <2>5, <4>1
    <3>3. Len(cards') # mine' + 1
      BY <1>1, <2>2, <2>3
    <3>4. ~(state' = "streaming" \/ Len(queue') > 1)
      <4>1. Len(<<>>) = 0 /\ ~(0 > 1)
        OBVIOUS
      <4> QED BY <2>4, <4>1 DEF Returned
    <3>5. Ended(cards'[mine + 1])
      BY <2>2, <2>7
    <3>6. fin'.step # "next"
      BY <2>4 DEF Returned
    <3> QED BY <2>3, <2>4, <3>1, <3>2, <3>3, <3>4, <3>5, <3>6 DEF FacesInv
  <2>10. MeetInv'
    <3>1. cards'[1].from = 0
      BY <1>1, <1>5, <2>2 DEF MeetInv
    <3>2. state' # "streaming" /\ fin' = NoFin /\ (Going' => Going)
      BY <2>4 DEF Returned
    <3>3. ASSUME Going', NEW i \in 1..Len(cards'), i < Len(cards'),
                 cards'[i].face = "frozen", ~cards'[i].missed
          PROVE  cards'[i].to = cards'[i + 1].from
      <4>1. i \in 1..mine /\ cards'[i] = cards[i]
        BY <1>1, <2>2, <3>3
      <4>2. CASE i = mine
        BY <2>1, <2>2, <2>6, <4>1, <4>2
      <4>3. CASE i # mine
        <5>1. i + 1 \in 1..mine /\ i < Len(cards) /\ i \in 1..Len(cards)
          BY <1>1, <1>2, <4>1, <4>3
        <5>2. cards'[i + 1] = cards[i + 1] /\ Going
          BY <2>2, <3>2, <3>3, <5>1
        <5> QED BY <1>1, <1>5, <3>3, <4>1, <5>1, <5>2 DEF MeetInv
      <4> QED BY <4>2, <4>3
    <3> QED BY <2>4, <3>1, <3>2, <3>3 DEF MeetInv, NoFin
  <2>11. ReplyInv'
    <3>1. mine' # 1 /\ Len(cards') = mine + 1
      BY <1>1, <2>2, <2>3
    <3>2. ~cards'[Len(cards')].slots
      BY <2>1, <2>2
    <3>3. fin.goal = "completed" => OnCard(cards', Reply)
      <4> SUFFICES ASSUME fin.goal = "completed" PROVE OnCard(cards', Reply)
        OBVIOUS
      <4>1. cards'[Len(cards')].face = "completed" /\ cards'[Len(cards')].to = Reply
        BY <1>2, <1>3, <2>1, <2>2 DEF FaceOf, Reply, Visible
      <4> QED BY <4>1 DEF OnCard
    <3> QED BY <1>3, <1>4, <2>3, <2>4, <3>1, <3>2, <3>3, ReturnedReply DEF Showing
  <2>12. NoneRevived
    BY <1>2, <2>2 DEF NoneRevived
  <2> QED BY <2>9, <2>10, <2>11, <2>12 DEF Showing
<1>7. CASE OpenFails(mine) /\ Committed(queue[1], FALSE) /\ UNCHANGED mine
  <2>1. PICK y \in Card : Becomes(mine, y) /\ Missed(cards[mine], y)
    BY <1>1, <1>7, CardWaits
  <2>2. /\ y.from = frozen /\ (y.slots => y.face # "frozen" /\ mine = 1)
        /\ queue[1].face = "streaming" => y.face = "streaming"
        /\ Ended(y) /\ y.face = cards[mine].face
    BY <1>2, <2>1, WaitsShown
  <2> QED BY <1>2, <1>4, <1>7, <2>1, <2>2, CommitFails
<1> QED BY <1>6, <1>7 DEF TailLast

LEMMA CommitUpdatesShowing ==
  ASSUME Base, Base', Showing, queue # <<>>, queue[1].op = "commit", CommitFrame,
         CommitUpdates(queue[1])
  PROVE  Showing' /\ NoneRevived
<1>1. /\ queue \in Seq(Job) /\ queue[1] \in Job /\ mode # "streaming" /\ cards # <<>>
      /\ mine \in 1..Len(cards) /\ Len(cards) \in Nat /\ cards \in Seq(Card)
      /\ mine \in Nat /\ mine >= 1 /\ queue[1].len \in 0..MaxText
      /\ frozen \in 0..MaxText /\ queue[1].face \in Final \cup {"streaming", "frozen"}
  BY CommitHead, BaseFields DEF Job
<1>2. /\ Len(cards) = mine /\ UNCHANGED <<mine, frozen>>
      /\ mode = "v1" /\ queue[1].face # "streaming" => queue[1].len - frozen <= Slice
  BY <1>1 DEF CommitUpdates, Opened, Rest
<1>3. queue[1].face # "streaming" =>
        /\ fin # NoFin /\ queue[1].face = FaceOf(fin.goal)
        /\ queue[1].len = text /\ fin.goal \in Goals
  BY CommitHead
<1>4. PICK o \in Outcomes :
        /\ Shows(mine, o, CommitCard(queue[1]))
        /\ Committed(queue[1], o = "ok")
  BY DEF CommitUpdates
<1> DEFINE c == CommitCard(queue[1])
<1>5. /\ c \in Card /\ c.face = queue[1].face /\ c.from = frozen /\ ~c.slots
      /\ c.to = IF mode = "legacy" /\ queue[1].face # "streaming"
                  THEN Body[queue[1].len] ELSE queue[1].len
  BY <1>1, CommitCardTyped
<1> HIDE DEF c
<1>6. PICK x \in Card : /\ Becomes(mine, x)
                        /\ IF o = "failed" THEN Missed(cards[mine], x) ELSE x = c
  BY <1>1, <1>4, <1>5, CardShows DEF c
<1>7. /\ cards' # <<>> /\ Len(cards') = mine /\ cards'[mine] = x
  BY <1>2, <1>6 DEF Becomes
<1>8. /\ Frame /\ split' = split /\ text' = text /\ mode' = mode /\ mine' = mine
  BY <1>1, <1>2, <1>7 DEF Frame, CommitFrame
<1>9. /\ queue[1].face = "streaming" => Flushed
      /\ queue[1].face # "streaming" => Returned(o = "ok") /\ fin # NoFin
  <2>1. (o = "ok") \in BOOLEAN
    OBVIOUS
  <2> QED BY <1>4, <1>8, <2>1, CommittedReturns
<1>10. /\ x.from = frozen /\ (x.slots => x.face # "frozen" /\ mine = 1)
       /\ queue[1].face = "streaming" => x.face = "streaming"
       /\ queue[1].face # "streaming" => Ended(x)
       /\ x.face # "streaming" \/ x.face = cards[mine].face
  <2>1. CASE o = "failed"
    BY <1>2, <1>6, <2>1, WaitsShown
  <2>2. CASE o # "failed"
    <3>1. queue[1].face = "streaming" => cards[mine].face = "streaming"
      BY <1>1, HeadAlive DEF Showing, Current
    <3> QED BY <1>5, <1>6, <2>2, <3>1 DEF Ended
  <2> QED BY <2>1, <2>2
<1>11. /\ FacesInv' /\ MeetInv' /\ NoneRevived
       /\ queue[1].face = "streaming" => ReplyInv'
  BY <1>2, <1>6, <1>9, <1>10, CommitShows
<1>12. ASSUME queue[1].face # "streaming" PROVE ReplyInv'
  <2>1. x = c => /\ queue[1].face = "completed" => OnCard(cards', Reply)
                 /\ ~cards'[Len(cards')].slots
    <3> SUFFICES ASSUME x = c
                 PROVE  /\ queue[1].face = "completed" => OnCard(cards', Reply)
                        /\ ~cards'[Len(cards')].slots
      OBVIOUS
    <3>1. ~split /\ mode \in Modes
      BY <1>1, BaseFields DEF Base, LifeInv
    <3>2. c.to = Reply
      BY <1>1, <1>3, <1>5, <1>12, <3>1 DEF Reply, Visible, Modes
    <3>3. /\ cards'[Len(cards')].face = queue[1].face
          /\ cards'[Len(cards')].to = Reply /\ ~cards'[Len(cards')].slots
      BY <1>5, <1>7, <3>2
    <3> QED BY <3>3 DEF OnCard
  <2>2. mode = "v1" /\ mine' = 1 => text <= Slice
    <3> SUFFICES ASSUME mode = "v1", mine = 1 PROVE text <= Slice
      BY <1>8
    <3>1. frozen = 0 /\ text - frozen <= Slice
      BY <1>1, <1>2, <1>3, <1>12 DEF Base, RollInv
    <3> QED BY <3>1, CardSizes, BaseFields
  <2>3. ASSUME o = "ok", fin.goal = "completed"
        PROVE  OnCard(cards', Reply) /\ ~cards'[Len(cards')].slots
    <3>1. queue[1].face = "completed" /\ x = c
      BY <1>3, <1>6, <1>12, <2>3 DEF FaceOf
    <3> QED BY <2>1, <3>1
  <2>4. ASSUME told = "card", ~overruled
        PROVE  OnCard(cards', Reply) /\ (mode = "v1" => ~cards'[Len(cards')].slots)
    <3>1. fin.goal = "usage"
      BY <2>4, UsageFits DEF Showing
    <3>2. OnCard(cards, Reply) /\ (mode = "v1" => ~cards[Len(cards)].slots)
      BY <2>4 DEF Showing, ReplyInv
    <3>3. CASE o = "failed"
      <4>1. Missed(cards[mine], x)
        BY <1>6, <3>3
      <4>2. \A i \in 1..Len(cards) : cards[i].cut => cards'[i].cut
        BY <1>6, <4>1 DEF Becomes, Missed
      <4>3. /\ cards'[Len(cards)].face = cards[Len(cards)].face
            /\ cards'[Len(cards)].to = cards[Len(cards)].to
            /\ cards'[Len(cards)].slots = cards[Len(cards)].slots
        BY <1>2, <1>7, <4>1 DEF Missed
      <4>4. OnCard(cards', Reply)
        BY <1>2, <1>7, <3>2, <4>2, <4>3, OnCardStays
      <4> QED BY <1>2, <1>7, <3>2, <4>3, <4>4
    <3>4. CASE o # "failed"
      <4>1. queue[1].face = "completed" /\ x = c
        BY <1>3, <1>6, <1>12, <3>1, <3>4 DEF FaceOf
      <4> QED BY <2>1, <4>1
    <3> QED BY <3>3, <3>4
  <2> QED BY <1>8, <1>9, <1>12, <2>2, <2>3, <2>4, ReturnedReply DEF Showing
<1> QED BY <1>11, <1>12 DEF Showing

LEMMA CommitSettlesShowing ==
  ASSUME Base, Base', Showing, CommitSettles
  PROVE  Showing' /\ NoneRevived
<1>1. queue # <<>> /\ Head(queue) = queue[1] /\ queue[1].op = "commit" /\ CommitFrame
  BY BaseFields, HeadOf DEF CommitSettles, CommitFrame
<1>2. \/ RolloverOpens(queue[1]) \/ RolloverFreezes(queue[1]) \/ TailFirst(queue[1])
      \/ TailLast(queue[1]) \/ CommitUpdates(queue[1])
  BY <1>1 DEF CommitSettles
<1> QED BY <1>1, <1>2, RolloverOpensShowing, RolloverFreezesShowing, TailFirstShowing,
           TailLastShowing, CommitUpdatesShowing

-----------------------------------------------------------------------------
(* What the cards show: every step.                                        *)

LEMMA InitShowing ==
  ASSUME Init
  PROVE  Showing
  BY DEF Init, Showing, FacesInv, MeetInv, ReplyInv

\* Steps that leave the cards as they are, or send the first.
LEMMA OthersRevive ==
  ASSUME Base,
         \/ CreationFails \/ Created \/ ContentExpires \/ Controller \/ Abort
         \/ UsageNote \/ \E t \in text..MaxText : Fed(t) \/ Result(t)
         \/ UNCHANGED vars
  PROVE  NoneRevived
<1>1. CASE Created
  <2>1. Len(cards) = 0
    BY <1>1 DEF Created, Base, LifeInv
  <2> QED BY <2>1 DEF NoneRevived
<1>2. CASE cards' = cards
  BY <1>2 DEF NoneRevived
<1>3. CreationFails \/ ContentExpires \/ Controller \/ Abort \/ UsageNote => cards' = cards
  BY DEF CreationFails, ContentExpires, Controller, Abort, UsageNote, FlushFires,
         CompleteGoesOn, backend
<1>4. (\E t \in text..MaxText : Fed(t) \/ Result(t)) \/ UNCHANGED vars => cards' = cards
  BY DEF Fed, Result, vars, backend
<1> QED BY <1>1, <1>2, <1>3, <1>4

LEMMA NextShowing ==
  ASSUME Base, Base', Showing, [Next]_vars
  PROVE  Showing' /\ NoneRevived
<1>1. CASE Requests
  BY <1>1, CreationFailsShowing, CreatedShowing, ContentExpiresShowing,
     ContentSettlesShowing, OldSettlesShowing, CommitSettlesShowing,
     FinishSettlesShowing, NextCardShowing, OthersRevive DEF Requests
<1>2. CASE Controller
  BY <1>2, FlushFiresShowing, CompleteGoesOnShowing, OthersRevive DEF Controller
<1>3. CASE Abort
  BY <1>3, AbortShowing, OthersRevive
<1>4. CASE UsageNote
  BY <1>4, UsageNoteShowing, OthersRevive
<1>5. CASE \E t \in text..MaxText : Fed(t) \/ Result(t)
  BY <1>5, FedShowing, ResultShowing, OthersRevive
<1>6. CASE UNCHANGED vars
  BY <1>6, StutterShowing, OthersRevive
<1> QED BY <1>1, <1>2, <1>3, <1>4, <1>5, <1>6 DEF Next

LEMMA ShowingHolds == Spec => []IInv
<1>1. Init => IInv
  BY InitBase, InitShowing DEF IInv
<1>2. IInv /\ [Next]_vars => IInv'
  BY NextBase, NextShowing DEF IInv
<1> QED BY <1>1, <1>2, PTL DEF Spec

\* A card that shows its end stays that way: a late flush, a request left in the
\* chain of a degraded backend, a retry or a late creation finds it closed,
\* because such requests only ever reach a card that still looks alive, or one
\* whose face they leave alone.
THEOREM FinishedCardsStayFinished == Spec => NoRepaint
<1>1. IInv /\ [Next]_vars
        => [\A i \in DOMAIN cards :
              cards[i].face # "streaming" => cards'[i].face # "streaming"]_vars
  <2> SUFFICES ASSUME IInv, [Next]_vars
               PROVE  \A i \in DOMAIN cards :
                        cards[i].face # "streaming" => cards'[i].face # "streaming"
    OBVIOUS
  <2>1. NoneRevived
    BY NextBase, NextShowing DEF IInv
  <2>2. DOMAIN cards = 1..Len(cards)
    BY BaseFields, LenProperties DEF IInv
  <2> QED BY <2>1, <2>2 DEF NoneRevived
<1>2. Spec => [][Next]_vars
  BY DEF Spec
<1> QED BY <1>1, <1>2, ShowingHolds, PTL DEF NoRepaint

\* When every request of a finished session has settled, each card shows its end
\* or has missed its last update: those that were left behind by a rollover or a
\* split, the one opened ahead of it, and the last one.
THEOREM NoCardLooksAlive == Spec => []NoZombie
<1>1. IInv => NoZombie
  <2> SUFFICES ASSUME IInv, AtRest, state \in Final \cup {"error"},
                      NEW i \in DOMAIN cards, cards[i].face = "streaming"
               PROVE  cards[i].missed
    BY DEF NoZombie
  <2>1. /\ i \in 1..Len(cards) /\ Len(cards) \in Nat /\ mine \in Nat
        /\ cards \in Seq(Card)
    BY BaseFields, LenProperties DEF IInv
  <2>2. cards # <<>>
    BY <2>1
  <2>3. state # "streaming" /\ fin = NoFin /\ queue = <<>>
    BY DEF AtRest, Final
  <2>4. Ended(cards[Current])
    BY <2>2, <2>3 DEF IInv, Showing, FacesInv
  <2>5. mode # "streaming" => Len(cards) = mine
    BY <2>2, <2>3 DEF IInv, Base, RollInv
  <2>6. i # Current => Ended(cards[i])
    <3>1. CASE mode = "streaming"
      BY <2>1, <2>2, <3>1 DEF IInv, Showing, FacesInv
    <3>2. CASE mode # "streaming"
      <4>1. i # mine + 1
        BY <2>1, <2>5, <3>2
      <4> QED BY <2>1, <2>2, <4>1 DEF IInv, Showing, FacesInv
    <3> QED BY <3>1, <3>2
  <2> QED BY <2>4, <2>6 DEF Ended
<1> QED BY <1>1, ShowingHolds, PTL

\* Nothing of the reply is lost or shown twice where one card ends and the next
\* begins, whatever rollovers, splits and their failures came before.
THEOREM SuccessiveCardsMeet == Spec => []CardsMeet
<1>1. IInv => CardsMeet
  <2> SUFFICES ASSUME IInv PROVE CardsMeet
    OBVIOUS
  <2>1. cards # <<>> => cards[1].from = 0
    BY DEF IInv, Showing, MeetInv
  <2>2. ASSUME NEW i \in DOMAIN cards, i < Len(cards), cards[i].face = "frozen",
               ~cards[i].missed, call # "fallback", told # "plain"
        PROVE  cards[i].to = cards[i + 1].from
    <3>1. i \in 1..Len(cards) /\ cards # <<>>
      BY BaseFields, LenProperties DEF IInv
    <3> QED BY <2>2, <3>1 DEF IInv, Showing, MeetInv, Going
  <2> QED BY <2>1, <2>2 DEF CardsMeet
<1> QED BY <1>1, ShowingHolds, PTL

\* A reply that the run takes for shown is on the last card to its end - on a
\* reply card, to the end of what the sections of the card leave of it - or a
\* card says that some of it is missing; no request that was still under way
\* takes it off again, and a usage note puts at least the clipped reply there.
THEOREM ReplyStaysShown == Spec => []ReplyIsShown
<1>1. IInv => ReplyIsShown
  <2> SUFFICES ASSUME IInv, told = "card", ~overruled
               PROVE  \/ \E i \in DOMAIN cards : cards[i].cut
                      \/ cards[Len(cards)].face = "completed"
                         /\ cards[Len(cards)].to = Reply
    BY DEF ReplyIsShown, Reply
  <2>1. OnCard(cards, Reply)
    BY DEF IInv, Showing, ReplyInv
  <2>2. DOMAIN cards = 1..Len(cards)
    BY BaseFields, LenProperties DEF IInv
  <2> QED BY <2>1, <2>2 DEF OnCard
<1> QED BY <1>1, ShowingHolds, PTL
=============================================================================
