------------------------------- MODULE Inbox -------------------------------
(***************************************************************************)
(* What the message path promises for a chat: every message that is stored *)
(* is taken up - put before an agent, answered at once, or turned away     *)
(* with a notice - and never a later one before an earlier one.            *)
(***************************************************************************)
EXTENDS Integers

CONSTANTS Chats, Msgs

VARIABLES
  arrived,           \* [Chats -> SUBSET Msgs]
  taken              \* [Chats -> SUBSET Msgs]

inbox == <<arrived, taken>>

Init == arrived = [c \in Chats |-> {}] /\ taken = [c \in Chats |-> {}]

Arrive(c, m) ==
  /\ \A d \in Chats : \A n \in arrived[d] : n < m
  /\ arrived' = [arrived EXCEPT ![c] = @ \cup {m}]
  /\ UNCHANGED taken

\* Everything that has arrived up to k is taken up.
Take(c) ==
  /\ \E k \in Msgs :
       taken' = [taken EXCEPT ![c] = @ \cup {m \in arrived[c] : m <= k}]
  /\ UNCHANGED arrived

Next == \E c \in Chats : Take(c) \/ \E m \in Msgs : Arrive(c, m)

SafeSpec == Init /\ [][Next]_inbox

Spec == SafeSpec /\ \A c \in Chats : WF_inbox(Take(c))
=============================================================================
