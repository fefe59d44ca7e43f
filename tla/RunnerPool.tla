----------------------------- MODULE RunnerPool -----------------------------
(***************************************************************************)
(* What GroupQueue promises about running agents, without its queues: a     *)
(* pool of slots of two kinds, containers and host processes, in which the  *)
(* holders of one serialization key occupy at most one slot at a time.      *)
(***************************************************************************)
EXTENDS Integers, FiniteSets

CONSTANTS Jids, KeyOf, RunNos, MaxContainers, MaxHostProcesses

VARIABLE busy        \* the occupied slots: <<jid, number of the run, host>>

Limit(host) == IF host THEN MaxHostProcesses ELSE MaxContainers

\* j may take a slot of mode host when the occupied ones are b.
Free(j, host, b) ==
  /\ \A s \in b : KeyOf[s[1]] # KeyOf[j]
  /\ Cardinality({s \in b : s[3] = host}) < Limit(host)

Init == busy = {}

Begin(j, no, host) ==
  /\ Free(j, host, busy)
  /\ busy' = busy \cup {<<j, no, host>>}

End(slot) ==
  /\ slot \in busy
  /\ busy' = busy \ {slot}

\* A run ends and the next run of the same JID takes a slot at once, of the
\* mode the workspace has by now.
HandOver(slot, no, host) ==
  LET j == slot[1]  left == busy \ {slot}
  IN  /\ slot \in busy
      /\ Free(j, host, left)
      /\ busy' = left \cup {<<j, no, host>>}

Next ==
  \/ \E j \in Jids, no \in RunNos, host \in BOOLEAN : Begin(j, no, host)
  \/ \E slot \in busy :
       \/ End(slot)
       \/ \E no \in RunNos, host \in BOOLEAN : HandOver(slot, no, host)

Spec == Init /\ [][Next]_busy
=============================================================================
