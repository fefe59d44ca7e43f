----------------------------- MODULE OrderedRun -----------------------------
(***************************************************************************)
(* What a graph run promises whatever happens to it: its nodes finish one  *)
(* after the other in an order of the graph, and what is finished stays    *)
(* finished.                                                               *)
(***************************************************************************)
CONSTANTS Nodes, Edges     \* Edges: records with from, to in Nodes
VARIABLE done              \* the nodes that have finished

Predecessors(n) == {e.from : e \in {x \in Edges : x.to = n}}

Init == done = {}

Finish(n) ==
  /\ n \notin done
  /\ Predecessors(n) \subseteq done
  /\ done' = done \cup {n}

Next == \E n \in Nodes : Finish(n)

Spec == Init /\ [][Next]_done
=============================================================================
