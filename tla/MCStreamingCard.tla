-------------------------- MODULE MCStreamingCard --------------------------
EXTENDS StreamingCard

\* What the sections leave: they clip a reply that fits into one card (3) and
\* one that does not (5), and leave a long paragraph alone (4).
Bodies == [t \in 0..MaxText |-> CASE t = 3 -> 2 [] t = 5 -> 3 [] OTHER -> t]
=============================================================================
