---------------------------- MODULE MCTopicData ----------------------------
(* Instance of TopicData for TLC: two endpoints, one on each node, and two *)
(* messages, with the overflow limit at 1 so that overflow happens.        *)
EXTENDS TopicData

CONSTANTS e1, e2, m1, m2, n1, n2

MCHost == (e1 :> n1) @@ (e2 :> n2)

\* hash64 values: e2 sorts before e1; m1 picks ring index 0, m2 index 1.
MCHash == (e1 :> 7) @@ (e2 :> 3) @@ (m1 :> 4) @@ (m2 :> 5)
=============================================================================
