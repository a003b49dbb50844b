--------------------------- MODULE MCTopicReplicas ---------------------------
EXTENDS TopicReplicas, TLC

CONSTANTS n1, n2, e1, e2

\* e1 is created on n1 and e2 on n2.
MCHost == (e1 :> n1) @@ (e2 :> n2)

=============================================================================
