---------------------------- MODULE MCNodeTopics ----------------------------
EXTENDS NodeTopics
CONSTANTS n1, n2, c1, c2, m1
====
