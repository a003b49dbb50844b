---------------------------- MODULE MCTopicCode ----------------------------
EXTENDS TopicCode

\* A buffer may end with the field, or hold the start of the next one
\* (an ASCII byte, or a byte that is never UTF-8).
MCTails == {<< >>, <<65>>, <<255>>}
=============================================================================
