---------------------------- MODULE NodeTopics -----------------------------
(***************************************************************************)
(* The node facade of asteroid-mq for one topic code                       *)
(* (src/src/protocol/topic.rs, impl Node and TopicRef): load_topic on the  *)
(* leader and on followers, delete_topic, remove_topic run by the applier  *)
(* of UnloadTopic, get_topic, and the Topic handles that client tasks keep *)
(* and call send_message on.                                               *)
(*                                                                         *)
(* The Raft log is `log`, the same committed sequence on every node; node  *)
(* n has applied its first applied[n] entries.  A TopicData Arc is named   *)
(* by <<node, gen>>, gen being the index of the LoadTopic entry whose      *)
(* apply created it.  The queue inside a topic is abstracted to the set of *)
(* held messages; TopicData.tla models it in full.  The applier of         *)
(* LoadTopic, UnloadTopic and DelegateMessage is not under src/ and is     *)
(* modelled from spec.md 4.7 and 4.9.                                      *)
(***************************************************************************)
EXTENDS Integers, Sequences, FiniteSets

CONSTANTS
    Nodes,      \* the nodes of the cluster
    Leader,     \* the node wait_raft_cluster_ready reports as leader
    Clients,    \* client tasks calling the facade
    Msgs,       \* message ids (snowflakes, never reused)
    MaxLog      \* bound on the length of the committed log

ASSUME Leader \in Nodes /\ MaxLog \in Nat

NoHandle == [node |-> Leader, gen |-> 0]
Outcomes == {"Ok", "MessageDropped", "ChannelClosed"}
Pcs == {"idle", "loading", "spinning", "holding", "deleting", "panicked"}
Entry == [kind : {"LoadTopic", "UnloadTopic"}]
    \cup [kind : {"DelegateMessage"}, m : Msgs, from : Nodes]

VARIABLES
    log,        \* the committed Raft log
    applied,    \* applied[n]: number of entries node n has applied
    topics,     \* topics[n]: gen of the topic in n's registry, 0 if none
    pc,         \* where each client task is
    at,         \* at[c]: the node the client's call runs on
    target,     \* target[c]: index of the entry whose commit c awaits
    handle,     \* handle[c]: the Topic (Arc) the client holds
    waiting,    \* reporters: [node, gen, m] registered in that Arc's queue
    held,       \* held messages: [node, gen, m] in that Arc's queue
    reported,   \* reported[m]: outcomes sent on m's reporter, in order
    used,       \* message ids already sent
    appliedIn,  \* appliedIn[m]: gen of the topic that applied m at its sender
    weak        \* weak[c]: the Arc the client's TopicRef points to

vars == <<log, applied, topics, pc, at, target, handle, waiting, held,
          reported, used, appliedIn, weak>>

\* The Arc <<n, g>> is alive while the registry or a client handle in hs
\* keeps it.
Alive(n, g, hs) == topics[n] = g \/ \E c \in Clients : hs[c] = [node |-> n, gen |-> g]

Init ==
    /\ log = << >>
    /\ applied = [n \in Nodes |-> 0]
    /\ topics = [n \in Nodes |-> 0]
    /\ pc = [c \in Clients |-> "idle"]
    /\ at = [c \in Clients |-> Leader]
    /\ target = [c \in Clients |-> 0]
    /\ handle = [c \in Clients |-> NoHandle]
    /\ waiting = {}
    /\ held = {}
    /\ reported = [m \in Msgs |-> << >>]
    /\ used = {}
    /\ appliedIn = [m \in Msgs |-> 0]
    /\ weak = [c \in Clients |-> NoHandle]

Propose(entry) == /\ Len(log) < MaxLog
                  /\ log' = Append(log, entry)

-----------------------------------------------------------------------------
(***************************************************************************)
(* Client tasks.                                                           *)
(***************************************************************************)
\* load_topic: the leader proposes LoadTopic and awaits its commit; a
\* follower spins on get_topic, yielding between tries.
LoadTopic(c, n) ==
    /\ pc[c] = "idle"
    /\ at' = [at EXCEPT ![c] = n]
    /\ IF n = Leader
       THEN /\ Propose([kind |-> "LoadTopic"])
            /\ pc' = [pc EXCEPT ![c] = "loading"]
            /\ target' = [target EXCEPT ![c] = Len(log) + 1]
       ELSE /\ pc' = [pc EXCEPT ![c] = "spinning"]
            /\ UNCHANGED <<log, target>>
    /\ UNCHANGED <<applied, topics, handle, waiting, held, reported, used, appliedIn, weak>>

\* get_topic: a handle to the Arc in n's registry.
GetTopic(n) == [node |-> n, gen |-> topics[n]]

\* The leader's commit_log returns once the entry is applied locally; then
\* get_topic(..).expect("topic should be loaded").
LoadTopicReturn(c) ==
    /\ pc[c] = "loading"
    /\ applied[at[c]] >= target[c]
    /\ IF topics[at[c]] # 0
       THEN /\ handle' = [handle EXCEPT ![c] = GetTopic(at[c])]
            /\ pc' = [pc EXCEPT ![c] = "holding"]
       ELSE /\ pc' = [pc EXCEPT ![c] = "panicked"]
            /\ UNCHANGED handle
    /\ UNCHANGED <<log, applied, topics, at, target, waiting, held, reported, used, appliedIn, weak>>

\* A follower loop that takes get_topic's answer without checking it.
SpinReturnUnchecked(c) ==
    /\ pc[c] = "spinning"
    /\ handle' = [handle EXCEPT ![c] = GetTopic(at[c])]
    /\ pc' = [pc EXCEPT ![c] = "holding"]
    /\ UNCHANGED <<log, applied, topics, at, target, waiting, held, reported, used, appliedIn, weak>>

\* One turn of the follower's loop that finds the topic.
SpinReturn(c) ==
    /\ pc[c] = "spinning"
    /\ topics[at[c]] # 0
    /\ handle' = [handle EXCEPT ![c] = GetTopic(at[c])]
    /\ pc' = [pc EXCEPT ![c] = "holding"]
    /\ UNCHANGED <<log, applied, topics, at, target, waiting, held, reported, used, appliedIn, weak>>

\* delete_topic on the leader proposes UnloadTopic and awaits its commit;
\* on any other node it returns at once, which changes nothing.
DeleteTopic(c) ==
    /\ pc[c] = "idle"
    /\ Propose([kind |-> "UnloadTopic"])
    /\ pc' = [pc EXCEPT ![c] = "deleting"]
    /\ at' = [at EXCEPT ![c] = Leader]
    /\ target' = [target EXCEPT ![c] = Len(log) + 1]
    /\ UNCHANGED <<applied, topics, handle, waiting, held, reported, used, appliedIn, weak>>

DeleteTopicReturn(c) ==
    /\ pc[c] = "deleting"
    /\ applied[Leader] >= target[c]
    /\ pc' = [pc EXCEPT ![c] = "idle"]
    /\ UNCHANGED <<log, applied, topics, at, target, handle, waiting, held,
                   reported, used, appliedIn, weak>>

\* Topic::wait_ack: the reporter of m, registered in the queue of the Arc h.
WaitAck(h, m) == [node |-> h.node, gen |-> h.gen, m |-> m]

\* Topic::send_message on the handle: wait_ack registers the reporter in the
\* handle's own queue, then DelegateMessage is proposed from its node.
SendMessage(c, m) ==
    /\ pc[c] = "holding" /\ m \notin used
    /\ waiting' = waiting \cup {WaitAck(handle[c], m)}
    /\ used' = used \cup {m}
    /\ Propose([kind |-> "DelegateMessage", m |-> m, from |-> handle[c].node])
    /\ UNCHANGED <<applied, topics, pc, at, target, handle, held, reported, appliedIn, weak>>

\* The client drops its Topic.  An Arc nobody keeps is freed, and with it
\* the one-shot senders of its reporters: each receiver sees the channel
\* closed.
DropHandle(c) ==
    /\ pc[c] = "holding"
    /\ pc' = [pc EXCEPT ![c] = "idle"]
    /\ LET hs    == [handle EXCEPT ![c] = NoHandle]
           freed == {w \in waiting : ~Alive(w.node, w.gen, hs)}
       IN  /\ handle' = hs
           /\ waiting' = waiting \ freed
           /\ held' = {h \in held : Alive(h.node, h.gen, hs)}
           /\ reported' = [m \in Msgs |-> IF \E w \in freed : w.m = m
                                          THEN Append(reported[m], "ChannelClosed")
                                          ELSE reported[m]]
    /\ UNCHANGED <<log, applied, topics, at, target, used, appliedIn, weak>>

\* Topic::reference: a TopicRef, a Weak to the handle's Arc.
Reference(c) ==
    /\ pc[c] = "holding"
    /\ weak' = [weak EXCEPT ![c] = handle[c]]
    /\ UNCHANGED <<log, applied, topics, pc, at, target, handle, waiting, held,
                   reported, used, appliedIn>>

\* TopicRef::upgrade: Weak::upgrade yields a Topic while the Arc is alive
\* (None, which changes nothing, otherwise).
Upgrade(c) ==
    /\ pc[c] = "idle" /\ weak[c] # NoHandle
    /\ Alive(weak[c].node, weak[c].gen, handle)
    /\ handle' = [handle EXCEPT ![c] = weak[c]]
    /\ pc' = [pc EXCEPT ![c] = "holding"]
    /\ UNCHANGED <<log, applied, topics, at, target, waiting, held, reported,
                   used, appliedIn, weak>>

-----------------------------------------------------------------------------
(***************************************************************************)
(* The applier of node n applies its next committed entry.                 *)
(***************************************************************************)
\* Node::remove_topic: take the topic out of the registry, send
\* MessageDropped on every reporter still waiting in its queue, clear it.
RemoveTopic(n) ==
    LET g == topics[n]
        drained == {w \in waiting : w.node = n /\ w.gen = g}
    IN  IF g = 0 THEN UNCHANGED <<topics, waiting, held, reported>>
        ELSE /\ topics' = [topics EXCEPT ![n] = 0]
             /\ waiting' = waiting \ drained
             /\ held' = {h \in held : h.node # n \/ h.gen # g}
             /\ reported' = [m \in Msgs |-> IF \E w \in drained : w.m = m
                                            THEN Append(reported[m], "MessageDropped")
                                            ELSE reported[m]]

\* LoadTopic creates the topic if the registry has none.
ApplyLoadTopic(n, i) ==
    /\ topics' = [topics EXCEPT ![n] = IF @ = 0 THEN i ELSE @]
    /\ UNCHANGED <<waiting, held, reported, appliedIn>>

\* DelegateMessage runs hold_new_message on the topic in the registry, if any.
ApplyDelegate(n, e) ==
    /\ IF topics[n] # 0
       THEN /\ held' = held \cup {[node |-> n, gen |-> topics[n], m |-> e.m]}
            /\ appliedIn' = IF e.from = n THEN [appliedIn EXCEPT ![e.m] = topics[n]]
                            ELSE appliedIn
       ELSE UNCHANGED <<held, appliedIn>>
    /\ UNCHANGED <<topics, waiting, reported>>

Apply(n) ==
    /\ applied[n] < Len(log)
    /\ LET i == applied[n] + 1
       IN  CASE log[i].kind = "LoadTopic"   -> ApplyLoadTopic(n, i)
             [] log[i].kind = "UnloadTopic" -> RemoveTopic(n) /\ UNCHANGED appliedIn
             [] OTHER                       -> ApplyDelegate(n, log[i])
    /\ applied' = [applied EXCEPT ![n] = @ + 1]
    /\ UNCHANGED <<log, pc, at, target, handle, used, weak>>

\* A held message is acked by all its endpoints and flushed: poll reports Ok
\* on its reporter if this Arc's queue holds one.
Complete(h) ==
    /\ h \in held
    /\ held' = held \ {h}
    /\ IF h \in waiting
       THEN /\ waiting' = waiting \ {h}
            /\ reported' = [reported EXCEPT ![h.m] = Append(@, "Ok")]
       ELSE UNCHANGED <<waiting, reported>>
    /\ UNCHANGED <<log, applied, topics, pc, at, target, handle, used, appliedIn, weak>>

-----------------------------------------------------------------------------
Next ==
    \/ \E c \in Clients :
          \/ \E n \in Nodes : LoadTopic(c, n)
          \/ LoadTopicReturn(c) \/ SpinReturn(c)
          \/ DeleteTopic(c) \/ DeleteTopicReturn(c) \/ DropHandle(c)
          \/ Reference(c) \/ Upgrade(c)
          \/ \E m \in Msgs : SendMessage(c, m)
    \/ \E n \in Nodes : Apply(n)
    \/ \E h \in held : Complete(h)

Spec == Init /\ [][Next]_vars

-----------------------------------------------------------------------------
TypeOK ==
    /\ log \in Seq(Entry) /\ Len(log) <= MaxLog
    /\ applied \in [Nodes -> 0..Len(log)]
    /\ topics \in [Nodes -> 0..Len(log)]
    /\ pc \in [Clients -> Pcs] /\ at \in [Clients -> Nodes]
    /\ handle \in [Clients -> [node : Nodes, gen : 0..Len(log)]]
    /\ waiting \subseteq [node : Nodes, gen : 1..Len(log), m : used]
    /\ held \subseteq [node : Nodes, gen : 1..Len(log), m : used]
    /\ reported \in [Msgs -> Seq(Outcomes)]
    /\ appliedIn \in [Msgs -> 0..Len(log)]
    /\ weak \in [Clients -> [node : Nodes, gen : 0..Len(log)]]

-----------------------------------------------------------------------------
(* Statements the code does not keep; each is checked by a run that        *)
(* expects a violation.                                                    *)

(***************************************************************************)
(* spec.md 4.9: the leader proposes LoadTopic and, after commit, fetches   *)
(* the resulting topic handle.  load_topic calls                           *)
(* get_topic(..).expect("topic should be loaded"), which panics when an     *)
(* UnloadTopic committed by another task was applied before the caller     *)
(* resumed.                                                                *)
(***************************************************************************)
NoLoadPanic == \A c \in Clients : pc[c] # "panicked"

(***************************************************************************)
(* spec.md 4.4: every reporter is resolved with the final status of its    *)
(* message, so the topic that admits the message on the sending node must  *)
(* be the one whose queue holds the reporter.  send_message on a Topic     *)
(* handle kept across remove_topic registers the reporter in the removed   *)
(* Arc, while the DelegateMessage entry is applied to the topic now in the *)
(* registry, which cannot report to it.                                    *)
(***************************************************************************)
ReporterInAppliedTopic == \A w \in waiting : appliedIn[w.m] \in {0, w.gen}

====
