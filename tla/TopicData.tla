----------------------------- MODULE TopicData -----------------------------
(***************************************************************************)
(* One replica of one topic of asteroid-mq (src/src/protocol/topic.rs):    *)
(* the replicated TopicData tables and hold-message queue, mutated only by *)
(* the log applier, together with the tasks of the node that hosts the     *)
(* replica: Topic::send_message, Topic::create_endpoint and                *)
(* Topic::delete_endpoint, and the EpOffline events of peer nodes.         *)
(*                                                                         *)
(* Committed but not yet applied log entries are the sequence `log`; the   *)
(* applier takes its head, so one apply step is one whole handler.        *)
(* MessageQueue, WaitAck and InterestMap are not under src/ and are        *)
(* modelled from spec.md (sections 4.1, 4.3, 4.4).                         *)
(***************************************************************************)
EXTENDS Integers, Sequences, SequencesExt, FiniteSets, Functions

CONSTANTS
    Eps,            \* endpoint addresses (snowflakes, never reused)
    Msgs,           \* message ids (snowflakes, never reused)
    Subjects,       \* subjects; an interest matches a subject iff equal
    Self,           \* the node hosting this replica
    Other,          \* the other node(s) of the cluster
    Host,           \* Host[e]: the node that creates endpoint e
    Hash,           \* Hash[x]: crate::util::hash64 of an endpoint or message id
    TargetKinds,    \* subset of {"Durable", "Online", "Push"} that clients send
    AckKinds,       \* subset of {"Sent", "Received", "Processed"} clients require
    AckStatuses,    \* statuses an endpoint may report in a MessageStateUpdate
    OverflowSize,   \* overflow_config.size; 0 stands for overflow_config = None
    OverflowPolicies, \* the policies a topic config may carry: "RejectNew", "DropOld"
    Senders,        \* the nodes whose clients call send_message
    NewInterests,   \* the interest sets a SetEpInterest entry may carry
    MaxLog          \* bound on committed-but-unapplied entries

Nodes == {Self, Other}
NoNode == "none"

ASSUME Host \in [Eps -> Nodes] /\ Eps \cup Msgs \subseteq DOMAIN Hash
ASSUME Senders \subseteq Nodes /\ NewInterests \subseteq SUBSET Subjects
ASSUME OverflowSize \in Nat /\ OverflowPolicies \subseteq {"RejectNew", "DropOld"}

(***************************************************************************)
(* MessageStatusKind and the ack lattice Unsent < Sent < Received <        *)
(* Processed; Unreachable and Failed are terminal (spec.md section 3).     *)
(***************************************************************************)
Statuses == {"Unsent", "Sent", "Received", "Processed", "Unreachable", "Failed"}
Terminal == {"Unreachable", "Failed"}
Rank == [s \in Statuses |->
            CASE s = "Unsent" -> 0 [] s = "Sent" -> 1 [] s = "Received" -> 2
              [] s = "Processed" -> 3 [] OTHER -> 4]

Outcomes == {"Ok", "Overflow", "NoAvailableTarget", "MessageDropped"}

Header == [target : TargetKinds, ack : AckKinds, subjects : SUBSET Subjects \ {{}}]

\* Log entry kinds (spec.md section 6), one record shape per kind.
Entry == [kind : {"DelegateMessage"}, m : Msgs, hdr : Header]
    \cup [kind : {"EndpointOnline"}, ep : Eps, interests : SUBSET Subjects, host : Nodes]
    \cup [kind : {"SetEpInterest"}, ep : Eps, interests : SUBSET Subjects]
    \cup [kind : {"MessageStateUpdate"}, m : Msgs, from : Eps, status : Statuses]

VARIABLES
    routing,    \* ep_routing_table: EndpointAddr -> NodeId (NoNode = no row)
    interest,   \* ep_interest_map, as its raw inverse map EndpointAddr -> interests
    active,     \* the endpoints with an ep_latest_active row
    queue,      \* MessageQueue order, head first
    hold,       \* hold_messages: MessageId -> [hdr, status]
    waiting,    \* queue.waiting: ids with a local one-shot reporter
    localEps,   \* local_endpoints of this node
    log,        \* committed entries not yet applied
    epState,    \* life of an endpoint address, seen by the node that owns it
    used,       \* message ids already sent
    reported,   \* what each reporter was resolved with, in order
    delivered,  \* messages pushed into each local endpoint's mailbox, in order
    admitted,   \* ids in the order they were pushed into the queue
    recipients, \* the status keys each message was admitted with
    joined,     \* endpoints that came online after a message was admitted
    overflowPolicy \* overflow_config.policy of this topic's TopicConfig

vars == <<routing, interest, active, queue, hold, waiting, localEps, log,
          epState, used, reported, delivered, admitted, recipients, joined,
          overflowPolicy>>

-----------------------------------------------------------------------------
(***************************************************************************)
(* Helpers of WaitAck and MessageQueue (spec.md 4.3, 4.4).  They act on a  *)
(* record `q` of the queue's state so that the sequential code of one      *)
(* handler can be composed.                                                *)
(***************************************************************************)
QState == [hold |-> hold, queue |-> queue, waiting |-> waiting,
           reported |-> reported, delivered |-> delivered]

\* WaitAck is resolved: every endpoint reached the required kind or failed.
IsComplete(h) ==
    \A e \in DOMAIN h.status :
        h.status[e] \in Terminal \/ Rank[h.status[e]] >= Rank[h.hdr.ack]

\* Send `r` on the reporter of m, if there still is one, and drop it.
Report(q, m, r) ==
    IF m \in q.waiting
    THEN [q EXCEPT !.waiting = @ \ {m}, !.reported[m] = Append(@, r)]
    ELSE q

\* update_ack: monotone; a status that is not strictly greater is ignored.
UpdateAck(q, m, from, s) ==
    IF /\ m \in DOMAIN q.hold
       /\ from \in DOMAIN q.hold[m].status
       /\ Rank[s] > Rank[q.hold[m].status[from]]
    THEN [q EXCEPT !.hold[m].status[from] = s]
    ELSE q

\* A flush that drains every complete message, wherever it is queued.
FlushCompleted(q) ==
    LET done == {m \in DOMAIN q.hold : IsComplete(q.hold[m])}
    IN  FoldLeft(LAMBDA acc, m : Report(acc, m, "Ok"),
                 [q EXCEPT !.queue = SelectSeq(@, LAMBDA m : m \notin done),
                           !.hold = [m \in DOMAIN @ \ done |-> @[m]]],
                 SelectSeq(q.queue, LAMBDA m : m \in done))

\* flush: pop the head while it is complete (an id whose hold message is
\* gone is not).
RECURSIVE Flush(_)
Flush(q) ==
    IF /\ q.queue # << >>
       /\ Head(q.queue) \in DOMAIN q.hold
       /\ IsComplete(q.hold[Head(q.queue)])
    THEN Flush(Report([q EXCEPT !.queue = Tail(@),
                                !.hold = [m \in DOMAIN @ \ {Head(q.queue)} |-> @[m]]],
                      Head(q.queue), "Ok"))
    ELSE q

-----------------------------------------------------------------------------
(***************************************************************************)
(* TopicData helpers of topic.rs.                                          *)
(***************************************************************************)
\* collect_addr_by_subjects, with InterestMap::find as exact match.
CollectAddrBySubjects(subjects) == {e \in Eps : interest[e] \cap subjects # {}}

\* resolve_node_ep_map and `self.node.is(node)`: e has a routing row naming
\* this node.
RoutedHere(e, rt) == rt[e] = Self

\* push_message_to_local_ep succeeds: get_local_ep finds the endpoint, and
\* upgrading its Weak succeeds unless the LocalEndpoint has been dropped.
PushMessageToLocalEp(e) == e \in localEps /\ epState[e] # "dropped"

\* poll_message hands dispatch_message the Unsent endpoints of the message;
\* dispatch_message keeps those routed to this node.
ToDispatch(st, e, rt) == st[e] = "Unsent" /\ RoutedHere(e, rt)

\* dispatch_message under routing table rt: endpoints of this node are pushed
\* into their mailbox if the local endpoint exists (Sent) and fail otherwise
\* (Unreachable); endpoints of other nodes or without a row get nothing.
Dispatch(q, m, rt) ==
    LET st   == q.hold[m].status
        mine == {e \in DOMAIN st : ToDispatch(st, e, rt)}
        ok   == {e \in mine : PushMessageToLocalEp(e)}
    IN  [q EXCEPT
           !.hold[m].status = [e \in DOMAIN st |->
                                 IF e \in ok THEN "Sent" ELSE IF e \in mine THEN "Unreachable" ELSE st[e]],
           !.delivered = [e \in Eps |-> IF e \in ok THEN Append(@[e], m) ELSE @[e]]]

\* poll_message: report Ok if complete, else dispatch to Unsent endpoints.
Poll(q, m, rt) ==
    IF m \notin DOMAIN q.hold THEN q
    ELSE IF IsComplete(q.hold[m]) THEN Report(q, m, "Ok")
    ELSE Dispatch(q, m, rt)

\* update_and_flush; from = NoNode is the empty update of
\* MessageStateUpdate::new_empty.  Poll, then flush if poll was Ready.
UpdateAndFlush(q, m, from, s, rt) ==
    LET q1 == IF from = NoNode THEN q ELSE UpdateAck(q, m, from, s)
        q2 == Poll(q1, m, rt)
    IN  IF m \in DOMAIN q1.hold /\ IsComplete(q1.hold[m]) THEN Flush(q2) ELSE q2

\* The hash ring of hold_new_message: recipients sorted by hash64; the sort
\* is stable, so endpoints with equal hashes keep HashSet iteration order,
\* which is any order.
HashRings(R) == {r \in SetToSeqs(R) : IsSorted(r, LAMBDA a, b : Hash[a] <= Hash[b])}

PushTarget(ring, m) == ring[(Hash[m] % Len(ring)) + 1]

\* An overflow check one message late.
AtLimitLate(q) == OverflowSize > 0 /\ Len(q.queue) > OverflowSize

\* The overflow check of hold_new_message: the queue is at its limit.
AtLimit(q) == OverflowSize > 0 /\ Len(q.queue) >= OverflowSize

\* A DropOld that pops the queue but leaves the old entry in hold_messages.
AdmitKeepOld(q, m, hdr, R) ==
    LET q1 == IF AtLimit(q) /\ overflowPolicy = "DropOld"
              THEN Report([q EXCEPT !.queue = Tail(@)], Head(q.queue), "Overflow")
              ELSE q
    IN  [q1 EXCEPT !.queue = Append(@, m),
                   !.hold = (m :> [hdr |-> hdr, status |-> [e \in R |-> "Unsent"]]) @@ @]

\* Admit hold message m with status keys R; DropOld pops the head first.
Admit(q, m, hdr, R) ==
    LET q1 == IF AtLimit(q) /\ overflowPolicy = "DropOld"
              THEN Report([q EXCEPT !.queue = Tail(@),
                                    !.hold = [x \in DOMAIN @ \ {Head(q.queue)} |-> @[x]]],
                          Head(q.queue), "Overflow")
              ELSE q
    IN  [q1 EXCEPT !.queue = Append(@, m),
                   !.hold = (m :> [hdr |-> hdr, status |-> [e \in R |-> "Unsent"]]) @@ @]

SetQ(q) ==
    /\ hold' = q.hold
    /\ queue' = q.queue
    /\ waiting' = q.waiting
    /\ reported' = q.reported
    /\ delivered' = q.delivered

-----------------------------------------------------------------------------
Init ==
    /\ routing = [e \in Eps |-> NoNode]
    /\ interest = [e \in Eps |-> {}]
    /\ active = {}
    /\ queue = << >>
    /\ hold = << >>
    /\ waiting = {}
    /\ localEps = {}
    /\ log = << >>
    /\ epState = [e \in Eps |-> "unused"]
    /\ used = {}
    /\ reported = [m \in Msgs |-> << >>]
    /\ delivered = [e \in Eps |-> << >>]
    /\ admitted = << >>
    /\ recipients = [m \in Msgs |-> {}]
    /\ joined = [m \in Msgs |-> {}]
    /\ overflowPolicy \in OverflowPolicies

Propose(entry) == /\ Len(log) < MaxLog
                  /\ log' = Append(log, entry)

TopicVars == <<routing, interest, active, queue, hold, waiting, reported,
               delivered, admitted, recipients, joined>>

(***************************************************************************)
(* Topic::send_message on node `from`: wait_ack registers the reporter on  *)
(* the sending node, then the DelegateMessage entry is proposed.  A failed *)
(* proposal returns the error and leaves the reporter registered.          *)
(***************************************************************************)
\* A send that does not take a fresh id: a retried Message keeps its id.
SendMessageSameId(m, from, hdr) ==
    /\ waiting' = IF from = Self THEN waiting \cup {m} ELSE waiting
    /\ used' = used \cup {m}
    /\ Propose([kind |-> "DelegateMessage", m |-> m, hdr |-> hdr])
    /\ UNCHANGED <<overflowPolicy, routing, interest, active, queue, hold, localEps, epState,
                   reported, delivered, admitted, recipients, joined>>

SendMessage(m, from, hdr) ==
    /\ m \notin used
    /\ used' = used \cup {m}
    /\ waiting' = IF from = Self THEN waiting \cup {m} ELSE waiting
    /\ \/ Propose([kind |-> "DelegateMessage", m |-> m, hdr |-> hdr])
       \/ from = Self /\ UNCHANGED log
    /\ UNCHANGED <<overflowPolicy, routing, interest, active, queue, hold, localEps, epState,
                   reported, delivered, admitted, recipients, joined>>

(***************************************************************************)
(* Topic::create_endpoint: propose EndpointOnline, then, once the commit   *)
(* has returned, insert the endpoint into local_endpoints.                 *)
(***************************************************************************)
CreateEndpoint(e, I) ==
    /\ Host[e] = Self /\ epState[e] = "unused"
    /\ \/ /\ Propose([kind |-> "EndpointOnline", ep |-> e, interests |-> I, host |-> Self])
          /\ epState' = [epState EXCEPT ![e] = "creating"]
       \/ /\ epState' = [epState EXCEPT ![e] = "dead"]   \* commit failed
          /\ UNCHANGED log
    /\ UNCHANGED <<overflowPolicy, TopicVars, localEps, used>>

\* The commit of the EndpointOnline entry returns once it is applied.
CreateEndpointReturn(e) ==
    /\ epState[e] = "creating"
    /\ \A i \in DOMAIN log : log[i].kind = "EndpointOnline" => log[i].ep # e
    /\ localEps' = localEps \cup {e}
    /\ epState' = [epState EXCEPT ![e] = "live"]
    /\ UNCHANGED <<overflowPolicy, TopicVars, log, used>>

(***************************************************************************)
(* Topic::delete_endpoint: removes the endpoint's rows from the tables and *)
(* local_endpoints directly, outside the log, and sends EpOffline events.  *)
(***************************************************************************)
DeleteEndpoint(e) ==
    /\ Host[e] = Self /\ epState[e] = "live"
    /\ interest' = [interest EXCEPT ![e] = {}]
    /\ routing' = [routing EXCEPT ![e] = NoNode]
    /\ active' = active \ {e}
    /\ localEps' = localEps \ {e}
    /\ epState' = [epState EXCEPT ![e] = "dead"]
    /\ UNCHANGED <<overflowPolicy, queue, hold, waiting, reported, delivered, admitted,
                   recipients, joined, log, used>>

\* The owner drops its LocalEndpoint without delete_endpoint: the Weak in
\* local_endpoints no longer upgrades, and the rows stay.
DropLocalEndpoint(e) ==
    /\ Host[e] = Self /\ epState[e] = "live"
    /\ epState' = [epState EXCEPT ![e] = "dropped"]
    /\ UNCHANGED <<overflowPolicy, TopicVars, localEps, log, used>>

\* create_endpoint run on the other node: its EndpointOnline entry.
RemoteEpOnline(e, I) ==
    /\ Host[e] = Other /\ epState[e] = "unused"
    /\ Propose([kind |-> "EndpointOnline", ep |-> e, interests |-> I, host |-> Other])
    /\ epState' = [epState EXCEPT ![e] = "live"]
    /\ UNCHANGED <<overflowPolicy, TopicVars, localEps, used>>

\* The EpOffline event of the other node's delete_endpoint: TopicData::ep_offline.
RemoteEpOffline(e) ==
    /\ Host[e] = Other /\ epState[e] = "live"
    /\ active' = active \ {e}
    /\ routing' = [routing EXCEPT ![e] = NoNode]
    /\ interest' = [interest EXCEPT ![e] = {}]
    /\ epState' = [epState EXCEPT ![e] = "dead"]
    /\ UNCHANGED <<overflowPolicy, queue, hold, waiting, reported, delivered, admitted,
                   recipients, joined, localEps, log, used>>

\* An endpoint acknowledges a message it was given: a MessageStateUpdate.
ProposeAck(m, e, s) ==
    /\ epState[e] = "live"
    /\ IF Host[e] = Self
       THEN \E i \in DOMAIN delivered[e] : delivered[e][i] = m
       ELSE m \in DOMAIN hold /\ e \in DOMAIN hold[m].status
    /\ Propose([kind |-> "MessageStateUpdate", m |-> m, from |-> e, status |-> s])
    /\ UNCHANGED <<overflowPolicy, TopicVars, localEps, epState, used>>

\* The owner of an endpoint replaces its interests: a SetEpInterest entry.
ProposeSetInterest(e, I) ==
    /\ epState[e] = "live"
    /\ Propose([kind |-> "SetEpInterest", ep |-> e, interests |-> I])
    /\ UNCHANGED <<overflowPolicy, TopicVars, localEps, epState, used>>

-----------------------------------------------------------------------------
(***************************************************************************)
(* The applier: one step applies the head entry through its TopicData     *)
(* method.                                                                 *)
(***************************************************************************)
Applied(k) == log # << >> /\ Head(log).kind = k

\* hold_new_message.  Push with no recipient reports NoAvailableTarget;
\* RejectNew at the limit reports Overflow; both return without admitting.
HoldNewMessage ==
    /\ Applied("DelegateMessage")
    /\ LET m   == Head(log).m
           hdr == Head(log).hdr
           R0  == CollectAddrBySubjects(hdr.subjects)
           Rejected(r) == /\ SetQ(Report(QState, m, r))
                          /\ UNCHANGED <<overflowPolicy, admitted, recipients>>
           Hold(R) == IF AtLimit(QState) /\ overflowPolicy = "RejectNew"
                      THEN Rejected("Overflow")
                      ELSE /\ SetQ(UpdateAndFlush(Admit(QState, m, hdr, R), m, NoNode, NoNode, routing))
                           /\ admitted' = Append(admitted, m)
                           /\ recipients' = [recipients EXCEPT ![m] = R]
       IN  IF hdr.target = "Push"
           THEN IF R0 = {} THEN Rejected("NoAvailableTarget")
                ELSE \E ring \in HashRings(R0) : Hold({PushTarget(ring, m)})
           ELSE Hold(R0)
    /\ log' = Tail(log)
    /\ UNCHANGED <<overflowPolicy, routing, interest, active, localEps, epState, used, joined>>

\* An ep_online that retro-subscribes held messages of every target kind.
RetroSubscribesAnyTarget(m, e, I) ==
    e \notin DOMAIN hold[m].status /\ hold[m].hdr.subjects \cap I # {}

\* ep_online retro-subscribes a held Durable message whose subjects the
\* endpoint now matches and that has no status for it yet.
RetroSubscribes(m, e, I) ==
    /\ hold[m].hdr.target = "Durable"
    /\ e \notin DOMAIN hold[m].status
    /\ hold[m].hdr.subjects \cap I # {}

\* ep_online: insert the rows, give every held Durable message whose subjects
\* the endpoint now matches an Unsent status, then update_and_flush each of
\* them, in HashSet order.
EpOnline ==
    /\ Applied("EndpointOnline")
    /\ LET e   == Head(log).ep
           rt  == [routing EXCEPT ![e] = Head(log).host]
           I   == interest[e] \cup Head(log).interests
           new == {m \in DOMAIN hold : RetroSubscribes(m, e, I)}
           q0  == [QState EXCEPT !.hold = [m \in DOMAIN @ |->
                       IF m \in new THEN [@[m] EXCEPT !.status = @ @@ (e :> "Unsent")]
                       ELSE @[m]]]
       IN  /\ routing' = rt
           /\ interest' = [interest EXCEPT ![e] = I]
           /\ active' = active \cup {e}
           /\ joined' = [m \in Msgs |-> IF m \in DOMAIN hold THEN joined[m] \cup {e}
                                        ELSE joined[m]]
           /\ \E order \in SetToSeqs(new) :
                 SetQ(FoldLeft(LAMBDA q, m : UpdateAndFlush(q, m, NoNode, NoNode, rt),
                               q0, order))
    /\ log' = Tail(log)
    /\ UNCHANGED <<overflowPolicy, localEps, epState, used, admitted, recipients>>

\* update_ep_interest: delete the endpoint's interests, insert the new ones.
UpdateEpInterest ==
    /\ Applied("SetEpInterest")
    /\ interest' = [interest EXCEPT ![Head(log).ep] = Head(log).interests]
    /\ log' = Tail(log)
    /\ UNCHANGED <<overflowPolicy, routing, active, queue, hold, waiting, reported, delivered,
                   localEps, epState, used, admitted, recipients, joined>>

\* A MessageStateUpdate entry: update_and_flush.
ApplyStateUpdate ==
    /\ Applied("MessageStateUpdate")
    /\ SetQ(UpdateAndFlush(QState, Head(log).m, Head(log).from, Head(log).status, routing))
    /\ log' = Tail(log)
    /\ UNCHANGED <<overflowPolicy, routing, interest, active, localEps, epState, used,
                   admitted, recipients, joined>>

(***************************************************************************)
(* Snapshot install.  Topic::apply_snapshot is given a snapshot taken of   *)
(* the same applied prefix, so its tables are this replica's own; its      *)
(* queue is the durable form of every hold message as snapshot() lists     *)
(* them: hold_messages.values(), in HashMap iteration order.               *)
(***************************************************************************)
SnapshotQueues == SetToSeqs(DOMAIN hold)

\* apply_snapshot: replace the tables, clear the queue, push the snapshot's
\* messages in the order given, poll_all, then flush.
ApplySnapshot ==
    /\ \E order \in SnapshotQueues :
          LET q0 == [QState EXCEPT !.queue = order]
          IN  SetQ(Flush(FoldLeft(LAMBDA q, m : Poll(q, m, routing), q0, order)))
    /\ UNCHANGED <<overflowPolicy, routing, interest, active, localEps, log, epState, used,
                   admitted, recipients, joined>>

-----------------------------------------------------------------------------
Next ==
    \/ \E m \in Msgs, from \in Senders, hdr \in Header : SendMessage(m, from, hdr)
    \/ \E e \in Eps, I \in SUBSET Subjects : CreateEndpoint(e, I) \/ RemoteEpOnline(e, I)
    \/ \E e \in Eps, I \in NewInterests : ProposeSetInterest(e, I)
    \/ \E e \in Eps : CreateEndpointReturn(e) \/ DeleteEndpoint(e) \/ RemoteEpOffline(e)
    \/ \E e \in Eps : DropLocalEndpoint(e)
    \/ \E m \in Msgs, e \in Eps, s \in AckStatuses : ProposeAck(m, e, s)
    \/ HoldNewMessage
    \/ EpOnline
    \/ UpdateEpInterest
    \/ ApplyStateUpdate

Spec == Init /\ [][Next]_vars

\* The topic with snapshot installs between applies.
SnapNext == Next \/ ApplySnapshot
SnapSpec == Init /\ [][SnapNext]_vars

-----------------------------------------------------------------------------
TypeOK ==
    /\ routing \in [Eps -> Nodes \cup {NoNode}]
    /\ interest \in [Eps -> SUBSET Subjects]
    /\ active \subseteq Eps /\ localEps \subseteq Eps
    /\ queue \in Seq(Msgs) /\ IsInjective(queue)
    /\ DOMAIN hold \subseteq Msgs
    /\ \A m \in DOMAIN hold :
          /\ hold[m].hdr \in Header
          /\ hold[m].status \in [DOMAIN hold[m].status -> Statuses]
          /\ DOMAIN hold[m].status \subseteq Eps
    /\ waiting \subseteq used /\ used \subseteq Msgs
    /\ log \in Seq(Entry)
    /\ epState \in [Eps -> {"unused", "creating", "live", "dropped", "dead"}]
    /\ reported \in [Msgs -> Seq(Outcomes)]
    /\ delivered \in [Eps -> Seq(Msgs)]
    /\ admitted \in Seq(Msgs)
    /\ recipients \in [Msgs -> SUBSET Eps] /\ joined \in [Msgs -> SUBSET Eps]

(***************************************************************************)
(* The queue is FIFO (spec.md section 3, invariant 3): what is held is a   *)
(* suffix of the admission order, so hold_new_message's DropOld and flush  *)
(* only ever remove the oldest messages, and hold_messages and the queue   *)
(* order never disagree.                                                   *)
(***************************************************************************)
QueueIsAdmissionSuffix ==
    /\ IsSuffix(queue, admitted)
    /\ DOMAIN hold = ToSet(queue)

(***************************************************************************)
(* The status map of a held message only has the endpoints it was admitted *)
(* with and, for a Durable message, endpoints whose ep_online came later   *)
(* (spec.md section 8); ep_online must not retro-subscribe Online or Push  *)
(* messages.                                                               *)
(***************************************************************************)
StatusKeysAdmitted ==
    \A m \in DOMAIN hold :
        DOMAIN hold[m].status \subseteq
            recipients[m] \cup (IF hold[m].hdr.target = "Durable" THEN joined[m] ELSE {})

(***************************************************************************)
(* With an overflow_config the queue never holds more than its size: the   *)
(* check in hold_new_message runs before every push.                       *)
(***************************************************************************)
CapacityBound == OverflowSize > 0 => Len(queue) <= OverflowSize

-----------------------------------------------------------------------------
(* Statements of spec.md that the code does not keep; each is checked by a *)
(* run that expects a violation.                                           *)

(***************************************************************************)
(* spec.md 3, invariant 4: complete messages are flushed head first, so    *)
(* once an entry is applied the head of the queue is never complete.       *)
(* update_and_flush flushes only if poll found the message complete before *)
(* it dispatched; a dispatch that completes it (the last endpoint fails,   *)
(* or reaches ack kind Sent) leaves it complete and unreported at the      *)
(* head.  DropOld, which pops the head and polls only the new message, is  *)
(* a second way to expose a complete message at the head.                  *)
(***************************************************************************)
NoCompleteHead == queue # << >> => ~IsComplete(hold[Head(queue)])

(***************************************************************************)
(* spec.md 4.6 and 8, scenario 3: a message is given to a live endpoint   *)
(* that it is addressed to; only a dispatch to a gone endpoint (deleted,   *)
(* or its LocalEndpoint dropped) records Unreachable.                      *)
(* create_endpoint inserts the endpoint into local_endpoints only after    *)
(* the commit of its EndpointOnline returns; a message admitted            *)
(* or re-polled in between finds the routing row naming this node but no   *)
(* local endpoint, and is marked Unreachable for an endpoint that is live. *)
(***************************************************************************)
LiveEndpointNeverUnreachable ==
    \A m \in DOMAIN hold : \A e \in DOMAIN hold[m].status :
        hold[m].status[e] = "Unreachable" => epState[e] \in {"dead", "dropped"}

\* An EndpointOnline entry for e is committed and not yet applied.
OnlinePending(e) == \E i \in DOMAIN log : log[i].kind = "EndpointOnline" /\ log[i].ep = e

(***************************************************************************)
(* spec.md 4.7: the applier is the only writer of TopicData, so an         *)
(* endpoint removed by its owner stays removed once its EndpointOnline has *)
(* been applied.  delete_endpoint sends EpOffline as a direct event, and   *)
(* on a replica that has not yet applied the EndpointOnline entry the      *)
(* later apply brings the deleted endpoint back for good.                  *)
(***************************************************************************)
DeletedEndpointStaysOffline ==
    \A e \in Eps : epState[e] = "dead" /\ ~OnlinePending(e) => routing[e] = NoNode

=============================================================================
