---------------------------- MODULE TopicReplicas ----------------------------
(***************************************************************************)
(* The endpoint tables of one topic on every node of the cluster           *)
(* (src/src/protocol/topic.rs): ep_routing_table, ep_interest_map and      *)
(* ep_latest_active on each replica, the wall clock each node reads with   *)
(* TimestampSec::now(), the committed log each replica applies at its own *)
(* pace, the EpOffline events delete_endpoint sends to its peers, and the  *)
(* get_ep_sync / load_ep_sync exchange between two replicas.               *)
(*                                                                         *)
(* Covered: replicas applying the log at different times, node clocks that *)
(* differ, EpOffline packets delayed or lost (send_packet's error is       *)
(* ignored), and a sync between any two replicas at any time.  The message *)
(* queue, which ep_online also touches, is modelled in TopicData.          *)
(***************************************************************************)
EXTENDS Integers, Sequences, FiniteSets

CONSTANTS
    Nodes,      \* the nodes of the cluster, one replica each
    Eps,        \* endpoint addresses (snowflakes, never reused)
    Subjects,   \* interests; the raw map endpoint -> interests is kept
    Host,       \* Host[e]: the node whose create_endpoint makes e
    MaxClock,   \* bound on each node's TimestampSec
    MaxLog      \* bound on the length of the committed log

ASSUME Host \in [Eps -> Nodes] /\ MaxClock \in Nat /\ MaxLog \in Nat

NoNode == "none"
NoTime == -1
Times == 0..MaxClock

Entry == [kind : {"EndpointOnline"}, ep : Eps, interests : SUBSET Subjects, host : Nodes]
    \cup [kind : {"SetEpInterest"}, ep : Eps, interests : SUBSET Subjects]

VARIABLES
    log,        \* the committed log, the same on every node
    applied,    \* applied[n]: how many entries replica n has applied
    routing,    \* routing[n][e]: ep_routing_table of n (NoNode = no row)
    interest,   \* interest[n][e]: interests of e in n's ep_interest_map
    active,     \* active[n][e]: ep_latest_active of n (NoTime = no row)
    clock,      \* clock[n]: TimestampSec::now() on node n
    events,     \* EpOffline packets sent and not yet handled: [to, ep]
    epState     \* life of an endpoint address, seen by its owner

vars == <<log, applied, routing, interest, active, clock, events, epState>>

Tables == <<routing, interest, active>>

Init ==
    /\ log = << >>
    /\ applied = [n \in Nodes |-> 0]
    /\ routing = [n \in Nodes |-> [e \in Eps |-> NoNode]]
    /\ interest = [n \in Nodes |-> [e \in Eps |-> {}]]
    /\ active = [n \in Nodes |-> [e \in Eps |-> NoTime]]
    /\ clock \in [Nodes -> Times]
    /\ events = {}
    /\ epState = [e \in Eps |-> "unused"]

Propose(entry) == /\ Len(log) < MaxLog
                  /\ log' = Append(log, entry)

-----------------------------------------------------------------------------
(* Tasks of the node that owns an endpoint.                                *)

\* create_endpoint: propose EndpointOnline with this node as host; a failed
\* commit returns the error and the address is never used.
CreateEndpoint(e, I) ==
    /\ epState[e] = "unused"
    /\ \/ /\ Propose([kind |-> "EndpointOnline", ep |-> e, interests |-> I, host |-> Host[e]])
          /\ epState' = [epState EXCEPT ![e] = "creating"]
       \/ /\ epState' = [epState EXCEPT ![e] = "dead"]
          /\ UNCHANGED log
    /\ UNCHANGED <<applied, Tables, clock, events>>

\* The commit returns once the owner's replica has applied the entry.
CreateEndpointReturn(e) ==
    /\ epState[e] = "creating"
    /\ \E i \in 1..applied[Host[e]] : log[i].kind = "EndpointOnline" /\ log[i].ep = e
    /\ epState' = [epState EXCEPT ![e] = "live"]
    /\ UNCHANGED <<log, applied, Tables, clock, events>>

\* The owner replaces the interests of a live endpoint.
ProposeSetInterest(e, I) ==
    /\ epState[e] = "live"
    /\ Propose([kind |-> "SetEpInterest", ep |-> e, interests |-> I])
    /\ UNCHANGED <<applied, Tables, clock, events, epState>>

\* An ep_offline that forgets the ep_latest_active row.
EpOfflineKeepActive(n, ep) ==
    /\ routing' = [routing EXCEPT ![n][ep] = NoNode]
    /\ interest' = [interest EXCEPT ![n][ep] = {}]
    /\ UNCHANGED active

\* ep_offline: drop the three rows of ep on replica n.
EpOffline(n, ep) ==
    /\ active' = [active EXCEPT ![n][ep] = NoTime]
    /\ routing' = [routing EXCEPT ![n][ep] = NoNode]
    /\ interest' = [interest EXCEPT ![n][ep] = {}]

\* delete_endpoint: remove the rows on the owner's replica, outside the log,
\* and send an EpOffline event to every known peer.
DeleteEndpoint(e) ==
    /\ epState[e] = "live"
    /\ EpOffline(Host[e], e)
    /\ events' = events \cup {[to |-> p, ep |-> e] : p \in Nodes \ {Host[e]}}
    /\ epState' = [epState EXCEPT ![e] = "dead"]
    /\ UNCHANGED <<log, applied, clock>>

\* A peer handles an EpOffline event with ep_offline.
HandleEpOffline(ev) ==
    /\ ev \in events
    /\ EpOffline(ev.to, ev.ep)
    /\ events' = events \ {ev}
    /\ UNCHANGED <<log, applied, clock, epState>>

\* send_packet failed and its result was dropped with `let _ =`.
LoseEpOffline(ev) ==
    /\ ev \in events
    /\ events' = events \ {ev}
    /\ UNCHANGED <<log, applied, Tables, clock, epState>>

-----------------------------------------------------------------------------
(* Replica n applies its next committed entry.                              *)

\* An ep_online that stamps one second ahead of now().
ApplyOnlineNextSecond(n, x) ==
    /\ active' = [active EXCEPT ![n][x.ep] = clock[n] + 1]
    /\ routing' = [routing EXCEPT ![n][x.ep] = x.host]
    /\ interest' = [interest EXCEPT ![n][x.ep] = @ \cup x.interests]

\* ep_online (table part): stamp the endpoint with this node's now(), set its
\* host, add its interests.
ApplyOnline(n, x) ==
    /\ active' = [active EXCEPT ![n][x.ep] = clock[n]]
    /\ routing' = [routing EXCEPT ![n][x.ep] = x.host]
    /\ interest' = [interest EXCEPT ![n][x.ep] = @ \cup x.interests]

\* update_ep_interest: delete the endpoint's interests, insert the new ones.
ApplySetInterest(n, x) ==
    /\ interest' = [interest EXCEPT ![n][x.ep] = x.interests]
    /\ UNCHANGED <<routing, active>>

ApplyEntry(n) ==
    /\ applied[n] < Len(log)
    /\ LET x == log[applied[n] + 1]
       IN  IF x.kind = "EndpointOnline" THEN ApplyOnline(n, x) ELSE ApplySetInterest(n, x)
    /\ applied' = [applied EXCEPT ![n] = @ + 1]
    /\ UNCHANGED <<log, clock, events, epState>>

\* The wall clock of node n moves on.
Tick(n) ==
    /\ clock[n] < MaxClock
    /\ clock' = [clock EXCEPT ![n] = @ + 1]
    /\ UNCHANGED <<log, applied, Tables, events, epState>>

-----------------------------------------------------------------------------
(* get_ep_sync on replica `from`, loaded by load_ep_sync on replica `to`.   *)

\* get_ep_sync: one EpInfo per endpoint with a routing row and an active row.
GetEpSync(from) ==
    {[addr |-> e, host |-> routing[from][e], interests |-> interest[from][e],
      latest_active |-> active[from][e]] :
        e \in {x \in Eps : routing[from][x] # NoNode /\ active[from][x] # NoTime}}

\* load_ep_sync: an info is skipped if the local record is strictly newer;
\* otherwise its timestamp and host replace the local rows and its interests
\* are inserted next to the local ones.
Adopts(to, info) == active[to][info.addr] = NoTime \/ active[to][info.addr] <= info.latest_active

\* A load that replaces the local tables by the remote view.
LoadEpSyncReplace(to, infos) ==
    LET row(e) == CHOOSE i \in infos : i.addr = e
        got == {i.addr : i \in infos}
    IN  /\ active' = [active EXCEPT ![to] = [e \in Eps |-> IF e \in got THEN row(e).latest_active ELSE NoTime]]
        /\ routing' = [routing EXCEPT ![to] = [e \in Eps |-> IF e \in got THEN row(e).host ELSE NoNode]]
        /\ interest' = [interest EXCEPT ![to] = [e \in Eps |-> IF e \in got THEN row(e).interests ELSE {}]]

LoadEpSync(to, infos) ==
    LET new == {i \in infos : Adopts(to, i)}
        row(e) == CHOOSE i \in new : i.addr = e
        got == {i.addr : i \in new}
    IN  /\ active' = [active EXCEPT ![to] = [e \in Eps |->
                         IF e \in got THEN row(e).latest_active ELSE @[e]]]
        /\ routing' = [routing EXCEPT ![to] = [e \in Eps |->
                         IF e \in got THEN row(e).host ELSE @[e]]]
        /\ interest' = [interest EXCEPT ![to] = [e \in Eps |->
                         IF e \in got THEN @[e] \cup row(e).interests ELSE @[e]]]

Sync(from, to) ==
    /\ from # to
    /\ LoadEpSync(to, GetEpSync(from))
    /\ UNCHANGED <<log, applied, clock, events, epState>>

-----------------------------------------------------------------------------
Next ==
    \/ \E e \in Eps, I \in SUBSET Subjects :
          CreateEndpoint(e, I) \/ ProposeSetInterest(e, I)
    \/ \E e \in Eps : CreateEndpointReturn(e) \/ DeleteEndpoint(e)
    \/ \E ev \in events : HandleEpOffline(ev) \/ LoseEpOffline(ev)
    \/ \E n \in Nodes : ApplyEntry(n) \/ Tick(n)
    \/ \E from, to \in Nodes : Sync(from, to)

Spec == Init /\ [][Next]_vars

TypeOK ==
    /\ log \in Seq(Entry) /\ Len(log) <= MaxLog
    /\ applied \in [Nodes -> 0..MaxLog]
    /\ routing \in [Nodes -> [Eps -> Nodes \cup {NoNode}]]
    /\ interest \in [Nodes -> [Eps -> SUBSET Subjects]]
    /\ active \in [Nodes -> [Eps -> Times \cup {NoTime}]]
    /\ clock \in [Nodes -> Times]
    /\ events \subseteq [to : Nodes, ep : Eps]
    /\ epState \in [Eps -> {"unused", "creating", "live", "dead"}]


(***************************************************************************)
(* spec.md 3, invariant 1, routing and activity rows: on every replica an  *)
(* endpoint has an ep_routing_table row iff it has an ep_latest_active     *)
(* row, through ep_online, ep_offline, delete_endpoint and load_ep_sync.   *)
(* get_ep_sync only exports endpoints with both rows, so an endpoint that  *)
(* lost one of them would silently drop out of every later sync.           *)
(***************************************************************************)
RowsConsistent ==
    \A n \in Nodes, e \in Eps : (routing[n][e] = NoNode) <=> (active[n][e] = NoTime)

(***************************************************************************)
(* An endpoint whose create_endpoint returned, and that its owner has not  *)
(* deleted, is eventually routed to its host on every replica: each        *)
(* replica applies the EndpointOnline entry, and neither update_ep_interest *)
(* nor a load_ep_sync from a replica that has not applied it yet can take  *)
(* the row away.                                                           *)
(***************************************************************************)
LiveEndpointRoutedEverywhere ==
    \A e \in Eps :
        epState[e] = "live" ~> (epState[e] = "dead" \/ \A n \in Nodes : routing[n][e] = Host[e])

(***************************************************************************)
(* spec.md 4.7 and 8: applying an entry is deterministic (no wall-clock    *)
(* reads), so two replicas that applied the same prefix of the log hold    *)
(* the same tables.  ep_online stamps the endpoint with TimestampSec::now() *)
(* of the applying node, so the ep_latest_active rows, and the snapshots   *)
(* that carry them, differ between replicas that applied it at different   *)
(* times.                                                                  *)
(***************************************************************************)
SnapshotsAgree ==
    \A n, m \in Nodes :
        applied[n] = applied[m] =>
            /\ routing[n] = routing[m]
            /\ interest[n] = interest[m]
            /\ active[n] = active[m]

\* Every replica applies committed entries, and create_endpoint resumes once
\* its commit returned.
FairSpec == Spec /\ \A n \in Nodes : WF_vars(ApplyEntry(n))
                 /\ \A e \in Eps : WF_vars(CreateEndpointReturn(e))

=============================================================================
