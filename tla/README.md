# TLA+ models of asteroid-mq's topic state machine

This directory holds TLA+ models of the topic core of asteroid-mq
(`src/src/protocol/topic.rs`), the TLC configurations that check them, and
`PROJECT.json`, which maps every definition to the source lines it models and
lists the runs, mutants, findings and hazards.

## 1. Inventory of the system

| Component | State it keeps | Operations that change it | Where |
|---|---|---|---|
| Topic state `TopicData` | `ep_routing_table`, `ep_interest_map`, `ep_latest_active`, `queue`, `config`, `local_endpoints` | `hold_new_message`, `ep_online`, `ep_offline`, `update_ep_interest`, `update_and_flush`, `load_ep_sync` | topic.rs 116-198, 371-422, 440-552 |
| Message queue + `WaitAck` | queue order, `hold_messages` (id -> message + status map), `waiting` (id -> one-shot reporter) | push, pop, `update_ack`, `poll_message`, `flush`, `wait_ack`, `clear` | not under src/: spec.md 4.3, 4.4 |
| Interest index `InterestMap` | interest -> endpoints, and the raw inverse | insert, delete, find | not under src/: spec.md 4.1 |
| Endpoint lifecycle on `Topic` | `local_endpoints` | `create_endpoint` (propose `EndpointOnline`, then insert locally), `delete_endpoint` (remove rows locally, send `EpOffline` events) | topic.rs 211-268 |
| Sending | the reporter of the message | `send_message` (register reporter, propose `DelegateMessage`) | topic.rs 93-103, 200-203 |
| Dispatch | mailboxes of local endpoints | `dispatch_message`, `push_message_to_local_ep`, `resolve_node_ep_map` | topic.rs 169-197, 270-293 |
| Snapshot and replay | none of its own | `snapshot`, `from_snapshot`, `apply_snapshot` | topic.rs 449-470, 555-599 |
| Node facade | `topics` registry | `new_topic`, `load_topic`, `delete_topic`, `remove_topic`, `get_topic`, `TopicRef::upgrade` | topic.rs 425-438, 621-684 |
| `TopicCode` | bytes | `new`, `const_new`, encode, decode with UTF-8 check | topic.rs 48-84 |
| Consensus (openraft) | the replicated log | propose, commit, apply, snapshots | external; exercised by `src/server/tests/test_raft.rs` |

**How they interact.** A client task calls `Topic::send_message`; it
registers a one-shot reporter in the local `queue.waiting`, then awaits
`commit_log(DelegateMessage)`. Every replica's log applier then calls
`hold_new_message`, which computes the recipients from the interest index
(all matches for Durable/Online, one endpoint picked on a hash ring for
Push), applies the overflow policy, pushes a hold message whose status map
holds every recipient as `Unsent`, and runs `update_and_flush` on it: poll
either reports `Ok` (complete) or dispatches to the endpoints routed to this
node, and a Ready poll flushes complete messages from the head. Endpoint
acks come back as `MessageStateUpdate` entries through the same log.
`create_endpoint` commits `EndpointOnline` and only then registers the
endpoint in `local_endpoints`; `ep_online` retro-subscribes held Durable
messages. `delete_endpoint` does *not* use the log: it edits the local tables
and sends `EpOffline` events to the peers, which call `ep_offline`.

**What is hard.** Everything the applier does is sequential, but it
interleaves with client tasks that are suspended at `commit_log` (the
reporter is registered before, `local_endpoints` updated after), with
EpOffline events that bypass the log, and with acks that arrive in any
order. Failure enters as a failed proposal, an endpoint that vanishes, the
overflow policy dropping a message, snapshot install, lost EpOffline packets and (not modelled) the
applier's panic on `Available` messages. Replication adds determinism
hazards: `ep_online` reads the wall clock, the Push ring keeps HashSet order
among equal hashes, `snapshot()` lists messages in HashMap order, and
dispatch results depend on which endpoints are local.

**What makes each part correct** (the properties aimed at):
- queue: FIFO (what is held is a suffix of the admission order), bounded by
  `overflow_config.size`, no complete message left at the head;
- status maps: only gain endpoints that were recipients at admission or
  Durable late joiners;
- reporters: resolved with the outcome of the message, by the topic that
  admitted it;
- delivery: a live addressed endpoint is not given up as Unreachable;
- tables: routing and activity rows come in pairs, interest rows only for
  routable endpoints; a deleted endpoint stays deleted;
- replication: a live endpoint ends up routed on every replica, replicas
  that applied the same prefix agree, and installing a snapshot equals
  replaying the log.

## 2. Plan

Modules, in order of importance. Built: 1, 2, 4 and 7; the rest is still to do.

1. **`TopicData`** (built): one replica of one topic, plus the tasks of its
   node. It has the applier's handlers, the client operations that propose
   entries, and snapshot install. `MCTopicData` instantiates it.
2. **`TopicReplicas`** (built): the endpoint tables of every replica of a
   topic, applying the same committed log at their own pace, with the wall
   clock `ep_online` reads, EpOffline events that may be delayed or lost,
   and `get_ep_sync`/`load_ep_sync` between replicas (section 5).
3. **`AbstractTopic`** (removed): a refinement of `TopicData` onto a FIFO
   with at-most-once reporting. Every handler reports and drops a reporter
   in the same step and the queue properties already say the rest, so the
   refinement restated `QueueIsAdmissionSuffix` and `CapacityBound` and was
   taken out together with those at-most-once properties.
4. **`NodeTopics`** (built): the node facade. `MCNodeTopics` instantiates it.
5. **`InterestMatch`** (to do): segment-wise wildcard matching (`*`, a
   trailing `>`) as a RECURSIVE operator, checked against a reference
   definition, from spec.md 4.1 (the matcher is not under `src/`).
6. The `Available` panic of `hold_new_message` as a crashed applier, and a
   `send_message` retry with the same message id, to do.
7. **`TopicCode`** (built): the codec of topic codes, with `from_utf8` as a
   RECURSIVE operator checked against an RFC 3629 reference (section 6).

The checker allows at most 12 runs, and this project uses all 12. To make
room for the two replica runs, two single-replica violation runs were
retired: `no_recipient_ok` (a Durable/Online message with no recipient is
reported Ok; spec.md 4.5 and 8 disagree with each other there) and
`interest_routable` (SetEpInterest after ep_offline leaves an interest row
with no routing row). Both remain listed as hazards in `PROJECT.json`.
To make room for the codec run, `waiter_resolved` was retired too. Under
weak fairness of the apply loop, it showed that a failed `send_message`
proposal leaves its reporter in `queue.waiting` for ever, where spec.md 4.9
says the reporter is resolved with CommitFailed. `send_message` registers
the reporter with `wait_ack` (topic.rs 94) and then returns the commit
error with `?` (topic.rs 101) without removing it. TopicData still models
the failed proposal (the second disjunct of `SendMessage`), and the hazard at topic.rs:101
records the finding.

## 3. The `TopicData` module

**State.** `routing`, `interest`, `active` are the three endpoint tables
(`active` abstracts `ep_latest_active` to the set of endpoints that have a
row: no handler of one replica reads the timestamp). `queue` is the queue
order, `hold` the `hold_messages` map (header and status map per id),
`waiting` the ids with a local reporter, `localEps` the node's
`local_endpoints`. `log` is the sequence of committed, not yet applied
entries. Ghost variables record what the properties need: `reported` (what
each reporter was resolved with), `delivered` (each local mailbox),
`admitted`, `recipients` and `joined` (endpoints that came online after a
message was admitted); `epState` and `used` keep endpoint addresses and
message ids unique, as snowflakes are.

**Actions.** Client side: `SendMessage` (`send_message`, success or failed
proposal), `CreateEndpoint` / `CreateEndpointReturn` (`create_endpoint`
before and after its await), `DeleteEndpoint`, `RemoteEpOnline` (the other
node's `create_endpoint`), `RemoteEpOffline` (its `EpOffline` event running
`ep_offline`), `ProposeAck`, `ProposeSetInterest`, and `DropLocalEndpoint` (the owner
drops its `LocalEndpoint` without `delete_endpoint`; the rows stay, and
`push_message_to_local_ep` then fails its `Weak` upgrade, line 178). Applier side, one step per
whole handler: `HoldNewMessage`, `EpOnline` (with its re-polls folded in
every HashSet order), `UpdateEpInterest`, `ApplyStateUpdate`. The queue
operations of spec.md 4.3 are operators on a record of the queue's state, so
that a handler's sequence of calls (`Admit`, then `UpdateAndFlush` = 
`UpdateAck`, `Poll`, `Flush`) composes into one step. Subjects are matched
exactly; wildcards are left to `InterestMatch`.

**Snapshots.** `SnapshotQueues` is what `snapshot()` lists: the held
messages in HashMap order, which may be any order. `ApplySnapshot` is
`Topic::apply_snapshot` given a snapshot of the same applied prefix. It
clears the queue, pushes the messages in that order, runs `poll_all`, then
`flush`. The tables are the replica's own, so they stay as they are; a
snapshot of another prefix, which would replace them (lines 569-571), is
not modelled. `MessageQueue::clear` is not under `src/`, and what it does
to `queue.waiting` is left open: the model keeps the reporters.
`SnapSpec` adds snapshot installs between applies.

**Runs.** `MCTopicData` fixes the following instance:
- endpoints `e1` on this node and `e2` on the other;
- messages `m1` and `m2`, of every target kind;
- one subject;
- at most 2 pending log entries;
- hashes chosen so that both ring positions occur.

The passing runs differ in the queue limit and in which inputs vary, so
that each stays within minutes:

| run | expect | bounds | what it shows |
|---|---|---|---|
| `topic_fifo` | pass | no limit; ack kinds Sent/Processed; acks Received/Processed; sends from this node; no SetEpInterest | TypeOK, `QueueIsAdmissionSuffix` and `StatusKeysAdmitted` hold; two messages are queued at once and acked in either order (3.3M states, about a minute) |
| `overflow` | pass | limit 1, either policy (the topic's config is chosen at Init); ack Processed; sends from both nodes; SetEpInterest; snapshot installs (`SnapSpec`) | the queue stays a suffix of the admission order when DropOld pops the head, and never exceeds the limit (5.6M states, under two minutes) |
| `snapshot_order` | violation | as `topic_fifo`, with `SnapSpec` | `apply_snapshot` re-pushes two held messages in HashMap order, so the queue leaves admission order (spec.md 4.8 says the snapshot queue is sorted) |
| `no_complete_head` | violation | limit 1, DropOld | a message completed by poll's own dispatch is never flushed (spec.md 3 inv. 4) |
| `live_unreachable` | violation | same | a message applied inside create_endpoint's await is marked Unreachable for the new endpoint |
| `deleted_offline` | violation | same | an EpOffline event that overtakes EndpointOnline is undone by the later apply (spec.md 4.7) |

Each property of a passing run has a mutant in `PROJECT.json` that TLC
finds. The mutants are:
- an off-by-one in the overflow check (`AtLimitLate`);
- a DropOld that forgets `hold_messages` (`AdmitKeepOld`);
- a flush that drains complete messages from anywhere in the queue
  (`FlushCompleted`);
- an ep_online that retro-subscribes Online and Push messages
  (`RetroSubscribesAnyTarget`);
- a retry that reuses a message id (`SendMessageSameId`).

Properties that held only by the shape of the model were removed: at-most-once
reporting (every report removes the reporter in the same step), delivery
order (delivery happens only at admission), and status monotonicity (the
guard of the spec-modelled `update_ack`).

**Bounds.** Two endpoints, one per node, are the least that separate local
dispatch from remote acks. Without a limit, two messages are queued together
and can complete out of order, which is what the FIFO properties and the
snapshot order are about. With a limit of 1, a second message meets every
overflow case it can: DropOld with a reporter, and a rejected message.
A limit of 1 never queues a message behind the head, so the DropOld path
that exposes a complete second message at the head (hazard at topic.rs:353)
is not reached; a limit of 2 with three messages is past the time bound. Two pending entries let any two
proposals race the applier and the EpOffline event. The violations are all
found at depth 8 or less.

**Fairness.** The TopicData runs check safety only, so no fairness is
assumed. Deadlock is not checked: once its bounded inputs are used up the broker is
idle, which is a legitimate end.

## 4. The `NodeTopics` module

**State.** `log` is the committed Raft log, the same sequence on every
node, and `applied[n]` is how much of it node `n` has applied. `topics[n]`
is the topic in `n`'s registry, named by its generation: the index of the
LoadTopic entry whose apply created that `Arc<TopicData>`. Each client task
has:
- `pc`, where it is;
- `at`, the node it runs on;
- `target`, the entry whose commit it awaits;
- `handle`, the `Topic` it holds.

`waiting` and `held` are the reporters and the messages inside each Arc's
queue, as triples of node, generation and message id. `reported` records
what each reporter was given, and `appliedIn` the generation that applied a
message on its sending node. The queue is abstracted to the set of held
messages; TopicData models it in full.

**Actions.** The client actions are:
- `LoadTopic`: the leader proposes LoadTopic; a follower starts spinning.
- `LoadTopicReturn`: after the commit, `get_topic(..).expect`, which panics
  when the topic is gone.
- `SpinReturn`: the turn of the follower's loop that finds the topic.
- `DeleteTopic` and `DeleteTopicReturn`.
- `SendMessage`: registers the reporter in the handle's own Arc.
- `DropHandle`: once the last handle of a removed Arc is gone, its one-shot
  senders are dropped and each receiver sees `ChannelClosed`.
- `Reference`: `Topic::reference` stores a `TopicRef` (a `Weak`) in `weak[c]`.
- `Upgrade`: `TopicRef::upgrade` gives the client a `Topic` again while the
  Arc is alive, because the registry or another client still holds it.
  This can be an Arc that `remove_topic` already took out of the registry.

`Apply(n)` applies node `n`'s next entry:
- LoadTopic creates the topic if the registry has none;
- UnloadTopic runs `RemoveTopic`, which sends MessageDropped on every
  waiting reporter and clears the queue;
- DelegateMessage admits the message into the topic now in the registry.

`Complete` is a held message being acked and flushed, which resolves its
reporter with Ok if this Arc holds it.

The applier of these entries is not under `src/`, so it is modelled from
spec.md 4.7 and 4.9 and marked spec_modelled in the map. All proposals
commit; a failed commit is modelled in TopicData. `MCNodeTopics` has two
nodes (`n1` is the leader), two clients, one message and at most 4 log
entries. That is enough for load, unload, load again and a send.

| run | expect | what it shows |
|---|---|---|
| `node_facade` | pass | TypeOK holds (reporters and held messages sit only in Arcs a LoadTopic apply created); the run fires every facade action, which the two violation runs rely on (911K states, under a minute) |
| `load_panics` | violation | an UnloadTopic applied between the leader's LoadTopic commit and its get_topic panics load_topic |
| `stale_handle` | violation | send_message on a handle kept across delete and reload leaves the reporter in the removed Arc while the new topic admits the message |

Properties about resolving each reporter at most once, about a leader's
`load_topic` returning, and about reporters never being left in a freed
Arc were removed. Each held by the shape of the model: every step that
reports, or that ends an Arc's life, removes the reporter in the same
step, and a return followed from the fairness alone.

**Fairness.** None: the NodeTopics runs check safety only. A follower's
`load_topic` spins with `yield_now`. If a Load and an Unload are both
applied between two turns of the loop, the topic was installed and removed
again, and the loop spins for ever. spec.md 4.9 prescribes this spin, so
no run claims that the loop returns.

## 5. The `TopicReplicas` module

**State.** One committed `log` shared by all nodes and `applied[n]`, how
much of it replica `n` has applied (the idiom of a replicated log with one
index per node). Per replica: `routing[n]`, `interest[n]` and `active[n]`,
the three endpoint tables, where `active[n][e]` is the `TimestampSec` of
the row or `NoTime`. `clock[n]` is what `TimestampSec::now()` returns on
node `n`; clocks start anywhere in `0..MaxClock` and move independently.
`events` holds the EpOffline packets in flight, and `epState` is the life of
an endpoint address as its owner sees it.

**Actions.**
- `CreateEndpoint` and `CreateEndpointReturn`: `create_endpoint` proposes
  EndpointOnline (or fails to commit); it returns once the owner's replica
  has applied the entry.
- `ProposeSetInterest`: the owner replaces an endpoint's interests.
- `DeleteEndpoint`: `delete_endpoint` removes the rows on the owner's
  replica directly and sends EpOffline to every peer.
- `HandleEpOffline` runs `ep_offline` on the receiving replica.
  `LoseEpOffline` is a `send_packet` whose error `let _ =` ignored.
- `ApplyEntry(n)`: replica `n` applies its next entry. EndpointOnline runs
  the table part of `ep_online` and stamps the row with `clock[n]`;
  SetEpInterest runs `update_ep_interest`. `ep_online`'s re-poll of held
  Durable messages is modelled in TopicData.
- `Tick(n)`: node `n`'s clock moves on, up to `MaxClock`.
- `Sync(from, to)`: replica `to` runs `load_ep_sync(get_ep_sync())` of
  replica `from`. `GetEpSync` exports every endpoint with a routing and an
  activity row. `LoadEpSync` skips a row only if the local stamp is
  strictly newer (`Adopts`). Otherwise it overwrites the stamp and host and
  inserts the remote interests next to the local ones. The caller of this
  exchange is not under `src/`, so any replica may sync from any other at
  any time.

`MCTopicReplicas`: nodes `n1`, `n2`; endpoint `e1` created on `n1` and `e2`
on `n2`; one subject; clocks in `0..1`; at most 3 log entries. This covers
two creates and a SetEpInterest, or a create that races a delete.

| run | expect | what it shows |
|---|---|---|
| `replicas` | pass | `TypeOK`; `RowsConsistent` (every replica has a routing row for an endpoint iff it has an activity row, through online, offline, delete and sync); `LiveEndpointRoutedEverywhere` (a live, undeleted endpoint is eventually routed to its host on every replica: a sync adds or refreshes rows but never removes one). 417K states. |
| `replica_stamps` | violation | `SnapshotsAgree`: two replicas apply the same EndpointOnline at different seconds and store different `ep_latest_active` stamps. spec.md 4.7 forbids wall-clock reads in apply, and spec.md 8 requires equal snapshots at equal prefixes. |

The mutants of the passing run are:
- an `ep_online` stamping one second ahead of `now()`, for TypeOK;
- an `ep_offline` that forgets the activity row, for `RowsConsistent`;
- a `load_ep_sync` that replaces the local view by the remote one, for
  `LiveEndpointRoutedEverywhere`.

`SnapshotsAgree` is also broken by the merge itself. We checked this once,
with every clock fixed at 0 and deletes excluded; it is not one of the 12
runs. Replica `n1` has applied a SetEpInterest that withdrew `e1`'s
interest, and `n2` has not. A sync from `n2` into `n1` ties on the stamp, so
`n1` adopts the row and re-inserts the withdrawn interest next to its own.
After `n2` applies the entry, the two replicas are at the same prefix and
differ. spec.md 4.2 says ties keep the local row and a merge keeps a row
whole.

**Fairness.** `FairSpec` assumes weak fairness of each replica's apply loop
and of `create_endpoint` resuming after its commit returned. Each replica
applies the committed log whenever it is behind. No fairness is assumed for
clocks, syncs, deletes or packet delivery.

## 6. The `TopicCode` module

**What it models.** A `TopicCode` wraps bytes that are meant to be UTF-8.
- `New` is `TopicCode::new` and `const_new`: the UTF-8 bytes of a string
  of Unicode scalar values (`CharBytes`).
- `Encode` is `self.0.encode(buf)`: a big-endian u32 length, then the bytes.
  Bytes' codec is not under `src/`, so it is modelled from spec.md 6.
- `Decode` is `Bytes::decode` followed by `std::str::from_utf8`. The check
  is the RECURSIVE `Utf8Valid`, which follows std's table: the width comes
  from the first byte (`Width`), the second byte's range excludes overlong
  forms, surrogates and values above U+10FFFF (`SecondRange`), and the
  remaining bytes are continuation bytes.

**Actions.** There are two senders:
- `Send`: a node builds a code from a string and encodes it, followed by
  the start of the next field;
- `Arrive`: a peer's frame, a length and up to that many payload bytes.

`Receive` decodes the buffer.

**Properties.**
- `RoundTrip`: a built code comes back unchanged, with the bytes after it.
- `DecodeValidates`: decode accepts a frame exactly when it is complete and
  its payload splits into shortest-form encodings of scalar values. This is
  `IsUtf8`, a reference written from RFC 3629 by decoding each candidate
  sequence, independent of the lead-byte table.

**Run `codec`** (pass, 67K states, a few seconds). The bounds:
- strings of up to two characters, taken from the boundary values U+0041,
  U+07FF, U+0800, U+FFFF, U+10000 and U+10FFFF;
- peer payloads of up to 4 bytes, over an alphabet with each table edge:
  0x41, 0x80, 0x8F, 0x90, 0xA0, 0xBF, 0xC1, 0xC2, 0xE0, 0xED, 0xF0, 0xF4 and
  0xF5;
- every length from 0 to 4, so cut frames are covered too.

The mutants are a little-endian length prefix (`EncodeLE`) and a decode
that drops the `from_utf8(..)?` check (`DecodeUnchecked`), the
repository's own part of validation (lines 76-77). `Width`, `SecondRange`
and `Utf8Valid` model the standard library's check that decode calls, and
`IsUtf8` is the independent reference they are compared with. `Display` uses `from_utf8_unchecked`, which is
sound only because decode validates. serde's derived `Deserialize` skips
that check; it is listed as a hazard.

## 7. Not modelled, and why

- **`TopicCode`'s `Display`, `Borrow` and serde impls** change no state;
  the serde path is a hazard in `PROJECT.json`.
- **The consensus engine** (openraft, exercised by `test_raft.rs`) is a
  black box: the models start from its committed log.
- **`TopicData::from_snapshot`**: as written, it builds a topic, discards
  it, and rebuilds the queue from a vector it has already consumed, so
  there is no single behaviour to translate.
- **The `Available` panic**: `hold_new_message` calls `unimplemented!`,
  which aborts the applier on every replica at the same entry, and again on
  replay. No client in the models sends `Available`. Checking the crash
  needs a run of its own, and all 12 run slots are taken.
- **Push ring ties**: replicas could choose different targets only when two
  endpoints' 64-bit hashes collide. The model already lets the sort put
  equal hashes in any order.
- **`src/src/lib.rs`** only declares modules.
