# A TLA+ model of mpconn

mpconn tunnels Ethernet frames or IP packets between hosts and sends a copy of
every packet over every network path it knows. The receiver puts the copies
back in order. This directory models the logic that makes this work, checks it
with TLC on small instances and proves parts of it with TLAPS for all instances.

## The system

| Part (src/src/) | State | Operations |
|---|---|---|
| `sequencer.rs` Sequencer | queued packets by number, `next_seq`, time of the last release | insert, release the next packet, give up a gap when the deadline (3 ms) has passed |
| `peer_list.rs` PeerList | for each peer: addresses with the time they were last seen, `tx_counter`, a Sequencer | seed from the settings, add or refresh an address, prune addresses older than 30 s |
| `traffic_director.rs` | MAC table (Layer2) or routing table (Layer3), from station to peer id | learn an entry, find the destination of a packet |
| `connection_manager.rs` ConnectionManager | the three above and the timers | one task, one `select!` over: datagrams, local packets, sequencer tick (1 ms), maintenance (5 s), keepalive (10 s) |
| `remote_manager.rs`, `remote.rs` | one task per remote: a UDP socket, optionally with Lz4 | write what is broadcast to the remotes, forward what is received |
| `local_manager.rs`, `local.rs`, `async_pcap.rs` | one task, a TUN device or a pcap handle | read packets, write packets |
| `main.rs`, `settings.rs` | the channels (capacity 128), the settings | start the tasks and await them |

The parts talk over channels. A remote task sends datagrams to the
ConnectionManager over an `mpsc` channel, the ConnectionManager sends to all
remote tasks over a `broadcast` channel, and exchanges packets with the
LocalManager over two more `mpsc` channels. Instances talk over UDP: `Packet`
(sequence number, sender, bytes) and `Keepalive` (sender, tunnel address).

### What is hard

- Copies arrive late, twice, out of order or never, and the deadline gives up
  gaps while the missing packets may still be on their way.
- A handler suspends between two packets that it releases.
- Tables name peers whose addresses come and go; counters must outlive them.
- Keepalives race the pruning of the addresses they refresh.
- Bounded channels in both directions between the same two tasks.
- A panic ends one task, and the others find out over closed channels, or not
  at all.
- The broadcast channel overwrites what a slow remote has not read, and a handler
  that sends to many addresses does not let the remotes run in between.
- Readiness of the capture handle is an edge that must not be missed.
- Nothing is kept over a restart, and packets do not say which start of the
  sender they come from.

`PROJECT.json` lists each hazard with the line it is about and the properties
that would fail if it went wrong.

## The modules

| Module | Models | Uses |
|---|---|---|
| `Sequencer` | the reordering buffer, as operators on a record | |
| `Tunnel` | the abstract promise of one direction of a tunnel | |
| `Flow` | a sender, several lossy paths, and a receiver's sequencer | `Sequencer`, `Tunnel` |
| `PeerList` | the peer list, as operators on a function | `Sequencer` |
| `TrafficDirector` | MAC table and routing table | |
| `ConnectionManager` | the ConnectionManager tasks of a network of instances | `PeerList`, `TrafficDirector` |
| `Connectivity` | the same handlers driven by the intervals, with lost keepalives | `ConnectionManager` |
| `Pipeline` | the tasks of one instance, their channels and their deaths | |
| `Fanout` | the broadcast channel message by message, the remote tasks, what they make of datagrams | |
| `FanoutHistory` | the same, with a record of what was sent and written, and fairness | `Fanout`, `Tunnel` |
| `Local` | the LocalManager task on the pcap stream: readiness, wakers, `tun_buf` | |
| `Restart` | `Flow` with a sender and a receiver that restart | `Flow` |
| `Reconnect` | `Connectivity` with instances that stop and start | `Connectivity` |
| `Mesh` | `ConnectionManager` with a record of what each node tunnelled to each other and handed over | `ConnectionManager`, `Tunnel` |
| `MC...` | constants for TLC, one module for each of the above that is run | |
| `SequencerProofs`, `FlowProofs`, `RestartProofs`, `ConnectionManagerProofs`, `MeshProofs`, `FanoutProofs`, `PipelineProofs`, `LocalProofs` | lemmas and theorems about the module they are named after (`FanoutProofs` covers `Fanout` and `FanoutHistory`) | |

Definitions carry the names of the code where they translate a function. Names
that start with `Mutant`, and the operators under "Faulty variants", are the
code with one plausible mistake; they show that the properties depend on the
line they change and are not used by the specifications.

### Choices

- Sequence numbers are naturals: a `u64` that counts packets does not overflow.
- Time. A sequencer keeps the milliseconds since its last release, an address
  the units since it was last seen; both stop counting where the code no longer
  tells values apart. In `ConnectionManager` the clocks run freely; in
  `Connectivity` they drive the intervals.
- The atomic steps of the ConnectionManager are the stretches between awaits
  that can suspend. Sending to remotes never suspends (a broadcast send is not
  async), so handlers that only send are one step. Each packet released to the
  local interface is one step. The tick visits the peers in any order, as a
  `HashMap` iterates.
- In `Flow` and `ConnectionManager` the network is a set of datagrams that are
  received in any order. In `Flow` a datagram is received once or lost (in `Restart`, never received), and
  duplicates come from the paths; in `ConnectionManager` it may be received any
  number of times (`Duplicating`), and a datagram nobody receives is a lost one.
- A packet is what the header parser finds in it: source and destination
  station. Bytes that do not decode change no state.
- `Pipeline` counts packets instead of looking at them. Whether
  a datagram is a packet its sequencer takes in or not (a duplicate, garbage, or a
  keepalive, which may be answered with instant keepalives), and how many packets
  a handler releases, is a choice within what is queued. A remote
  that is more than `Capacity` broadcasts behind has lost some. `main` keeps a
  receiver of the broadcast channel, so a broadcast send never fails.
- The runtime has one thread (`flavor = "current_thread"`). In `Fanout` a handler
  that sends is a burst of destinations, during which no other task takes a step;
  the order of the destinations is that of the peer list's maps, the same in
  every round while the list does not change. A message in the channel is its
  destination; the keepalive and packet bytes are covered by the other modules.
  A datagram is compressed or not, and a message or garbage; an Lz4 remote
  decodes what is compressed, and compressed bytes are no message to a UDP
  remote.
- In `Local` the kernel captures frames at any time, also between two
  instructions of the task; the I/O driver and the ConnectionManager run while
  the task is suspended. Readiness is set by the driver on an edge and cleared by
  `try_io`. Dropping the losing future of `select!` leaves its waker registered,
  so a wake-up may be spurious, never lost. Writing never meets `WouldBlock`:
  the closure either succeeds, skips a packet that is too long, or panics.
- In `Restart` the bytes of a packet are the number of the sender's start, which
  the code does not transmit; only the properties look at it. Any part of what is
  in flight may disappear with the process. `MaxSeq` bounds the packets of each
  start of the sender, and the record of what was delivered, given up or refused
  is that of the receiver which runs now, so that nothing an earlier start did
  can satisfy a property of a later one.
- In `Reconnect` a node that is down keeps no state; its timers count the time
  until it is started. Datagrams for it are lost. Faults do not add up: a node
  stops only when the last keepalive of every node has arrived, and from then on
  the network loses nothing.
- `Mesh` and `FanoutHistory` add variables that record and never restrict
  (apart from the bound `MaxSent`).

## What TLC checks

| Run | Instance | Shows |
|---|---|---|
| `Flow` | 3 packets, one of 2 paths lossy, deadline 1 ms | `DeliveredInOrder`, `NothingAcceptedIsLost`, `EveryGapHasADeadline`, `NoReleasablePacketWaits`, `QueuedIsDelivered`, `OneReliablePathSuffices`, and that `Flow` implements `Tunnel` |
| `Restart` | 2 packets of each start of the sender, one of 2 paths lossy, one restart of each end | `OrderSurvivesRestarts`, `BlackoutIsBounded`, `RestartedSenderIsHeard`, `RestartedReceiverCatchesUp` |
| `Layer3` | a client with 2 remotes, a server, 2 packets each way | `NoPanic`, `AddressesOwned`, `InOrderPerPeer`, `CountersNeverRewind` |
| `Layer2` (`MCMesh`) | a server and 2 clients, unicast and broadcast frames, any maintenance prunes all | `NoPanic`, `NoMisdelivery`, `EveryPairIsATunnel` |
| `Layer2Learning` | the same network | `SendersAreLearned` does not hold |
| `Reconnect` | a client and a server, 5 s units; one lost keepalive in a row, then the client down for up to 40 s and the server for 5 s, once each | `AddressesKept`, `ConfiguredPeersAreContacted`, `RoutesBothWays` |
| `ConnectivityOutage` | the same without stops, three lost in a row | `ConfiguredPeersAreContacted` does not hold |
| `Pipeline` | 2 remotes, channels of 1; every task may fail | `CircularWaitIsPermanent`, `StuckOnlyInCircularWait`, `FatalErrorEndsProcess` |
| `PipelineLocal` | 2 remotes, channels of 1, no failures | `LocalPacketsEnterMpsc` does not hold |
| `Fanout` | a UDP and an Lz4 remote, the latter may fail or be ended by a datagram, a channel of 2, rounds of 3 addresses and other traffic, 4 messages | `OnlyLaggardsMiss`, `EveryRemoteIsATunnel`, `SentIsWritten` |
| `FanoutGarbage` | both remotes hear peers that do not compress | `GarbageIsThrownAway` does not hold |
| `LocalWakeups` | 3 frames, 3 packets of which one is too long, writing may fail | `SleepsOnlyWhenIdle`, `OneFramePerPacket`, `FramesAreForwarded`, `PacketsAreWritten` |

### Why the bounds are enough

Three packets allow a gap, a packet behind it and a straggler that fills it too
late, and a second gap after the first deadline. Two paths give two copies, of
which each can be lost or overtake the other. A deadline of 0 or 1 ms
distinguishes "before" from "after"; the code compares and does nothing else
with it. A stale limit of one unit lets every address be pruned and come back
between any two packets. In `Connectivity` the periods have the proportions of
the code (5 s, 10 s, 30 s). Channels of one or two places are full after one or
two packets, as those of 128 are after 128; the circular wait is proved
permanent for every capacity. The `Pipeline` runs do not check deadlock: the
circular wait is one, and so is a process that has ended. Neither does
`LocalWakeups`: there the bound on frames is reached and everyone sleeps.

For safety a lost datagram is one that is late for ever, so `Flow` needs no
second lossy path. Its packets have one content: `DeliveredInOrder` is proved
for every set of contents, and `Restart` and `Layer2` tell contents apart.

In `Fanout` a burst either fits the channel or does not, which is all that the
ratio of addresses to 128 matters. Three frames let one be forwarded, one be
read and one arrive at the moment the readiness is cleared; the safety
properties of `Local` are proved for any number. One restart of each end gives packets of two
starts in flight together and a receiver that lags behind or is ahead of the
sender; two packets of each start are enough for a gap, for a number that is
refused because the earlier start used it, and for the number after it with which
the restarted sender has caught up. `RestartedSenderIsHeard` speaks only of that
case: of packets of a second start, with numbers above all those of a first start
that sent something. In `Reconnect` 40 s is longer than `stale_time_limit`, so the server may
have forgotten the client or not; the server must be back before the client
gives it up. With two units (10 s) for the server TLC finds that it can already
be lost for good: it was last heard of at 0 s, is down for the keepalives of 10 s
and 20 s, and at 30 s pruning comes before the keepalive.

### Fairness

- The clock advances and a task that is ready is run (weak fairness).
- `select!` polls its branches in random order, so a branch that is ready
  again and again is taken (strong fairness for the branches).
- `Flow` and `Restart` assume that a datagram on a path that loses nothing is
  eventually received. Losing a datagram, sending one, failing, restarting and
  reading a packet are never assumed to happen.
- `Fanout`: the ConnectionManager and the remotes go on receiving; no interval
  need tick and nothing need arrive.
- `Local`: the driver looks for events and the scheduler runs a woken task;
  nothing need be captured. `packets_from_local` has room.
- The circular wait of the managers, which `Pipeline` is about, is outside the
  other modules: `QueuedIsDelivered`, `OneReliablePathSuffices` and the liveness
  of `Restart` hold while `packets_to_local` has room, `SentIsWritten` while the
  ConnectionManager receives, `FramesAreForwarded` and `PacketsAreWritten` while
  `packets_from_local` has room.
- `Reconnect`: a stopped node is started when its time is up.

## Where code and text disagree

1. **The managers can wait for each other for ever** (`PipelineLocal`). The
   LocalManager awaits `packets_from_local.send()` and the ConnectionManager
   `packets_to_local.send()`, each inside a `select!` branch. With both channels
   full neither receives. `StuckOnlyInCircularWait` shows that there is no other
   way to get stuck.
2. **The deadline tick does not learn** (`Layer2Learning`). Of the two loops
   that release packets only the one in `handle_incoming_packet` calls
   `learn_path`.
3. **Configured addresses are pruned for good** (`ConnectivityOutage`). After
   30 s of silence the seeded addresses are gone; if this happens on both sides,
   nobody contacts anybody again. With `MaxLost = 2` TLC finds that two lost
   keepalives in a row can cost an address, depending on which of the ticks due
   in the same instant is served first.
4. **A datagram can end an Lz4 remote** (`FanoutGarbage`). Garbage is thrown away
   by the ConnectionManager, but `UDPLz4Remote::read` unwraps the result of
   decompression, for instance of what a peer configured with a plain UDP remote
   sends. Unless it is the first remote, nobody notices.

Not the subject of a run:

- `keep_alive_interval` of the settings file is read and not used, the interval
  is 10 s (`connection_manager.rs:68`).
- More than 128 addresses in the peer list overrun the broadcast channel within
  one round of keepalives, because the handler does not suspend. Every remote
  loses the first ones, and while the list does not change these are the same
  every time. `OnlyLaggardsMiss` and `SentIsWritten` show that nothing else is
  lost: every message a running remote is past was written, had an unreachable
  address, or was overwritten when the remote was a full channel late.

## What is proved

The proofs assume only what the modules state about their constants: bounds are
natural numbers, a channel's capacity is positive, lossy paths are paths, the
remotes are not the managers; in `ConnectionManager` also that no two nodes
share a socket address, that a settings file gives the peers' own addresses and
not the node itself, and that a tunnel address is a station behind its node.

**`SequencerProofs`** states what each operation of the sequencer does to its
queue and to `next_seq`.

**`FlowProofs`** proves, for every set of payloads and of paths, every number of
packets and every deadline:

- `TypeCorrect`, `InOrderCorrect`, `NothingLostCorrect`, `GapsCorrect`,
  `NoWaitCorrect`: the invariants of the run `Flow`;
- `TunnelRefined`: `Flow` implements `Tunnel`.

Order alone is not inductive: a packet in the queue or in flight could carry a
number below one that was delivered, or another packet's bytes. The inductive
invariant `Inv` adds that a number belongs to one packet everywhere
(`NumbersAreUnique`), that what is queued lies at or above `next_seq`, that what
was delivered lies below it, and that the sequencer is untouched while the
sender is unknown; the last is needed because `add_peer` replaces it. There is
one lemma for each action that can disturb `Inv`. The refinement then follows:
only `handle_packet_from_local` and `ReleaseNext` are visible, and the latter
hands over a packet with an index above the last one.

**`RestartProofs`** proves, for any number of packets, paths and restarts of
either end, `RestartOrderCorrect` (`OrderSurvivesRestarts`) and `BlackoutCorrect`
(`BlackoutIsBounded`). Neither is inductive alone: a late packet of an earlier
start could push `next_seq` beyond every number ever used, or lie below what was
already handed over. `RestartInv` adds that every number in flight or queued was
used in some start of the sender, that what this start of the receiver handed
over lies below `next_seq`, and that a receiver that has not heard of the sender
has nothing of it.

**`ConnectionManagerProofs`** proves, for any number of nodes, remotes, stations
and packets, both kinds of local interface, any stale limit and deadline, and a
network that delays, reorders, loses and may duplicate:

- `PanicFree` (`NoPanic`), `AddressesCorrect` (`AddressesOwned`),
  `DeliveryCorrect` (`NoMisdelivery`), `OrderPerPeer` (`InOrderPerPeer`) and
  `ManagerTypes`;
- `CountersCorrect`: the action property `CountersNeverRewind`.

They rest on one inductive invariant (`Inv`), because each needs the others: a
station's table entry names the node it lives behind only if the packet it was
learned from came from there, which needs the same of every packet in a queue
and in flight, which needs that packets were sent only to the addresses of the
node the table named. So `Inv` says of every node that its addresses are owned
by their peers, that its queues hold only packets of the right peer, for this
node, at or above `next_seq`; that its table names the homes of stations, and
only peers in the list; that a task which releases packets has one to release
and a tick visits peers that exist; that what was handed over lies below
`next_seq`; and of every datagram that it comes from the node it names and a
packet in it is for the node it goes to. The lemmas come in three layers: what
each operation of the peer list does; what the parts of `Inv` become under it;
and one lemma per handler, which keeps its own node's part and leaves the other
nodes alone.

**`MeshProofs`** proves `PairsRefineTunnel`: every ordered pair of nodes
implements `Tunnel`. `MeshInv` adds to `Inv`, for each pair, that `tx_counter`
counts what was recorded as sent, that every copy in flight or queued is what
was sent under its number, and that `next_seq` is past everything handed over.
All handlers but two are shown to leave that alone (`SilentQuiet`);
`handle_packet_from_local` is a step `Send` of the pairs it sends to and a turn
of a release loop a step `Deliver`.

**`FanoutProofs`** proves, for any number of remotes and addresses, any capacity
and any bursts:

- `FanoutTypes`: no channel overflows;
- `LaggardsCorrect` (`OnlyLaggardsMiss`) and `RemotesRefineTunnel`
  (`EveryRemoteIsATunnel`). Accounting alone is not inductive: a remote that
  passes over an unreachable address passes over the right message only if the
  channel hands it the one of its place in `outgoing`. `FanoutInv` adds
  `ChannelHoldsNewest`: the channel holds the newest messages, a remote has
  written only what lies before those it has not received, and it can be behind
  by more than the channel holds only when the channel is full, so that after a
  lag it goes on with a message that is there.

**`PipelineProofs`** proves for every number of remotes and every capacity that
no channel overflows (`TypeCorrect`) and that the circular wait is permanent
(`CircularWaitTheorem`): no action of a remote, a timer, or a failing task
changes one of the four facts it consists of.

**`LocalProofs`** proves for any number of frames and packets:

- `SleepCorrect`: the task never sleeps through a frame or a packet. The
  property speaks of the sleeping task only; what makes it inductive (`WakeInv`)
  is what holds on the way there: without the readiness bit, and from the last
  `next()` until the bit is cleared, unread frames have an event to come; a
  branch of `select!` that this poll has left behind found nothing and registered
  the waker; and `try_io` is entered only from a branch that is still to be
  looked at, so that `continue` asks again. `WakeCorrect` states `WakeInv`.
- `FramesCorrect`: one frame per packet, complete and in order. It needs in
  addition (`FrameInv`) that `tun_buf` is empty whenever the task is not about to
  forward it, which is where `tun_buf.clear()` comes in.

Only model-checked:

- the liveness properties, which need fairness and `ENABLED` and are outside the
  prover's reach: `QueuedIsDelivered`, `OneReliablePathSuffices`,
  `RestartedSenderIsHeard`, `RestartedReceiverCatchesUp`, `SentIsWritten`,
  `ConfiguredPeersAreContacted`, `RoutesBothWays`, `StuckOnlyInCircularWait`,
  `FatalErrorEndsProcess`, `FramesAreForwarded`, `PacketsAreWritten`;
- `AddressesKept` of `Reconnect`, which depends on how the periods of 5, 10 and
  30 s fit together.

## What is not modelled

- Parsing of the settings file and of the command line; the settings are given as
  constants.
- Opening the TUN device, the capture handle and the sockets (`make_tunnel`,
  `AsyncPcapStream::new`, `make_socket`): calls to the operating system that
  succeed or end the process. Reading and writing the TUN device is done inside
  the `tokio_tun` library.
- The encoding of messages by bincode and the algorithm of Lz4: what matters of
  them is which bytes are accepted by whom, and `Fanout` has that.
- The interface log, which nothing reads back, and the scripts and the Wireshark
  dissector in `test_tools`.
- A clock that is set back appears only as a failure in `Pipeline`.
- Stations that move from one network to another: the tables keep the first
  entry, and no text says what should hold meanwhile.

## Plan

1. `AddressesKept` for every choice of periods that satisfies an inequality
   between them, instead of those of the code alone: an inductive invariant that
   bounds the age of an address by the time since the peer's last keepalive.
2. `Pipeline`: the facts behind `StuckOnlyInCircularWait` that do not need
   `ENABLED`, such as who is the only sender of a channel that is full.
3. That `Reconnect` and `Connectivity` take only steps of `ConnectionManager`
   between two starts, so that its theorems hold for them too.
