# dl-dsr-rs: specification and proofs

TLA+ models of the dl-dsr-rs daemon (`src/crates/dldsr-node`, `src/crates/dldsr-core`), the TLC
runs that check them on small networks, and TLAPS proofs of their safety properties for every
network. dl-dsr-rs is a source-routing engine over UDP. It has two modes: plain DSR, which routes by
lists of node ids, and DL-DSR, which routes by 8-bit labels that neighbours assign to each other.

## 1. The system

Each daemon owns one `ProtocolState` and runs one `tokio::select!` loop. Handlers are synchronous,
so a daemon's steps are atomic; concurrency is between daemons, through UDP, and between packets,
timers and commands at one daemon.

| Component | State | Operations | Interacts with |
|---|---|---|---|
| Topology, `NodeConfig` | nodes, endpoints, neighbour lists (not necessarily symmetric) | `node`, `are_adjacent`, `is_logical_neighbor` | read by all handlers |
| Label exchange | `NeighborTable` (labels I gave), `LabelTable` (labels I was given) | hello timer, `handle_hello`, `handle_hello_reply` | UDP; labels are read by RREQ and DATA handling |
| `SeenRequests` | (src, request id) to time | `mark_if_new`, `prune`, `enforce_max_entries` | RREQ handling, tick |
| `RouteCache` | routes per destination, with expiry | `insert`, `shortest` | commands, RREP |
| Discovery | `pending_data`, `discoveries`, `next_request_id` | command, tick, `handle_rreq`, `handle_rrep` | all tables, UDP |
| Data | `next_sequence` | `origin_data`, `handle_data` | route cache, `NeighborTable`, UDP, events |
| UDP transport | datagrams in flight | `send`, `recv` | everything |
| Daemon loop | channels, control socket, timers | `select!` branches | the handlers above |
| Metrics | counters, snapshot file | `record_*`, `write_metrics_file` | handlers, file system |
| Benchmark model, CLI, eBPF and io_uring prototypes | none | pure functions, I/O | nothing at run time |

What is hard: datagrams are lost, repeated and reordered; late replies race timeouts and retries;
the seen-request cache evicts under load, so floods may circle; label tables live in memory only,
so a restart invalidates labels other nodes have cached; label tables agree only once HELLOs have
gone both ways; modes can be mixed; the wall clock can be set back. At one daemon: the select loop
waits for room in the event channel inside a branch, so that timers, packets and signals wait with
it; the process can end at any await, also while it writes the metrics file. `PROJECT.json` lists each hazard at its line.

What makes each part correct:

* labels: unique per node; both ends agree; a label leads back to the node that learnt it; the
  exchange repairs itself after a restart;
* discovery: cached routes are loop-free paths over two-way links; a payload waits only while a
  discovery runs, and not for ever; request ids are not reused; the retry budget is used in full;
  floods are bounded;
* data: what has a route reaches its destination unless a datagram is lost; nothing vanishes
  uncounted; nothing is sent twice. Together with discovery this is the messaging service of
  `Messaging`: an accepted payload waits at its source or is under way until it is delivered at its
  destination or dropped, and only a restart of the source forgets it;
* daemon loop: events reach the program in order and without loss; timers and commands are served
  for ever; loop and program wait for each other only when the program overfills the command
  channel; Ctrl-C takes effect; the answers of the control socket are true;
* metrics file: whole at every moment, never replaced by an older snapshot, final after a shutdown.

## 2. Modules

| Module | Models | Extends |
|---|---|---|
| `Topology` | the static topology and its lookups | |
| `Udp` | datagrams as sets: any may be received next, never, or (at most `MaxDups` times in all) again | |
| `LabelExchange` | both label tables, HELLO, HELLO_REPLY, hello timer, restart | `Topology`, `Udp` |
| `Clock` | `now_millis`: ages of stored times, a clock that may be set back | |
| `SeenRequests` | the seen-request cache as operators on a function from keys to ages | `Clock` |
| `RouteCache` | one destination's entries as a sequence with ages | `Clock` |
| `Protocol` | the whole `ProtocolState` of all daemons | `LabelExchange`, `SeenRequests`, `RouteCache` |
| `Messaging` | abstract: what the network promises to the user of a send command | |
| `MetricsFile` | counters, `write_metrics_snapshot`, the two files | |
| `Daemon` | one process: select loop, channels, control socket, `send` command, Ctrl-C, kill, start | `MetricsFile` |
| `LabelExchangeProofs` | theorems on labels | `LabelExchange` |
| `ProtocolProofs` | the label refinement, types, pending queues, hop counts | `Protocol` |
| `MessagingProofs`, `PayloadProofs` | the messaging refinement; where each payload is | `ProtocolProofs`, `MessagingProofs` |
| `DiscoveryProofs` | seen-request cache, request ids, retry budget | `ProtocolProofs` |
| `RouteProofs` | paths, labels along paths, data on routes | `ProtocolProofs` |
| `DaemonProofs` | types, events, answers, metrics file | `Daemon` |
| `MCTopology`, `MCLabelExchange`, `MCProtocol`, `MCDaemon` | instances for TLC | |

Names follow the source. Larger handlers are split into one action per outcome:

* `handle_hello`: `IgnoreHello`, `AnswerHello`
* `discover_and_send`: `QueuePayload` (no cached route), `SendOnCachedRoute`
* `handle_tick`: `Tick`, with `start_discoveries` for all retried destinations at once. The code
  retries them one by one in `HashMap` order, so `Tick` lets the request ids fall to them in any
  order.
* `handle_rreq`: `RefuseRreq`, `DropRreq`, `AnswerRreq`, `ForwardRreq`
* `handle_rrep`: `RejectRrep`, `CacheRoute` (insertion, end of the discovery, flush, all in one
  step as in the code), `ForwardRrep`
* `handle_data`: `DeliverData`, `ForwardData`, `drop_data`
* a process that ends and is started again: `Restart`

`Protocol` composes the handlers of all daemons and lets the loop call them in any order; `Daemon`
looks inside one loop and represents the handlers by what they give the loop to do: they count, and
return events: up to two, or in a tick two for every discovery that is given up (`MaxFailed` bounds
these). A step of `Daemon` runs from one await to the next: the branches of
`select!` (`HelloTick`, `ProtocolTick`, `MetricsTick`, `RecvPacket`, `RecvCommand`, `RecvClosed`,
`RecvControl`, `Shutdown`), one `SendEvent` per event of `apply_actions`, `ServeControl` after the
answer of `handle_control_message`, and `WriteMetrics`, which is one step for creating, filling and
renaming the file each. `due` says that the protocol timer has a tick to give; the other timers may
fire at any time. `tokio::signal::ctrl_c()` is a new listener on each turn of `select!`, so `CtrlC`
can only happen while the loop is there and every other branch that is taken resets it.

Options are sets with at most one element. Times are kept as ages, since the code only compares
differences; `Elapse(n)` advances node `n`'s clock, each node separately, and an age stops growing
once no comparison can tell it apart. `SetBack(n)` takes a step back, which can make ages negative;
`saturating_sub` is `Elapsed`. `pending_data` is kept per destination: the code's single
queue is only ever read per destination. `accepted`, `delivered` and `drops`
are history variables, as is `cut` in `Daemon`: the requests that were answered but not handled when
their process was killed.
Definitions named `X_suffix` are deliberately wrong variants of `X`; every property is shown to fail
when the variant named in `PROJECT.json` takes the place of `X`.

Assumptions, where the model is narrower than what could be configured: all daemons load the same
topology; endpoints are distinct; every listed node runs one daemon; only daemons send packets;
times and limits are configured alike everywhere. A payload stands for one command. In `Daemon` a
control socket and a metrics path are configured (without them the branches do nothing), control
datagrams are not repeated, and a crash is one of the process, not of the operating system: what
`tokio::fs::write` wrote is still there. Counters that no property reads are left out of `Protocol`,
and in `MetricsFile` one number stands for all of them.

## 3. Runs

`tlc -config <run>.cfg <module>`; sizes are distinct states.

| Run | Instance | Shows |
|---|---|---|
| `labels_safety` (45k) | three nodes, links listed at one end only, an unknown neighbour, one label for two neighbours, one restart, one repetition, cold tables | `LabelTypeOK`, `LabelsUnique`, `LabelsResolve`: exhaustion does not make labels ambiguous |
| `labels_converge` (187k) | chain of three with labels enough, one restart, one repetition, fair | `LabelAgreement`, `LabelsResolve`, `EventuallyConverged` |
| `route_dldsr` (165k) | DL-DSR chain, two payloads, expiry of routes, requests and discoveries | `LabelsFollowPath`, `RoutedDataNeverDropped`, `PayloadsNotDuplicated`, `PendingIffDiscovering` |
| `route_circling` (34k) | DSR, triangle with a tail, the destination lists strangers, seen-request cache of size 0, six hops: requests go round twice | `RoutesAreSimplePaths`, `HopsBounded`, `RoutedDataNeverDropped`, `MessagingSpec` |
| `route_retries` (282k) | two destinations, one unknown, one retry each, replies late or never, one clock set back | `RetryBudget`, `RequestIdsIdentify`, `SeenBounded`, `PendingIffDiscovering` |
| `route_restart` (450k) | DL-DSR chain whose middle node restarts and relabels, two payloads | `LabelsFollowPath`, `MessagingSpec` |
| `node_cold` (334k) | complete daemons from cold tables, two payloads, the source restarts and uses its request ids again | `PendingIffDiscovering`; `Spec` implements `LabelSpec` and `MessagingSpec` |
| `route_mixed` (414k) | diamond with one strict DL-DSR node, lopsided links, an unknown neighbour, one repetition | `TypeOK`, `RoutesAreSimplePaths`, `PayloadsAccountedFor`, `MessagingSpec` |
| `pending_liveness` (50k) | timers and data fair, requests and replies not; label tables empty, or complete with one repetition and one clock set back | `NothingPendsForever`, `PayloadsDecided` |
| `daemon_loop` (307k) | one process, every combination of no commands, `demo_send` or a program, with and without events; channels of capacity one, two commands, ticks that give up two discoveries | `DaemonTypeOK`, `EventsInOrder`, `StuckOnlyByOverload`, `TicksGoOn`, `CommandsTaken`, `CtrlCStops` |
| `metrics_file` (194k) | two processes one after the other, killed at any await or stopped, failing writes, a good and a malformed control request | `FileWhole`, `FinalSnapshot`, `SnapshotsInOrder`, `AnswersKept` |
| `drops_reported` | expected violation, see section 6 | |

Bounds. Three nodes give a first, a middle and a last hop; four give alternative routes and a cycle
with a destination off it. Ages of one or two steps distinguish fresh, about to expire and expired.
One retry distinguishes first attempt, retry and failure. Two payloads queue behind one discovery
or run two. One restart gives a stale and a current set of labels. A clock set back by one step
is enough to make an expired entry valid and a stored time lie in the future. In `Daemon` channels
of capacity one make the loop wait half-way through the events of a handler, with two discoveries
given up also between those of the first and the second; two commands are one more than the channel
holds, so that the program can wait as well. `EventIds` is more than the number of events that can be
unread at once (`DaemonAssumption`), so that a lost or repeated one shows. The `daemon_loop` and `metrics_file`
runs do not check deadlock: a daemon that has exited and is not started again has nothing left to
do, and that loop and program may wait for each other is what `StuckOnlyByOverload` is about. `node_cold` and half
of `pending_liveness` start from empty label tables. The other runs of `Protocol` start from
`WarmInit`, the state in which the label exchange has completed; HELLOs
then change nothing until a restart, so `WarmSpec` leaves them out, and `RestartSpec` lets them run
again after a restart. `RestartSpec` leaves out the timers; `node_cold` has HELLOs, packets, timers
and a restart at once. `PendingSpec` starts from `WarmInit`, with a repetition and a clock set back to
come, or from `ColdInit`, with HELLOs until the exchange is complete but without those two, which
together would take TLC too long.

Fairness. `labels_converge` assumes that the hello timer keeps firing (`tokio::time::interval`) and
that a datagram which stays in flight arrives in the end. HELLOs are repeated for ever, so this only
excludes a network that loses every one of them. `pending_liveness` assumes the 100 ms protocol
timer and the clock for `NothingPendsForever`; `PayloadsDecided` also needs that a data packet which
stays in flight arrives (`DataFairness`). No fairness is assumed of RREQ and RREP. `daemon_loop`
assumes strong fairness of the branches of `select!`, which picks at random among the ready ones;
weak fairness of what the loop awaits elsewhere, which the runtime completes when it can; and of
the program that it reads events unless it waits to send. Nothing is assumed of the user, the CLI
or the kill.

Refinement. `MessagingSpec` is `Messaging` with `waiting` the union of all `pending_data`,
`underway` the payloads of the data packets in flight, `dropped` the payloads of `drops`. Discovery,
flooding and retries are stuttering steps of it; a forwarded packet leaves `underway` as it is only
because the payload is put on the network again in the same step; `CacheRoute` moves a whole queue
at once. `LabelSpec` is the label exchange alone. What `Messaging` does not promise, and the code
does not keep, is at-most-once delivery: a repeated datagram is delivered again.

Mutual waiting. In `daemon_loop` there are states in which the loop waits for room in the event
channel and the program, which sends commands without reading events, for room in the command
channel. `StuckOnlyByOverload` shows that the loop stays there for ever only when the program sent
more commands than the channel holds and waits for ever in turn; `TicksGoOn` and `CommandsTaken` name
that as the only exception but the end of the process.
A program that reads its events from a task of its own, or limits its commands, is safe.

## 4. Proofs

For every topology, cache size, set of commands, mix of modes and any number of restarts,
repetitions and clock settings, from the `ASSUME`s on the constants only (finite node ids, natural
limits, `MaxRreqHops` a `u8`, channel capacities of one or more, at least one process). Every
invariant and action property of the runs is the property of a theorem; the runs show them on small
instances and show by mutants that they can fail.

`LabelExchangeProofs`: `LabelTypeCorrect`; then `LabelsUniqueTheorem`, `LabelAgreementTheorem` and
`LabelsResolveTheorem` from the inductive invariant `LabelInv`. `LabelsResolve` is not inductive:
it needs uniqueness (the smallest free label is nobody else's) and agreement, which in turn has to
speak of the replies in flight.

`ProtocolProofs`:

* `ProtocolImplementsLabelExchange`: every step of the daemons is a step of the label exchange or
  leaves its variables alone; `ProtocolLabelsResolve` follows.
* `TypeCorrect`: one lemma per action. Not only shapes: DL-DSR paths hold real labels because
  unlabelled nodes drop requests, and retries stay within their limit. Ages are integers, since the
  clocks may be set back.
* `PendingIffDiscoveringTheorem`: inductive with `TypeOK`. A command adds to both sides, a failed
  discovery and an accepted reply remove from both, late and repeated replies included.
* `HopsBoundedTheorem`: requests are created by `start_discovery` and by forwarding only
  (`NewRreqs`), and forwarding passes the hop check first, so `hop_count + 1` does not wrap.

`MessagingProofs`: `ProtocolImplementsMessaging`. The step simulation needs `PayloadsOwned`: a queue
`pending_data[n][d]` holds payloads from `n` to `d` only, and a data packet carries the source and
destination of its payload. Without it a delivery could not be matched to the abstract one, nor a
restart to the loss of that source's payloads.

`PayloadProofs`: `PayloadsNotDuplicatedTheorem` and `PayloadsAccountedForTheorem` count the places
of one payload. Every step does one of six things to a payload (`Moves`): it stays, enters the
queue or the network, leaves the queue, is forgotten by a restart, settles or hops. `QueuedOnce`
(payloads in queues were accepted, and stand there once) and `FinitePlaces` make the count go
through.

`DiscoveryProofs`:

* `SeenBoundedTheorem`: the eviction order (time, source, id) is a strict total order, so the number
  of entries that stay longer tells any two entries apart, and fewer than `SeenMax` numbers are left.
* `RequestIdsIdentifyTheorem`: strengthened by `IdsTaken`, ids in flight are below the next id of
  their source unless it restarted. A tick gives the next ids to the retried destinations by an
  injection, whatever the order of the `HashMap`.
* `RetryBudgetTheorem`: a cardinality argument. `RequestsMade` is the set of requests of the
  discoveries under way; a retry adds one to it and to the attempts, a failure removes
  `MaxRetries + 1` of them at once (`StartsPaid`).

`RouteProofs`:

* `RoutesAreSimplePathsTheorem` from `TraceInv`. A request's trace is a walk over links and may
  repeat nodes, since the cache may have forgotten the request. A reply goes back along the
  *first* position of each node, so what it has passed is new from there on (`FreshFrom`); when it
  arrives at the origin, the whole path is.
* `LabelsFollowPathTheorem` from `LabelledInv`: the label a node adds is one the previous node gave
  it, by `LabelAgreement`, and labels are unique. The labels of a request in flight describe a walk,
  which is its trace unless a node lists itself (`WalkAlong`).
* `RoutedDataNeverDroppedTheorem` from `DataInv`: a data packet is at a position of its path, or of
  the walk its labels describe, that ends at the destination (`OnRoute`). It holds for topologies
  with nodes that list themselves too, because a walk may contain a hop from a node to itself.

`LabelsFollowPath` has a precondition that came out of the proof: no node lists itself as a
neighbour. The loader (`config.rs`) accepts such a node. It then receives its own request, and if its
seen-request cache has forgotten it, it appends the label it has for itself, while the path does
not get the node twice; the labels are then one longer than the path. The data still arrives.

`DaemonProofs`, for any capacities, set-ups and number of processes:

* `FileWholeTheorem` and `FinalSnapshotTheorem` from `FileInv`: when the loop is about to rename, the
  temporary file holds the current counters, because no handler runs between the awaits of
  `write_metrics_file`.
* `SnapshotsInOrderTheorem` from `FileBehind`: a file never has more than the process counted, nor
  a later process.
* `DaemonTypeCorrect` from `TypesOK`, which adds to the types how full the channels can be in each
  set-up: the task of `demo_send` sends one command into an empty channel, a waiting program has
  an issued command that is not in the channel.
* `AnswersKeptTheorem` from `AnswerInv`: a request answered by any process, whether the CLI has read
  the answer or not, was handled, is the one being served, or was being served when its process was
  killed (`cut`); a malformed request is never served.
* `EventsInOrderTheorem` from `EventInv`: the sequence of the last event read, the channel and what
  is still to be sent counts up to the next number; sending and reading only move the boundaries
  between its parts (`HeadMoved`), a handler extends it at the end by as many events as it returns
  (`CountsOn`): any number, as long as it is less than `EventIds`, which `DaemonAssumption` gives for
  every `MaxFailed`.

Only model-checked: the liveness properties (`EventuallyConverged`, `NothingPendsForever`,
`PayloadsDecided`, `StuckOnlyByOverload`, `TicksGoOn`, `CommandsTaken`, `CtrlCStops`), since
fairness and `ENABLED` are outside the prover's reach; and `DropsReported`, which does not hold.

## 5. Not modelled

* bincode and serde: a packet that does not decode is a warning in the loop (`RecvPacket` with no
  event), and the packet types are the record sets of `Protocol`; TOML loading, argument parsing and
  defaults; logging.
* Byte counters and latency samples: sums no decision depends on.
* The benchmark (`simulate_chain`, `EnergyEstimate`, the report): closed formulas over floats,
  evaluated once, without state or steps; reports are formatting.
* eBPF and io_uring prototypes, which the daemon does not use; Docker files and scripts.
* A daemon task aborted inside a program that runs on (`JoinHandle::abort`, as the tests do): `Kill` ends
  the whole process. The write of `tokio::fs::write` then runs on in a thread of its own and could race
  with that of a daemon started again in the same process on the same metrics path.
* Packets from outside the topology's daemons. A daemon with an endpoint another one has.
* Growth of the route cache: entries are never removed in the code or in the model, so there is no
  bound to state.

## 6. Where documents and code differ

* `drops_reported`: a payload that waited for its route and then has no next hop is counted in
  `data_dropped`, but `flush_pending` discards the `DataDropped` event (`protocol.rs:798`). The same
  failure of a payload sent on a cached route is reported.
* Read in the code, without a run: DL-DSR data packets carry the node-id path as well as the labels
  (`protocol.rs:554`, `862`), while the documents describe labels instead of node ids.

## 7. Plan

1. Done: `Topology`, `Udp`, `LabelExchange`, `Clock`, `SeenRequests`, `RouteCache`, `Protocol`,
   `Messaging`, `MetricsFile`, `Daemon` with the runs above, and a theorem for every safety property.
2. Worth adding: lemmas that carry `NothingPendsForever` as far as safety goes (each tick of an
   expired discovery uses up one of its retries), and consequences of the refinements for
   single payloads.
