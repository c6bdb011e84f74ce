# Handel in TLA+

Handel (`src/handel.go` and the files around it) lets the nodes of a fixed
registry aggregate their signatures of one message into a multi-signature. The
registry is cut, from the point of view of each node, into *levels*: level 0 is
the node, level `l` the ids that share all but the last `l` bits of its id but
not bit `l-1`. On each level a node collects one multi-signature over that
level's ids, and sends to the peers of a level the combination of what it has
of the levels below. When the combination of all levels reaches a threshold it
is handed to the application.

This directory holds TLA+ modules of that system, TLC configurations that check
them on small instances, and proofs checked by TLAPS. `PROJECT.json` relates
every definition to the lines it models and lists the runs, the mutants that
show each property can fail, the hazards, the findings and the theorems.

    tlc -config Sequential.cfg MCSequential   # model-check one run
    tlapm HandelProofs.tla                    # check the proofs of a module

## 1. Inventory

| Component | Source | State | Operations | Interacts with |
|---|---|---|---|---|
| Partitioner | `partitioner.go`, `utils.go`, `identity.go` | id, registry size, bit size (constant) | ranges of a level and of its inverse, `Levels`, `Size`, `IdentitiesAt`, `IndexAtLevel`, `Combine`, `CombineFull` | called by store, processing and node |
| Multi-signature, bitset | `crypto.go`, `bitset.go` | a value | combine, verify against the keys of the bits, marshal | everywhere |
| Store | `store.go` | per level: best multi-signature, verified individual signatures | `Store`, `Evaluate`, `Best`, `Combined`, `FullSignature` | written by `rangeOnVerified`, read by the processing loop and the node, under its own lock |
| Processing | `processing.go` | filter, queue, channel of verified signatures | `Add`, the loop (`readTodos`, `verifyAndPublish`), `Stop` | fed by `NewPacket`, drained by `rangeOnVerified` |
| Node | `handel.go` | levels, last best signature, out channel, `done` | `NewPacket`, `StartLevel`, `periodicUpdate`, `OnVerifiedSignature`, `Start`, `Stop` | network callback, timeout, ticker, application |
| Linear timeout | `timeout.go` | ticker, `started`, `done` channel | `Start`, `Stop`, `linearLevels` | calls `StartLevel` |
| Config | `config.go` | constants | defaults, threshold from a percentage | read by the node |
| Encodings | `bitset.go`, `crypto.go` | a value | `MarshalBinary`, `UnmarshalBinary`, with `uint16` lengths | networks, `parseSignatures` |
| UDP network | `network/udp/net.go` | socket, channels `newPacket`, `process`, `ready`, a list of pending packets, listeners | `handler`, `loop`, `dispatchLoop`, `Send`, `RegisterListener`, `Stop` | calls `NewPacket`, called by Handel under Handel's lock |
| TCP network | `network/tcp/net.go` | table of connections, one mutex | accepting, one reader per connection, `Send`, `Stop` | as UDP, and calls `NewPacket` under its own lock |
| QUIC network | `network/quic/` | channel map of running dials, result channels, sessions | `Dial`, the manager's `update`, background dials, `Send`, accepting sessions | as UDP |
| Synchronisation | `simul/lib/sync.go` | per state: ids and addresses heard from, `done` | `Signal` and its repetition, the master's `sendLoop` | processes and platform of a run, over UDP |
| Gossip baseline | `simul/p2p/aggregator.go`, `simul/p2p/main.go`, `simul/p2p/udp`, `simul/p2p/connector.go` | accumulated signature and bitset, channels, pending list | `readNexts`, `handleIncoming`, dispatch, `Run`, `Connect` | the same registry and signatures as Handel |
| Allocation | `simul/lib/allocator.go` | a value | two allocators, `verifyAllocation` | platforms |
| Monitor | `simul/monitor` | socket, statistics of a run | `Listen`, `Stop`, `Record`, `Collect`, writing rows | nodes send to it, platforms read it |
| Platforms and runs | `simul/main.go`, `simul/platform`, `simul/node`, `simul/master` | commands, running index, timeouts | `Start`, `Cleanup`, `startRun`, a node's `main` | all parts of a simulation |
| Scenarios | `simul/confgenerator`, `simul/lib/config.go`, `config.go` | a value | the runs of each scenario, thresholds, defaults | read by platforms and nodes |

**What is hard here.** A node runs five goroutines (network callback, processing
loop, `rangeOnVerified`, `linearLevels`, `periodicLoop`) over three locks: the
node's, the queue's and the store's. `rangeOnVerified` stores a signature
*before* it takes the node's lock, the processing loop scores signatures on a
store that changes meanwhile, and `Stop` waits for nobody. Registries that are
not powers of two have empty, truncated and asymmetric levels, so that sender
and receiver compute the same range from different ids. Merging two signatures
that overlap would count a contribution twice and yield something that never
verifies. Packets may be lost, repeated and reordered. Levels stop sending once
every peer was contacted, so that a wrong count leaves a peer behind for ever.

The transports hand packets between goroutines over bounded channels, and call
back into a node whose lock is held while it sends. The session manager of QUIC
finds the caller of a dial again by the peer's id, after other calls for the
same peer came and went. The synchronisation repeats everything over a lossy
network and lets go before everybody is there. The gossip baseline goes on
working after it has given out its result, on state it shares with that result.
Two runs of a simulation follow each other on the same port, the first one's
monitor being stopped while the second one's starts. On aws the processes of a
run are not waited for, and signal to the one address of all masters until the
next run kills them.

**What makes each part correct.**

* Partitioner: levels are disjoint and cover the registry; the ranges are those
  of the common-prefix definition; two peers agree on the range they exchange.
* Store: whatever is stored verifies, grows, and loses no contribution verified
  alone; scores predict what storing will do; aggregates verify where they go.
* Processing: nothing better than what the store ends up with is thrown away,
  nothing invalid passes, the loops neither stall nor outlive `Stop`.
* Node: outputs are valid and never late; the bookkeeping of each level agrees
  with the store; what is sent is accepted; all nodes get all contributions.
* Lifecycle: no send on a closed channel, and `Stop` ends what `Start` began.
* Encodings: what a receiver accepts is what was sent.
* Transports: an accepted packet reaches the listener, once and in order;
  every call gets its own answer; nothing waits in a circle.
* Synchronisation: nobody passes before enough nodes signalled, everybody does
  in the end.
* Gossip: outputs are valid, and there is one while enough nodes send.
* Simulation: generated runs can finish; processes leave after their measures
  were sent; a row of the results is about one run.

## 2. Modules

| Module | Models | Depends on |
|---|---|---|
| `Partitioner` | `binomialPartitioner` and `Identities` as operators; `Interface(c)` packs base and size of every level and inverse range into one record, `Contract(p)` says what the store relies on | |
| `PartitionerCheck` | a walk over the levels of every node of every registry up to `MaxSize`, compared with the common-prefix definition | `Partitioner` |
| `Encoding` | the binary forms of bitsets and multi-signatures, as records of what was written and where a reader cuts | |
| `Connector` | the neighbours of a gossip node, with connections that fail | |
| `Scenarios` | the runs of the configuration generator, and what a run becomes on its way to Handel | |
| `Allocator` | both allocators | |
| `AlgorithmsCheck` | the inputs of these algorithms, and the walk of `PartitionerCheck` | the five above |
| `MultiSignature` | bitsets as sets of indices with a length; a signature as the set of its signers and a flag `once`, FALSE as soon as some contribution is in the sum twice; `Verifies` | |
| `SigStore` | `replaceStore` as operators on a record with the fields of the struct | `MultiSignature` |
| `StoreMachine` | the store's life: the own signature, then verified signatures in any order; for any partitioner that meets the contract | `SigStore`, `Partitioner` |
| `SigProcessing` | filter, queue and one pass of `readTodos` as operators | `SigStore` |
| `Processing` | the goroutines around one node's queue | `SigProcessing`, `Partitioner` |
| `Level` | the struct `level` and its methods | |
| `Aggregation` | *abstract*: what Handel promises its application | |
| `Handel` | all nodes and the network; implements `Aggregation` | `SigProcessing`, `Level`, `Partitioner` |
| `HandelFaults` | `Handel` over a network that may lose or duplicate some packets | `Handel` |
| `Lifecycle` | `Start`, `Stop`, loops, tickers and channels of one node, signatures only counted | |
| `PacketQueue` | *abstract*: one queue from the network to the listener | |
| `UDPNetwork` | the UDP network and a listener's lock; implements `PacketQueue` | |
| `QUICNetwork` | session manager, dials, senders, accepting side | |
| `Transport` | selection of a network, and then that network | `UDPNetwork`, `QUICNetwork` |
| `TCPNetwork` | the TCP network and a listener's lock | |
| `Gossip` | one node of the gossip baseline with its application | |
| `Barrier` | *abstract*: nobody passes before enough nodes signalled | |
| `Sync` | master and slaves for one state; implements `Barrier` | |
| `Simulation` | runs on a platform; its two synchronisations are instances of `Barrier` | `Allocator`, `Barrier` |
| `MCHandel`, `MCSimulation` | instances for TLC | |
| `MCSequential` | `AlgorithmsCheck` and, when the walk of one node over its levels is over, the store of that node, for TLC | `AlgorithmsCheck`, `StoreMachine` |
| `NodeLemmas` | what the parts of a node compute, for every id of every registry: the partitioner's search, the store's operations and scores, with the partitioner as a parameter | `Partitioner`, `SigStore` |
| `SequentialProofs` | proofs about `AlgorithmsCheck` (partitioner, encodings, overlay, generated runs) and `StoreMachine` | these two, `NodeLemmas` |
| `ProcessingProofs` | proofs about `Processing` | it, `NodeLemmas` |
| `HandelProofs` | proofs about `Handel` over all networks of `HandelFaults`, and that it implements `Aggregation` and rests only when done | `HandelFaults`, `NodeLemmas` |
| `NetworkProofs` | proofs about `Transport` and `Sync`, and that they implement `PacketQueue` (its safety part) and `Barrier` | these two, `NodeLemmas` |
| `LifecycleProofs`, `GossipProofs`, `SimulationProofs` | proofs about the module of that name | that module |

Definitions keep the names of the source. Operators commented *Mutant* are
plausible bugs; nothing uses them but the mutant runs.

### How state and actions correspond to the code

**Signatures.** `[len, bits, sig]` is a `MultiSignature`: the length and set
bits of its `BitSet`, and a signature `[who, once]`. Adding signatures unites
`who`; `once` stays TRUE only if the summands are each counted once and
disjoint. `Verifies(ms, base, size)` is aggregate verification: the length is
that of the range, there are bits, and the signature is exactly the sum of the
keys of these bits. This idealises the scheme of `bn256/`: a sum verifies iff
it is the right sum.

**Store.** `m`, `highest`, `indivSigsVerified` and `individualSigs` are the
fields. `Store` records an individual signature, then `unsafeCheckMerge` merges
with the best one if the cardinalities show them to be disjoint, complements
with individual signatures, and `keep` replaces the best if the result is
larger. Each way to panic is an operator (`StorePanics`, `CombinedPanics`,
`combinePanics`), so that "no panic" is a property and not an assumption.

**Processing.** `readTodos` reads the store once per queued signature, with no
lock against writers: `Evaluate` is one such turn, `EndOfPass` the replacement
of the queue, `verifyAndPublish` the verification and the (blocking) send,
`StoreVerified` and `EndOfVerified` the consumer. `Unlocked` says when the
queue's lock is free for `Add` and `Stop`.

**Handel.** Per node: store, levels, filter and queue, the channel, `current`
(the signature stored whose actors have not run), `best` (the last output), the
index of the timeout; globally the packets in flight, as a set, so that any of
them may come next. `StoreVerified` and `OnVerifiedSignature` are two steps
because the code stores outside of the lock; the other handlers are one step
because they hold it. `NewPacket` adds up to two signatures in one step, and a
whole pass of the processing loop is one step; their finer interleavings are
those of `Processing`. `current` makes the window of `handel.go:241-246`
visible to the properties. `sentSize` is history.

**Lifecycle.** One variable per goroutine, one record per channel or ticker.
`time.Ticker` is external: a channel of capacity 1 that drops ticks, and that
stopping neither empties nor closes. Everything `Start` spawns may take its
first step arbitrarily late, including after `Stop`.

**Encoding.** A byte string is the record of what was written into it, with the
byte counts that decide where a reader cuts it, so that bitsets of 500000 bits
cost nothing. The lengths are `% 65536` as in the code.

**UDPNetwork.** `handler`, `loop` and `dispatcher` are the goroutines, with the
packet each holds; `newPacket`, `process` and `ready` the channels; `loopReady`
the local flag of `loop`. `HandelLocks` and `USend` are a Handel thread that
sends under its lock, for which `Dispatch` waits. A datagram is a packet, one
without a signature, or garbage. `heard` is the history of what the listener
got.

**QUICNetwork.** A `Call` is the goroutine of one packet sent, and the result
channel `Dial` makes for it; `dials` counts the background dials of a peer,
`identities` and `out` are the manager's channels and `chanMap` its map. A
`select` is one disjunct per case. Sending and accepting share no state, so
`Transport` follows one of them per behaviour.

**TCPNetwork.** The network's lock and Handel's are variables; a reader is
`locking` until it has the first and `calling` while it waits for the second,
a Handel thread the other way round.

**Gossip.** The two loops of the aggregator, its channels, what it accumulates,
and `Run`, whose timeout ends the program while there is no output (`RunTimeout`).
A multi-signature given out refers to the aggregator's own bitset
where the code does not copy it. The zero packet of a closed channel and each
panic are modelled, as the code runs into them after its first output.

**Connector.** A walk is the record of its position, of whether it has wrapped
around and of the connections made, taken through its turns. A turn that meets the
node itself or whose connection fails makes none; `failing` says which turns fail.

**Sync.** The two sides for one state (START, END, P2P share nothing). A packet
under way is a member of a set. `sendLoop` iterates over the map of addresses
without the lock; `raced` says that a write came in between, after which the Go
runtime may end the program.

**Simulation.** `ctl` is the platform's position in `Start`, `proc` that of each
process, `of` its run and `node` the position of each goroutine a process runs for
a node; `launch` are the processes still to be started, each with its run. `mon`,
`stopping`, `buffer` and `stats` are the monitors, `rows` the results. The
processes pass the barriers by the actions of `Barrier`, `START!Release(<<of[p], p>>)`
and `END!Release(<<of[p], p>>)`: `Sync` shows that the real synchronisation does no
more. localhost makes a sync master for every run; what its processes can still do
to the next run is to send measures (`leftover`). On aws there is a process and a
master at a time on each machine, but not of the same run: `Start` leaves the
processes of the last run where they are, `StartCommand` kills the one it finds,
and meanwhile `SignalEnd`, `RepeatStart` and `RepeatEnd` reach whichever master is up
(`masterUp`), which cannot tell the run of an id. A signal or an answer that is lost
is one that has not happened yet. `sent` and `stale` are history: the nodes of the
current run that recorded, and the ids a master heard from another run's processes.
`trouble` remembers that a process failed or a timeout let the platform go on.

### Refinements

| Detailed | Abstract | Mapping |
|---|---|---|
| `Handel` (`HandelIsAggregation`) | `Aggregation` | a node knows the contributions of its store's `FullSignature`, and gave those of its last output; a signature that does not verify stands for none |
| `UDPNetwork` (`UDPIsQueue`) | `PacketQueue` | the queue is what dispatcher, `process`, loop, pending list, `newPacket` and handler hold, in this order |
| `Sync` (`SyncIsBarrier`) | `Barrier` | released are the slaves that got an answer, and the master when it is done |

`PacketQueue` includes fairness: as long as `Stop` is not called packets do
reach the listener. The other two abstract specifications are safety only. TLC
checks all three on an instance; section 4 proves the safety of all three for
every instance.

What walks over a queue (`readTodos` in `SigProcessing`, `nonEmpty` in
`UDPNetwork`) is a recursive function over its positions, about which facts can
be proved by induction.

## 3. Runs

| Run | Instance | Properties |
|---|---|---|
| `sequential`, the algorithms | registries of 1 to 20 ids; bitsets of lengths around 64, 65536 and 524288; overlays of up to 5 nodes and 8 turns, one of which may fail; every generated run | `LevelsPartitionRegistry`, `PeersAgreeOnRange`, `InterfaceMeetsContract`: ranges against the common-prefix definition, agreement of peers, the contract the proofs assume. `EncodingNeverMisread`: lengths that wrap around are refused, not misread. `NeighborsReachEverybody`: the overlay is connected (no group of nodes connects to nobody outside it) as long as each node has two turns that do not fail, and when the walk panics. `GeneratedRunsCanFinish`: enough nodes stay online, the random search for a node ends |
| `sequential`, the store | node 4 of 7, every verified signature at each step | `StoredSigsVerify`, `IndividualsCovered`, `NeverPanics`, `EvaluatePredictsStore`, `AggregatesVerify`, `BestOnlyGrows` |
| `overlay_count` | overlays as before | violated: `MakesMaxCount` |
| `processing` | node 0 of 4, 3 `Add`s of any valid or invalid signature, channel of 1 | `NothingBetterDiscarded`: evaluating on a changing store is safe. `EventuallyDrained`, `StopEndsLoops` |
| `handel_offline` | 5 nodes, 2 and 3 offline, threshold 3, two updates per period, timeout, eager nodes | `HandelIsAggregation`; `QuietAfterAllContacted`: no peer is left with an older signature; `RestsOnlyWhenAggregated`: no contribution is lost between two nodes |
| `handel_faults` | 3 nodes, 1 offline, one packet lost or duplicated, any peer order, all threads interleaved | `OutputUpToDate`, `CompletedIsComplete` on a bad network; `AggregatedUnlessLost`: duplication does no harm; `EventuallyQuiescent` |
| `handel_lossy` | 2 nodes, fair loss | violated: `EventuallyAggregated` |
| `lifecycle` | 3 levels, 2 signatures, channel of 1 | `NeverSendsOnClosedOut`, `LittleAfterStop`, `StopEndsRoutines` |
| `transport` | UDP: 2 packets, channels of 1 and 2, 3 datagrams, 1 `Send`; QUIC: 3 calls, 2 peers, 2 sessions, channels of 1 | `OneToken` and `UDPIsQueue`: three goroutines are one queue; `UStopEndsLoops`; `OneDialPerPeer`, `EveryDialReturns`: a result reaches the caller who dialled |
| `tcp_deadlock` | one incoming and one outgoing connection, 2 packets, 2 sends | violated: `ArrivedIsDispatched` |
| `gossip` | 3 origins, threshold 2, 2 pending packets, both ways of verifying | `TroubleOnlyAfterOutput`, `GivenOutIsValid`, `EventuallyOutput` |
| `sync` | 2 slaves, 2 nodes in any allocation, 50 % or 99.5 % of the nodes suffice | `SyncIsBarrier`, `RaceNeedsStraggler`, `AllAreReleased` |
| `simulation` | 2 processes with 2 nodes online, both platforms, 2 runs; 1 node on aws, 3 runs | `EndMeansRecorded`, `CleanFinish`, `RowsAreOfTheirRun`, `PortKeptByAnEarlierRun`: a run is without its monitor only because of an earlier one |

**Bounds, and why they are enough.**

* `MaxSize = 20` covers registries on both sides of 2, 4, 8 and 16, hence every
  shape of truncated and empty level with up to five bits. The bit lengths lie
  on both sides of a word, of `2^16` bits and of `2^16` bytes. Overlays of 5 see
  the walk wrap around once and twice, and a connection fail before and after it does.
* Node 4 of 7 has a level of one id (5), a truncated level (6, where 7 is
  missing) and a full level of four ids (0 to 3), on which overlapping, disjoint
  and contained signatures of all sizes occur.
* `MaxAdds = 3` is what it takes for a signature to be stored in the middle of
  a pass over two others. The channel's 1000 is cut to 1 so that it fills up.
* Five nodes with 2 and 3 offline: nodes 0 and 1 have a level with nobody online,
  node 4 has only empty levels below its highest, and the full size of what a
  level sends differs from that of what it receives. Nodes that are not in
  `Interleaved` are eager in `MCHandel`: they finish processing before anything
  else happens, which is one of the schedules of `Handel`; in `handel_offline` all
  nodes are eager, and that its properties do not depend on the order is what
  `HandelImplementsAggregation`, `HandelQuiet` and `HandelRests` prove. `handel_faults`
  interleaves all threads of three nodes, the smallest registry with that
  asymmetry.
* One fault is what it takes to lose the only copy of a contribution, or to see
  an old packet again. `MaxQueued` bounds what a duplicating network can queue.
* The capacities of the UDP channels (20000 and 100) are 1 and 2, so that the
  first fills up; `OneToken` shows that the second never holds more than one.
  Three calls for two peers are a dial, another one of the same peer while it
  is under way, and one beside it.
* Three origins and a threshold of 2 let one signature come after the final
  one, where the gossip baseline goes wrong; `MaxPending` bounds channel and list.
* Two nodes on two slaves are enough for a slave that is let go without having
  been heard from, and for a slave without nodes. Of two nodes 99.5 % are both; a
  share of 50 % stands in for a run of more than 200, where the code's share is
  fewer than all.
* Two runs are enough for a measure and a monitor of the first to meet the
  second. In one configuration each process runs one node, in the other one
  process runs both and the other none (its two are offline). aws is kept to the
  first, with all nodes expected and up to a master's timeout (`TwoRuns`). With a third
  run, of a single node (`ThreeRuns`), a run that was ended by the signals of the one
  before it can send its measures to the one after it, and does. localhost stops
  after its second run here, before the `Cleanup` that follows the last one.
* `CHECK_DEADLOCK FALSE` is set where the system really may stop: the protocol
  falls silent, a node or a transport is stopped, a program has ended, an
  algorithm has returned.

**Fairness.** Weak fairness of each goroutine's step and of the tickers: Go
schedules a goroutine that can run, and a running ticker fires. Nobody is
obliged to call `Start`, `Stop`, `Add`, `Send` or to register a listener.
`HandelFaults` needs only that *some* thread goes on (`WF_vars(Next)`), as each
has finitely many steps to take. Strong fairness is assumed of a waiter for a
mutex and of a case of a `select` that is ready again and again (`sync.Mutex`
hands over to a starving waiter; `select` chooses uniformly): `LoopReady`,
`LoopDone`, `Dispatch`, `ReadProcReady`, `SendLocks`, `dispatch` and `NewPacket`
of TCP. It is also assumed of the delivery of a packet that the code goes on
sending: the signals and answers of `Sync`, the signatures of `Gossip`. No fairness
bounds a delay, so that `Gossip` may run into its timeout first; `EventuallyOutput`
says so. On the lossy network of `handel_lossy` strong fairness of the delivery makes
the counterexample the code's doing and not the network's.

**Findings.**

* `handel_lossy`: a level falls silent once it has contacted each peer once with
  its current signature; a lost packet is never repeated, and its receiver is left
  without the contribution, although `net.go:4` says a network needs to give no
  delivery guarantee.
* `tcp_deadlock`: a reader of the TCP network holds the network's lock and waits
  for Handel's, while Handel holds its own and waits for the network's in `Send`
  (`network/tcp/net.go:126` and `:79`). A packet that arrived is never
  dispatched, against `net.go:15`, and the node stands still.
* `overlay_count`: the neighbour connector spends a turn on the node itself
  (`connector.go:40`) and makes one connection less than `MaxCount`, "the number of
  outgoing connections a gossip node should make" (`p2p/main.go:23`).

**Other disagreements met while modelling.** They are in the models where these
reach them, with properties stated around them.

* `Combined` of the highest level panics (`store.go:258`), against the doc of
  the interface (`store.go:27-29`). Handel never asks for it (`NeverPanics`).
* `periodicLoop` ranges over a ticker's channel, which is never closed: the
  goroutine outlives `Stop` ("and all sub routines", `handel.go:173`).
  `Lifecycle` has it, and `StopEndsRoutines` is about the others.
* `Stop` may overtake the goroutine that calls `timeout.Start` (`timeout.go:70`),
  which then starts every level of the stopped node; `LittleAfterStop` bounds
  what comes late only when it does not.
* A QUIC packet for a peer that is being dialled for another one is dropped.
* The neighbour connector tries a connection that failed again, and counts each try
  as one of the connections asked for (`connector.go:48`); the random one waits for a
  list to grow to which nothing is appended (`connector.go:68`).
* The sync master goes on when 99.5 % of the nodes, rounded up, have signalled
  (`sync.go:170`), from 201 nodes on fewer than all. Its doc says "when all are ready"
  and "the SyncMaster waits for n different READY messages" (`sync.go:17-22`), and the
  comments on the share say 95 % (`:31`, `:94`). `SyncIsBarrier` is about the share.
* On aws a process of the last run that got no answer repeats its END (`sync.go:261`)
  to the address all masters have (`aws.go:122`), until it is killed beside the new
  master's start (`aws.go:408`). The new master counts these ids, and may end its run
  before its own nodes have recorded anything, against "expecting a message from each
  one of them" (`sync.go:17`). `EndMeansRecorded` and `RowsAreOfTheirRun` say what is
  left to rely on.
* The gossip aggregator may close `done` twice, read the zero packet of a closed
  channel, change the bitset it gave out, and block under its lock
  (`aggregator.go:264`, `:174`, `:262`, `:216`); all of it after its first output.
* A process of the localhost platform that fails is counted twice
  (`localhost.go:143`).
* `GetHandelConfig` dereferences a missing Handel section (`simul/lib/config.go:298`)
  where its comment promises the default.
* The channel of `WaitAllSetup` is dropped (`libp2p/main.go:43`) and the setup
  packet is one variable for all nodes of a process (`libp2p/node.go:215`).

## 4. Proofs

A theorem says for every value of the constants what a run says for one. Each
module of proofs states the inductive invariant first, as named parts, then one
lemma or step per action, then the theorems.

| Theorem | States | For every |
|---|---|---|
| `StoreInvariant` | `[]Sound(st)`, the inductive invariant | partitioner that meets the contract, sequence of verified signatures |
| `StoreTypeOK`, `StoreValidity`, `StoreCoversIndividuals` | the types of the store, `StoredSigsVerify`, `IndividualsCovered` | |
| `StoreKeepsIndividuals`, `StoreKeepsOwn` | the individual signatures marked verified are the ones in the map; a node never loses its own signature | |
| `StoreMonotonic` | the action property `BestOnlyGrows` | |
| `StoreAggregates`, `StoreNeverPanics` | `AggregatesVerify`, `NeverPanics` | |
| `StoreScores` | `EvaluatePredictsStore` | such partitioner with `ScoresFit` |
| `PartitionerContract` | `Contract(Interface(c))` | id of every registry |
| `PartitionerLevels`, `PartitionerPeers`, `PartitionerMeetsContract` | `LevelsPartitionRegistry`, `PeersAgreeOnRange`, `InterfaceMeetsContract` | bound on the size of the registries |
| `AlgorithmsEncoding` | `EncodingNeverMisread` | bit length |
| `AlgorithmsNeighbors` | `NeighborsReachEverybody` | size of an overlay, number of turns, set of connections that fail |
| `AlgorithmsGenerated` | `GeneratedRunsCanFinish` | (the generated runs are a fixed set) |
| `ProcessingInvariant`, `ProcessingDiscards` | the inductive invariant, `NothingBetterDiscarded` | node of a registry of up to 65536, capacity, number of `Add`s |
| `HandelInvariant` | `[]HandelInv`, the inductive invariant | registry, set of offline nodes, threshold, order of peers and of threads, network that loses, duplicates or reorders |
| `HandelOutput`, `HandelCompleted` | `OutputUpToDate`, `CompletedIsComplete` | |
| `HandelImplementsAggregation` | the refinement `HandelIsAggregation` | |
| `HandelQuiet` | `QuietAfterAllContacted` | |
| `HandelRests` | `RestsOnlyWhenAggregated`, of `Spec` and of `LosslessSpec`, which may also duplicate | such registry of up to 65536, order and network that loses nothing, if `CanAggregate` |
| `HandelRestsUnlessLost` | `lost \/ RestsOnlyWhenAggregated`, of `FSpec` | the same, over a network that loses some packets |
| `SyncImplementsBarrier` | the refinement `SyncIsBarrier` | processes, nodes, allocation, share that suffices |
| `SyncRace` | `RaceNeedsStraggler` | |
| `UDPOneToken` | `OneToken` | packets, capacities, arrivals and sends |
| `UDPImplementsQueue` | `Queue!Safety`: the refinement `UDPIsQueue` without its fairness | |
| `QUICOneDial` | `OneDialPerPeer` | peers, calls, capacity |
| `LifecycleClosedOut`, `LifecycleLittleAfterStop` | `NeverSendsOnClosedOut`, `LittleAfterStop` | levels, signatures, capacity |
| `GossipTrouble`, `GossipGivenOut` | `TroubleOnlyAfterOutput`, `GivenOutIsValid` | registry, threshold, set of invalid signatures |
| `SimulationEndRecorded`, `SimulationCleanFinish`, `SimulationRows`, `SimulationPort` | `EndMeansRecorded`, `CleanFinish`, `RowsAreOfTheirRun`, `PortKeptByAnEarlierRun` | processes, nodes, allocation, share, number of runs |

### From which assumptions

* `PartAssumption` of `StoreMachine`: `Contract(Part)`. Levels are naturals up to
  `max`, level 0 is the node alone, ranges of levels are not empty, lie in the
  registry and are disjoint, and the inverse range of a level holds the ranges of
  the levels below it. `PartitionerContract` proves it of the binomial
  partitioner, so that the store's theorems hold of the partitioner the code uses.
* `ScoresFit`, a hypothesis of `StoreScores` only: `100 * l + size[l] <= 99998`
  for each level. `unsafeEvaluate` adds constants (100000 and the like,
  `store.go:177-182`) that outweigh everything else as long as a level has fewer
  than about 98000 ids; with more, a score may be negative and `Evaluate` panics
  (`store.go:106`). `RegistriesFit` proves it of the binomial partitioner for
  registries of up to 65536, whence the hypothesis `N <= 65536` of
  `ProcessingInvariant` and `ProcessingDiscards`. In a larger one the ids from
  65536 on have a level of 65536 ids, whose signatures no receiver accepts
  (`AlgorithmsEncoding`).
* The theorems about `Handel` are about `AnySpec`, whose steps are those of
  `Handel`, `Lose` and `Duplicate`, without bounds and without fairness. The lemma
  `AnyNetwork` says that `Spec`, `LossySpec` and `FSpec` are special cases.
* `CanAggregate`, a hypothesis of `HandelRests` and `HandelRestsUnlessLost`: what a
  deployment has to provide for the protocol to get anywhere. `LinearTimeout`, for
  otherwise a level with offline nodes below it is never started; as many nodes online
  as the threshold says; more than one of them, since a signature is only put out when
  one of another node was verified (`handel.go:274`); and `N <= 65536`, for which the
  constants of `unsafeEvaluate` outweigh the sizes of the levels (`ScoresFit`), as for
  `ProcessingInvariant`.
* `AlgorithmsAssumption`: lengths, bits and the bounds of the overlays are numbers.
* The other constants are finite sets or numbers, capacities are positive, and
  distinguished values lie outside of the sets they extend. `SimulationAssumption`
  also says that the processes are numbered and that a configuration has at
  least one node online. `SyncAssumption` makes a share a positive number of
  permille: the code's is 99.5 % (`sync.go:170`).

### Along which argument

*Store.* `StoredSigsVerify` alone is not inductive: complementing adds
the individual signatures of `individualSigs` for the bits of
`indivSigsVerified`, so the sum is right only if the map has, for each such bit,
that signer's signature. `MapsOK` says so along with types and validity.
`Covers` (verified individuals are in the best signature) is inductive only
with it, since a replacing signature covers them *because* they are added back.
`Sound` is their conjunction. A step is taken apart as the code is: recording
an individual signature, the merge (disjointness from cardinalities, where the
finite-set theorems come in), the complement, and `keep`. The step lemma also
yields that the old best survives or is replaced by a larger one, which is
`StoreMonotonic`. For the aggregates, `OwnKept` strengthens the invariant so that
there is something to combine; the ranges of the levels are disjoint by the
contract, so no contribution is counted twice, and offsets put each level's bits
into the inverse range, which gives both validity and the absence of an
out-of-bounds write. `StoreScores` needs no more than `Sound`: both `Evaluate` and
`Store` compute the same final bits, and the score is above 1 exactly when these
outnumber the current ones.

*Processing.* A signature is discarded on the score it had when the pass looked at
it, and the store changes afterwards. `NothingBetterDiscarded` is about the end, so
the invariant needs a condition that holds when the score is 1 or less and that
no later `Store` undoes: `Served` (the individual signature is verified or
the level complete; the best of the level is as large). `AcceptedOK` says that what
was accepted is in the pipeline or `Served`, `LookedAt` the same of the part of the
queue that the running pass has been through, and `OneAtATime` that a pass does not
start before the last signature was passed on. That scores and `Served` fit together
comes from the lemmas behind `StoreScores`, that `Served` stays from
`StoreMonotonic`'s.

*Handel.* `HandelInv` says of each node that its store is `Sound` with its own
signature kept and only contributions of online nodes, that what was parsed fits its
level and what was verified is valid at the level's range, and of each packet that
its bitset fits its length. The store's lemmas have the partitioner as a parameter,
so that they apply to every node at once. `OutputUpToDate` and
`CompletedIsComplete` hold outside of a window (`handel.go:241-246`: stored, and the
actors have not run). Inductive are their forms *within* it: the last output is the
full signature or smaller than it, and a level with all its signatures is complete
or is that of `current` (`OutputOK`, `CompleteOK`). The step into the window uses
that storing only enlarges (`StoreGrowsByFinal`), and the full signature with it; the
step out of it is what the actors do. The same lemmas make `StoreVerified` a
`Learn` of `Aggregation` or nothing, and `OnVerifiedSignature` a `Give` or nothing.
`QuietAfterAllContacted` is about a round-robin with a counter that is set back whenever
the signature to be sent grows: `ContactInv` says that the `sendPeersCt` peers before
`sendPos`, around the ring, have been sent the present size (`Contacted`, with
`Ago` the distance on the ring), unless the actors still have to pass a larger one on
(`Pending`).

*Rest.* `RestsOnlyWhenAggregated` is about all nodes at once. `DeliveryInv` says, of
every two online peers, that what the one sent last to the other *reaches* it: a packet
of that size or a larger one is under way, waits in the queue as a valid signature, was
verified, or the receiver's store has as much for the level. Each step that takes it
from one of these places puts it into the next: `NewPacket` into the queue unless the
level is complete, a pass of the queue into the verified ones unless its score is 0,
which for a valid signature means that the level has as much (`MarkZero`, where the
bound on the registry comes in), and storing into the store (`StoredSize`, from what
`StoreMonotonic` rests on). That a packet is accepted at all needs that sender and
receiver mean the same level and length (`PeersMutual`, `LevelsCover`: what
`PartitionerPeers` says, between two registered nodes). `StartedInv` says that the
levels the timeout has turned to are started. At rest all levels are started,
`QuietAfterAllContacted` says that every peer was sent the present best, and
`DeliveryInv` that it is in the peer's store; by induction over the levels
(`RestIsDelivered`) each level of each node then holds all the online nodes of its
range, and `OutputUpToDate` says that this was put out. With losses, the invariant is
`DeliveryInv` or `lost`.

*Partitioner.* `Descend` is the loop of the binary search, as the table of its
positions from the highest bit down. That the table exists is shown by
induction over the set of bits (`SetInduction`), and that `pow2` is a power
likewise. What the loop finds is then a *block*: the ids with one prefix
(`id \div 2^k`). `HalveBlock` says that a turn of the loop passes from a block to
one of its halves, `SearchOwn` and `SearchOther` that following the bits of an id
ends at its own block and flipping the last at its sibling, `BlocksNest` that the
own block and the sibling make up the next larger own block. The contract and the
walk's invariant (`WalkOK`: the levels visited are the own block) follow, cut off
at the size of the registry.

*Encoding.* A case distinction at 65536: below it nothing wraps around; from there
on the length the reader finds is not the one it expects.

*Overlay.* `WalkAt` gives the state of a node's walk after any number of turns that did
not fail: before the end of the registry, behind it, or at it for the second time.
`TurnStep` says that a turn leads from one such state to the next, or, when its
connection fails, leaves the walk where it is; `SetInduction` carries it through the
table of turns, which exists by `TurnsExist`, and `FailedCounts` bounds the turns lost.
The ids met are those at most so far ahead in the ring, so that from two turns on
that do not fail everybody is connected to the next one, and whatever is closed
under that is the whole ring (`RingIsConnected`).

*Generated runs.* The scenarios are of three kinds: nobody is offline, two nodes in each
process and fewer nodes offline than processes (`Offline`), or the practical one. For the
first two the nodes left in a process are at least one for any such numbers
(`SomeLeft`); the practical one is computed (`PracticalLeft`).

*Sync.* `SyncInv`: messages tell of nodes that were signalled and that their
sender runs (`MessagesOK`), the master knows the address of each process it heard
of (`MasterOK`), and answers exist only when enough nodes are ready (`AnswersOK`).
Together they make every delivery of an answer a `Release` of the barrier, and
every other step a `Signal` or a stutter. For the race: when all nodes are needed,
each process that runs one has its address in the map before the first answer.

*UDP.* `OneToken` is inductive with the types of what goroutines hold. Since the
permission is one, it cannot be in a channel that a goroutine is about to fill. For
the queue, the packets on their way are a `Row` of six places; a step moves a packet
from one place to the next, which leaves their concatenation alone (`Moves`, `Enters`,
`Joins`: associativity), puts one in at the end, or takes the first one out. Packets
without a multi-signature do not count: `NonEmpty` says what `nonEmpty` does when a
sequence grows at its end or loses its head, by induction over its length
(`SetInduction`).

*QUIC.* The count of `OneDialPerPeer` is inductive only with what the manager knows
of its callers: a call in its channel waits, is there once and in no map entry
(`QueuedOK`); the manager answers a call that waits, and with a result the one in
the map (`ManagerOK`, `MapOK`). The results in the channel are counted with three
lemmas on appending and removing.

*Lifecycle.* `OutOK`: closed means stopped, and a stopped node does not send.
For the late steps, `UpdatesOK` and `StartsOK` count what happened together with
what is still due (a waiting call, a tick left in the channel): this sum is at most
two when `Stop` comes and never grows.

*Gossip.* Before the first output (`BeforeOK`) the two loops hand over one packet at
a time, `done` is open, and a program that has ended did so by its timeout. `AccOK` says that the aggregate is the sum of the origins in
its bitset, and `DispatchOK` that whoever is about to give it out has enough of them,
and still has when it does.

*Simulation.* `GenOK` says of which runs the processes are: on localhost of the current
one, on aws of no later one. `SentOK` relates what the nodes of the current run's
processes have done to `sent`, so that an id in the END barrier is in `sent` or in
`stale` (`EndOK`); with the count that opens the barrier this is `EndMeansRecorded`.
`CountOK` relates what the platform counts to the processes that ended.
`RowsAreOfTheirRun` needs that a monitor is stopped once, not before its run ends,
and that the socket bound first starts with an empty buffer (`MonOK`), that a run
whose END barrier was filled by its own nodes leaves nobody who could still send
(`LeftOK`), and what the buffer and the statistics of a run then hold (`RowsOK`).
`MonOK` alone gives `PortKeptByAnEarlierRun`.

### Only model-checked

Liveness, and whatever needs ENABLED: `EventuallyDrained`, `StopEndsLoops`,
`AggregatedUnlessLost`, `EventuallyQuiescent`, `StopEndsRoutines`, `UStopEndsLoops`,
`EveryDialReturns`, `EventuallyOutput`, `AllAreReleased`, and the fairness in
`PacketQueue` (`UDPIsQueue`). Every invariant, every action property and every
refinement that a passing run checks, fairness aside, is stated by a theorem.

## 5. What is not modelled

* The pairing of `bn256/`, TLS, gob, CSV, TOML, SSH, S3 and AWS: libraries or I/O.
  That a datagram may not decode is part of the networks.
* `fifoProcessing` (deprecated, tests only), `UnsafeSleepTimeOnSigVerify` (a test
  feature), logs, reports and counters.
* Statistics: `simul/monitor` computes averages and variances in floating point;
  only which measures reach which row is modelled.
* The libp2p node: calls of a publish-subscribe library whose guarantees the code
  does not state. The third barrier of its runs (P2P) is left out with it, and so
  is the random connector, which never returns.
* What a run and the one after it do to each other when the first ran into its
  timeout (`simul/main.go:65`): the model ends there.
* A second `Stop` and `Stop` before `Start`: no caller makes them.
* The capacity of the out channel (10000): outputs grow strictly, so that fewer
  ids than that cannot fill it.
* Malformed packets beyond what `WellFormed` refuses, and Byzantine senders:
  `Processing` and `Gossip` take invalid signatures, the nodes of `Handel` are
  honest.
* Ways to panic or to end that no property meets: a monitor's connection with more
  than 50 records that do not decode (`monitor.go:135`), a synchronisation message
  that does not decode (`sync.go:197`; only slaves send any), an address that does not
  resolve or cannot be dialled (`udp/net.go:101`, `:106`), an error of QUIC's `Accept`
  (`quic/net.go:97`).
* `periodicUpdate` is one step of `Handel`, although a signature may be stored between
  two of its levels (`handel.go:189` against `:241`): each level sends what it had
  before or after, and the properties are about one level at a time.
* The accepting side of QUIC is modelled, its panics included, but no property is
  about it.

## 6. Plan

Done, in this order: partitioner, store, processing, node and protocol,
lifecycle, proofs of the store; then encodings, connector, allocators and
scenarios, the aggregation and the faults of the network, the three transports,
gossip, synchronisation and the runs of a simulation; then the proofs of
partitioner, encodings, scores, synchronisation, transports, lifecycle, gossip
and simulation; then those of the processing and of the protocol, and the
refinements of `Aggregation` and, without fairness, of `PacketQueue`; then that the
protocol rests only when everything is aggregated, and the proofs of the overlay and of
the generated runs; then the processes of aws that outlive their run, the connections
that fail and the timeout of the gossip application, with their proofs. No safety
property of a passing run is left without a proof. What would be next are
the parts of section 5 that are not libraries: the libp2p node with its third barrier,
and a run of localhost that goes on after its timeout next to the one after it.
