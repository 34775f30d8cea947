# Verification of weather-blockchain

TLA+ models, TLC runs and TLAPS proofs for the Go node in `src/`: a
proof-of-participation chain on which nodes record weather reports. Each slot
of ten minutes has one validator, who puts the reports of all nodes into a
block; blocks travel by TCP broadcast, forks are resolved by the longest chain
and, in an emergency, by the node that created the genesis block (the master).

## 1. The system

| Component | State | Operations | Talks to |
|---|---|---|---|
| **Block tree and database** `block/blockchain.go`, `block/block.go` | `Genesis`, `BlockByHash`, `Heads`, `MainHead`, the legacy array `Blocks`, `LatestHash`; SQLite rows with `is_main_chain` flags | `AddBlock`, `AddBlockWithAutoSave`, `TryAddBlockWithForkResolution`, `SwitchToChain`, `SaveToDisk`, `LoadFromDisk` | called by the engine, the network node and the override's goroutine; one `RWMutex` |
| **Consensus engine** `consensus/consensus.go`, `block_validation.go`, `block_creation.go`, `sync.go`, `types.go` | `pendingBlocks`, `currentSlotWeatherData`, `lastSlot`, `ce.mutex` | `ReceiveBlock`, `createNewBlockWithWeatherData`, `processPendingBlocks`, `monitorSlots`, `handleValidatorSlot`, `OnWeatherDataReceived` | block tree, network, slots |
| **Fork resolution, master override** `consensus/fork_resolution.go` | `pendingOverrides` with response channels, `overrideMutex` | `performConsensusReconciliation`, `identifyAndResolveForks`, `performChainReorganization`, `sendMasterOverrideWithAck`, `processMasterOverrideCommand`, `processMasterOverrideAck` | commands and answers travel as disguised blocks |
| **Network node** `network/network_manager.go`, `protocol/messages.go` | `Peers`, `activeConnections`, `connections`, `stopChan`, block channels | `Start`, `Stop`, discovery, `establishProactiveConnection`, `monitorConnection`, `BroadcastWeatherData`, `handleConnection`, `SyncWithPeers`, range and height answers | block tree (unlocked by the engine), engine callbacks |
| **Time and validator selection** `network/time_sync.go`, `validator_selection.go` | `timeOffset`, `timeReliable` | `GetCurrentSlot`, `GetTimeToNextSlot`, NTP synchronisation, `GetValidatorForSlot` | engine |
| **API server** `api/server.go`, `node_client.go` | `discoveredNodes` | `getConsensusBlocks`, `getConsensusHeight`, one request per handler otherwise | range, block and height requests to nodes |
| **Weather service** `weather/` | an SQLite table | scheduler, sources with retries and fallbacks | engine reads the latest report |
| Start-up, accounts, logger, local testing mode, API command, Raspberry Pi client | | wiring, keys, files, display | |

What is hard in it:

* **Two locks.** `ce.mutex` serialises the engine, `Blockchain.mutex` single
  operations on the tree. The synchronisation of a node that started without
  blocks and the goroutine of a master override take only the second one, so
  they act between the steps of the engine. `SaveToDisk` takes a read lock:
  two saves run at once.
* **Crashes.** A save is a series of inserts without a transaction, then a
  rewrite of flags; a block whose save failed stays in memory.
* **Order.** Blocks arrive in any order and wait in `pendingBlocks`; a pass
  over that map is in random order.
* **Messages.** Commands and answers of an override are lost, late and
  duplicated (each broadcast is repeated once per peer), over a bounded channel
  that is closed when the sender stops.
* **Time.** The clocks of nodes differ and are set back; monitors read the
  slot twice, with a broadcast of up to ten seconds in between; each node
  selects the validator from the peers it has discovered.
* **Connections.** Dialers, watchers, health checks, broadcasts and `Stop` use
  the same connections, each under its own mutex for one step; they name a
  connection by its peer, and dialers and discovery do not look at the stop
  channel.
* **Distributed reads.** The API puts together an answer from nodes that
  reorganize while they are read, index by index.

What makes each part correct: the tree is one rooted tree whose tips are all
in `Heads`, its main head is a longest chain, saved blocks survive (tree and
database); nothing heard is lost, pending blocks are placed, broadcasts are
durable, and the array is the main chain (engine); an override is decided on
evidence and returns (override); every open connection has one goroutine that
looks after it, and a stop is final (network); one creator per slot, and his reports are
there (slots); a majority's blocks are in the answer and linked (API).

## 2. Modules

```
BlockTree ── ChainTree ─┬─ Blockchain ── BlockchainProofs
    │                   │      └ refines DurableTree
    │                   └─ Engine ── EngineProofs
    │                          └ its steps are steps of DurableTree
    └─ Api ── ApiProofs
MasterOverride ── MasterOverrideProofs
Links ── Network ── NetworkProofs
Slots ── SlotsProofs

BlockTreeTheorems (lemmas about BlockTree) ── ApiProofs
    └─ ChainTreeTheorems (lemmas about ChainTree) ── BlockchainProofs, EngineProofs
```

* **BlockTree**: the universe of blocks. A hash covers the index and the
  previous hash, so `Prev`, `Index` and `Path` are functions of a block, and
  links form no cycle. Contents and signatures are abstracted away.
* **ChainTree**: the in-memory half of `blockchain.go`. Every action is one
  critical section of `Blockchain.mutex`; calls that return an error and change
  nothing have no action. `heads` counts the entries of `Heads`, as the list
  may hold a block more than once.
* **Blockchain**: ChainTree with its database and crashes. `rows` are the
  rows, `flagged` the ones with `is_main_chain`, `save[s]` the progress of
  goroutine `s` in `SaveToDisk`. `SaveRow` inserts one row, `SaveFinish`
  rewrites the flags and returns, `SaveFail` is any failing statement, `Crash`
  forgets the memory, `Load` is `loadBlocksFromDatabase`.
* **DurableTree**: what a store promises, without rows and flags: known blocks
  form one rooted tree, a save commits what is known, a crash keeps everything
  committed. Blockchain implements it with `running`, `known` and `committed`
  mapped to `up`, `blockByHash` and the history of acknowledged saves. The
  writers of Engine take its steps, too, with `known` and `committed` mapped to
  `blockByHash` and `stored`, in a process that runs.
* **Engine**: the goroutines that write the tree. `holder` says who holds
  `ce.mutex` and how far it is; each step is one critical section of
  `Blockchain.mutex`, so the unlocked writers (`Sync...`, `Override`) fall in
  between. Receiving, parking, the pending pass, block creation,
  reconciliation on the master and the join of an empty node. A reconciliation
  reads the latest block and the heads one after the other (`ReconcileLatest`,
  then `ReconcileForks` or `ReconcileReorganize`), so what it has read may be
  stale when it switches. `Foreign` are the blocks of others, `Offered` those
  that peers broadcast; the rest comes through the synchronisation only.
  `reorganized` remembers the chains `executeChainReorganization` chose: what it
  cleans off the pending map is the one thing this node forgets. A save is one
  step here; Blockchain has its rows.
* **MasterOverride**: one `sendMasterOverrideWithAck` with its followers,
  `overrideMutex`, the response channel and the deferred delete and close. The
  sender puts one command per known peer into the outgoing channel (`queued`),
  and each goes to the peers known when `handleOutgoingBlocks` takes it out
  (`SendQueued`), which may be more.
* **Links**: the proactive connections of one node. A dialer and the watcher it
  starts follow each other, so they are one *life* of the peer's link, with at
  most one connection. `stage` is where a life is: dialing, connected (before
  the connection is stored), watching, found broken, stopping, over. `active` is
  `activeConnections`. `Signal` and `Unlink` are the steps of `Stop` that
  concern links. A watcher that finds its connection broken closes what is
  stored under the peer's name and starts the next life (`Reconnect`).
* **Network**: Links with the rest of `Stop`, the accepting goroutine, accepted
  connections with their handlers, and `BroadcastWeatherData` with a sender and
  a waiter per peer, its ten seconds and the deadlines of its writes, which the
  health check of `monitorConnection` takes away. `stop` says how far `Stop` is:
  stop channel closed, accepted connections closed, proactive ones closed,
  listener closed.
* **Slots**: clocks, discovery, `monitorSlots`, `handleValidatorSlot`, weather
  messages and the weather map of several nodes.
* **Api**: one `getConsensusBlocks` over nodes whose chains change. A node is the
  head of its main chain, and what it answers is read off the ancestors of that
  head.
* **MC...**: the instances for TLC.
* **BlockTreeTheorems**, **ChainTreeTheorems**: lemmas about the operators of
  BlockTree and the actions of ChainTree. **BlockchainProofs**,
  **EngineProofs**, **MasterOverrideProofs**, **NetworkProofs**,
  **SlotsProofs**, **ApiProofs**: the theorems.

A definition called `X_How` right before `X` is a plausible mistake in `X`; no
specification uses it. It documents what each property would catch.

### Facts about the code the models rely on

* `GetBlockByHash` and `GetBlockByIndex` scan the array, not the tree. Api takes
  the array for the main chain: `MainChainUndisturbed` says when that is so. In a
  history like the one of `engine_race` a node may answer with blocks of two
  branches without a reorganization inside the range; Api does not speak of such
  a node.
* `network.Node` lacks `BroadcastChainStatusRequest`, `RequestPeerChainStatus`,
  `SendCustomMessage`, `RequestSpecificBlock` and `OnValidatorRemoved`, which
  the engine looks for by type assertion. So chain-status answers never come
  and reconciliations wait for them, holding `ce.mutex`, until their timeout.
* A range request closes its connection before the answer can be read: it
  never brings a block. So a block that was missed (a full channel, a broken
  connection) is not fetched later: the synchronisation runs on a node that
  started empty only, and the block's descendants wait in `pendingBlocks`.
* The address of a known peer is never renewed, and a peer whose dialer failed
  three times is not dialed again; weather messages to it then use a
  connection of their own each. They do so only while nothing is stored for the
  peer: on a stored connection that is broken the message is lost, until the
  next health check removes it.
* Of what `Start` sets going, only `monitorConnection` looks at `stopChan`:
  discovery goes on for ever, and dialers run to their end.
* The only way into reconciliation is `monitorNetworkRecovery` on the master
  node. `performChainReorganization` runs after `identifyAndResolveForks` and
  finds something to do only when the synchronisation has added blocks between
  the two.
* `sendMasterOverrideWithAck` is called by tests only. The followers' side is
  wired: `startNetworkBridge` gives consensus messages to
  `OnConsensusMessageReceived`. A message block has the index of the latest
  block plus 1000000 and no valid signature, so `ReceiveBlock` refuses it.
* `startNetworkSync` runs only on a node that started without blocks.
* The interface `getDeterministicParticipantsForSlot` asserts is not
  implemented by `*block.Blockchain`; participants are the discovered peers
  and the node itself. Discovered peers are never forgotten.

## 3. Runs

| Run | Question | Bounds, and why they are enough |
|---|---|---|
| `chain_store` | Is the tree rooted, are tips heads, is the main head a longest chain, does the store implement DurableTree? | a genesis, branches of two and of one block, a second genesis and a wrong index; two savers; `MaxBlocks` bounds the array and `MaxCopies` the entries of one head. All forks of two branches, every order, a crash between any two rows |
| `saved_flags` (violated) | Do saved flags mark the main chain? | one saver |
| `engine` | On a node that is no master: array = main chain when undisturbed, nothing heard is lost, broadcasts are durable, the writers together keep the store's promise | a chain of three, a fork of the node's own block, a wrong index; `Requests = 1`; `MaxMissed = 3` as in the code |
| `engine_master` | Is a pending block placed in the end? | a master, a chain of four and a fork at its first block. Peers broadcast the fork and the two upper blocks, in every order; the block in between comes through the synchronisation, beside the engine, so that a reconciliation finds a longer chain to reorganize to while the fork waits beside that chain and a block waits above it. `MaxMissed = 1` shortens requests that find nothing |
| `engine_race` (violated) | Is the array always the main chain? | one follower, one own block |
| `override` | No send on a closed channel, success has a witness, the call returns | two peers, `ChanSize = 1` so that it fills up (ten in the code, more peers there) |
| `override_acks` (violated) | Does "all" mean all? | two peers, the real channel size |
| `slots` | One creator per slot and view, one block per slot and node, reports kept, slots only advance | two nodes, three slots of two ticks, skew of one tick, one correction each; history of two slots so that cleaning happens; work at a slot's start ends in the slot |
| `slot_views` (violated) | One creator per slot? | two nodes, two slots |
| `slot_crossing` (violated) | One creator per slot and view, if work crosses the slot's end? | two nodes, three slots |
| `network` | One goroutine per link, stored links watched, no leaks, no peer forgotten, broken links go, a stop is final, the broadcast returns, at most one late accepted connection | one peer: links of different peers share only `Stop` and the end of a broadcast, and the theorems of section 4 speak of any number; two attempts per dialer (three in the code), three lives, so that a redialed link breaks again; two inbound connections that are opened again after they end. The last life's connection does not break and, after a stop, is not probed: there is no further life to go to |
| `api` | Are majority blocks linked and in the answer, is the answer complete? | three nodes on two branches of three blocks, `n = 2`, one change of a chain during the query |

`CHECK_DEADLOCK FALSE` stands where one finite activity is followed to its end
(an override, a query), a bound on time stops the model (slots), or a node
stops and its lives are used up (network).

What the five violated runs show is in the findings of
`PROJECT.json`, each with the line of the code and the words it contradicts:
stale `is_main_chain` flags after a switch to an ancestor; an override between
`GetLatestBlock` and `AddBlock`; answers counted instead of nodes; validators
chosen from different views, and for a different slot than the handler works
on. Real slots take ten minutes and the broadcast up to ten seconds, so the
last one happens when a node starts just before the end of a slot.

### Exceptions the properties state

* `MainHeadIsLongest` excepts the blocks longer than the head that the last
  switch passed over: choosing a shorter chain is what an override is for. It
  holds of all that is added afterwards, and of everything again after a restart.
* `MainChainUndisturbed` excepts histories in which an unlocked writer came
  inside a block creation (`engine_race` shows why) or the synchronisation
  added a block off the main chain, which `AddBlock` appends to the array.
* `NothingHeardIsLost` excepts blocks at an index of a chain this node
  reorganized to: `cleanupStaleBlocks` takes them off the pending map although
  they might be placed as a fork, or although they are of that chain and their save
  has failed. A block that is neither in the tree nor pending has lost its index
  to another block of such a chain. Only the master reorganizes, so in the run
  `engine` there is no exception; the theorem covers the master.
  `PendingIsPlaced` has the same exception, in a run where it happens.
* `ReportsAreKept` speaks of the slots within the history, less the one that
  is the reserve for a clock set back.
* `CaredForOrGivenUp` excepts peers whose dialer failed every attempt: the code
  gives them up. It speaks of the time before a stop.
* `AtMostOneLate` allows one accepted connection that `Stop` does not close: it
  was accepted before the listener closed and put on the list afterwards. It
  stays until the peer closes it.
* `MajorityLinks` asks for one vote more than two majorities for each response
  that holds both neighbours and comes from a node that changed its branch while
  it was read; other mixed responses cost nothing. `FullAnswer` excepts chains
  that became shorter. Without either exception TLC finds a counterexample.
* `OneCreatorPerView` and the properties of slots that follow it assume, in the
  run `slots`, that the work at a slot's start ends within the slot; without that
  `slot_crossing` refutes it. `Adjust` moves a clock by one tick, any number of
  times in a row; `MaxAdjust` bounds the sum, while the code bounds nothing.

### Fairness

Only for what the code's own goroutines do once they run. In Engine the holder
of `ce.mutex` goes on (no step under it waits for anything but
`Blockchain.mutex`, held for one step), and the ticker of the pending pass
gets the mutex in the end (`sync.Mutex` does not starve a waiter, hence SF);
nothing is assumed of peers, of a validator or of the success of a save beyond
the fact that the pass is repeated. In MasterOverride the sender's steps, its
timer and the bridge's non-blocking send; nothing of peers or the network. In
Network: the goroutine that cares for a peer's link goes on (a dial ends by its
timeout, the minute between two checks passes, a closed stop channel is always
ready), the two goroutines of a broadcast and its timer go on, and a write with
a deadline ends. A write without a deadline may wait for ever, no peer is assumed
to read, to break or to repair a connection, and nobody is assumed to call `Stop`.

## 4. Proofs

All safety properties of the passing runs are theorems; what stays with TLC is
at the end of this section.

`BlockTreeTheorems` proves lemmas about paths, ancestors, connected sets, tips
and longest blocks for every universe of blocks: a path ends in its block, the
ancestors of an ancestor are ancestors, a chain has one block of each depth,
connected sets are closed, a non-empty bounded set has a longest block and a
longest tip is a longest block. `ChainTreeTheorems` proves of each action of
ChainTree what it keeps: the rooted tree with its tips among the heads
(`TreeInv`) and, for the actions that follow the main head, the array as the main
chain and the exact fork count (`MainChainInv`). Both modules that extend
ChainTree cite these lemmas.

`BlockchainProofs` proves, for every universe of blocks that satisfies
`BlockAssumption` (hashes have no cycles) and every set of savers and bounds
that satisfies `BlockchainAssumption`:

| Theorem | Says |
|---|---|
| `TypeCorrect` | types; counts in `Heads` never go below zero |
| `AlwaysTreeRooted` | one root, closed under parents, index = depth |
| `AlwaysTipsAreHeads` | no tip is missing from `Heads` |
| `AlwaysLatestIsMainHead` | `LatestHash` and `MainHead` agree |
| `AlwaysMainHeadIsLongest` | the head is a longest chain, but for what the last switch passed over |
| `AlwaysGenesisIsPermanent` | the saved genesis is never replaced |
| `Refinement` | Blockchain implements DurableTree |

The argument is one inductive invariant, `IInv`. The properties alone are not
inductive: a load builds the tree from the rows, so the rows must be known to
hold whole branches (`RowsAreTrees`); a finished save must have covered what
it acknowledges, also when another saver inserted half of the rows
(`SavesCoverTree`, `AckedIsSafe`); nothing is in memory while the process is
down (`DownIsEmpty`); and indices are depths (`IndicesBounded`, from which the
longest head after a load is a longest block). One step per action, and under
it one per conjunct it can disturb. `Refinement` needs the invariant to show
that a load recovers a rooted superset of what was committed.

`EngineProofs` proves, for every universe of blocks and every `MaxMissed` and
number of requests (`EngineAssumption`):

| Theorem | Says |
|---|---|
| `EngineTypeCorrect` | types; one holder of `ce.mutex`, in one of its methods; what is on disk is in the tree |
| `EngineTreeRooted` | the tree is rooted, its tips are in `Heads`, `LatestHash` is the main head |
| `AlwaysMainChainUndisturbed` | undisturbed, the array is the main chain and the fork count exact |
| `AlwaysNothingHeardIsLost` | an accepted block is on disk or pending, in the tree or pending, unless a chain this node reorganized to overtook it |
| `AlwaysBroadcastIsDurable` | what was announced is on disk with its ancestors |
| `WritersLearnAndCommit` | every step of every writer is one DurableTree allows |

Its `IInv` adds to these properties what a writer may rely on when it comes back
to the tree after another one has been there. `HolderOK`: the block it has
placed is still in the tree, the block it is about to place fits below its
parent, what a pass has taken off its list is on disk, the two chains of a
reorganization are still chains of the tree (nothing is ever removed). `SyncOK`:
the block the synchronisation is about to add follows its parent's index, which
`AddBlock` does not check; without it indices are not depths. `CreationOK`:
while no unlocked writer has come in between, the parent of the block under
creation is the main head. `WritersLearnAndCommit` needs `TreeInv` to show that
a new root comes into an empty tree only.

`MasterOverrideProofs` proves, for any finite set of peers and any size of the
response channel (`OverrideAssumption`):

| Theorem | Says |
|---|---|
| `OverrideTypeCorrect` | types, with the bounds on copies, goroutines, answers and the channel |
| `NeverSendsOnClosed` | no send on the closed response channel |
| `VerdictsHaveWitnesses` | a success verdict rests on a peer that followed the master |

The inductive invariant, `OverrideInv`, has four arguments beside the types.
`Lifetimes`: the bridge sends only under `overrideMutex` and for a request that
is still in the map, and the sender closes the channel only after it removed
the request under the mutex. `Evidence`: wherever an answer is (on its way, at
the bridge, in the channel, counted), a success comes from a peer that followed.
`Quiet`: a command sent to nobody is answered by nobody. Without it a sender
that expects zero answers might count a failure and report that all agreed; it
holds as `getConnectedPeerCount` is read after the broadcast and peers are never
forgotten. `Budget`: a queued command becomes one copy for a peer at most, and a
copy one goroutine or one answer, so per peer there are never more of them than
commands sent.

`NetworkProofs` proves, for any finite sets of peers and inbound connections and
any number of attempts and lives (`LinksAssumption`, `NetworkAssumption`):

| Theorem | Says |
|---|---|
| `NetworkTypeCorrect` | types; no dialer fails more often than it may try |
| `AlwaysOneCaretaker` | one goroutine at a time cares for a peer's link |
| `AlwaysStoredIsWatched` | a stored connection is watched by its own watcher |
| `NeverLeaks` | an open connection is stored, or about to be |
| `AlwaysCaredFor` | a known peer is cared for or was given up |
| `OneLateConnection` | `Stop` leaves at most one accepted connection open |

The inductive invariant is `NetworkInv`. The four properties of links depend on
each other: two watchers would close each other's connection, so that what is
stored has no watcher, and a connection that is no longer stored leaks. Beside
them it needs that an unknown peer has no life (`UnknownIsUntouched`), or
discovery might start a second one; that an unborn life is untouched
(`FreshLives`); that a dialer in its loop has attempts left (`DialersMayDial`);
and that a watcher stops only after the signal (`OnlyStopStops`), or a peer
might be dropped by a running node. `OneLate` says where an open accepted
connection may be while `Stop` runs: on the list, which the sweep empties, or
in the hands of the acceptor, which after the sweep leaves its loop with the
next look at `isRunning`.

`SlotsProofs` proves, for any finite set of nodes, any hash, length and number
of slots, skew and history (`SlotsAssumption`):

| Theorem | If | Says |
|---|---|---|
| `SlotsTypeCorrect` | | types; a sleep is never longer than a slot |
| `AlwaysOneCreatorPerView` | `OnTime` | one creator per slot and set of participants |
| `AlwaysOneBlockPerSlot` | `OnTime`, `SmallCorrections` | one try of a node at the block of a slot |
| `AlwaysSlotsOnlyAdvance` | `OnTime`, `SmallCorrections` | a monitor never goes back to a slot |
| `AlwaysReportsAreKept` | `SmallCorrections` | no report of a slot in use is cleaned away |

`OnTime`: the work at the start of a slot ends within the slot; `slot_crossing`
shows that `OneCreatorPerView` needs it. `SmallCorrections`: the corrections of
one clock set it back by at most one slot in all. Real slots take ten minutes,
the offsets NTP corrects are of seconds. The bound is tight for
`SlotsOnlyAdvance`: with slots of two ticks TLC finds no violation for
corrections of two ticks and one for three. The inductive invariant relates each
goroutine to the clock it last looked at: a monitor that works does so on the
current slot (`WorkOK`); a sleeping one wakes, but for the corrections,
after the end of its slot, and all that was started before is for older slots
(`AdvanceOK`); handlers run, and blocks are created, where the choice falls for
the participants the monitor saw (`ChoiceOK`); and a report that has arrived is in
the map, or the clock has been a whole history further (`HistoryOK`).

`ApiProofs` proves, for any finite set of nodes, any `n` from 1 to 100 and any
number of changes during the query (`ApiAssumption`):

| Theorem | Says |
|---|---|
| `ApiTypeCorrect` | types; no height is below zero |
| `AlwaysMajorityLinks` | neighbours whose votes exceed two majorities by the torn responses are parent and child |
| `AlwaysMajorityWins` | what a majority had and kept is the answer at its index |
| `AlwaysFullAnswer` | all answered, none shrank: exactly `min(n, height + 1)` blocks, none missing |

The answer is selected after the last node has read its last block, so the
invariant keeps what each node has read so far: one block per index, all of
the chain it had if it only appended to it (`ReadOK`, `TrailOK`), and a block
for every index it has passed if no chain shrank and it reported the consensus
height, which some node did (`CoverOK`). Two majorities meet in one node, and
what one node read has one block of an index: so no second block can win. If
only torn responses held both of two neighbours, their votes would add up to at
most the nodes and those responses (`SteadyVoter`); so a node that only appended
read both, from one chain, and they are linked. `ChainAssumption`, that an index is the distance to the
root, is what `EngineTreeRooted` and `AlwaysTreeRooted` prove of the nodes the
blocks come from.

Each inductive invariant was an invariant of its component's runs before it was
proved.

Only model-checked are the liveness properties: that a pending block is placed
(`PendingIsPlaced`), that an override returns (`SenderReturns`), that broken links
go (`BrokenIsRemoved`), that a stop is final (`StopIsFinal`) and that a broadcast
returns (`BroadcastReturns`). ENABLED is out of the prover's reach, and so is
induction over data: what `Path` computes is an assumption with its defining
equation, not a recursion proved by induction, and an induction over its length
is an appeal to a smallest counterexample (`MinimalBlock`).

## 5. Not modelled

* Cryptography and the format of blocks and messages (`account`, parts of
  `block`), the logger, the client, the API command.
* The **weather service**: a timer that every half hour asks HTTP sources, with
  retries and fallbacks, and stores the answer. The node only reads its latest
  row, by timestamp; Slots takes from it whether there is one. Its values and
  their age decide nothing in the protocol.
* The two **block channels** and mDNS: in Engine a block may never be heard of,
  which is what a full channel, a lost connection or an undiscovered peer comes
  to.
* **Code nothing reaches** with this network node: `detectConsensusFailure`,
  `handleConsensusFailure`, `resolveForks`, `followMasterNodeChain`,
  `disableMasterNodeAuthority`, emergency synchronisation, validator removal,
  `ReplaceChain` and `IsBlockchainValid`.
* The epochs of validator selection (they feed log lines) and the start of the
  NTP sources.
* `IsTimeValid` against the wait for `ce.mutex`: Engine has no clock, a refused
  block is one it does not receive.

Each component's entry in `PROJECT.json` says what is left out of it.

## 6. Plan

Order of work, the most important behaviour first; the first six are done.

1. Block tree, database, crashes, refinement, with proofs.
2. Engine with its unlocked writers.
3. Master override, with proofs.
4. Slots and validators; the API's majority answer.
5. Network: proactive and accepted connections, health checks, the weather
   broadcast and `Stop`, with proofs.
6. Proofs of the safety of Engine, Slots and Api, and of the writers' steps as
   steps of DurableTree.
7. Composition: nodes with an Engine each that broadcast blocks to one another
   and lose some; what stays in agreement although a missed block is never
   fetched.
