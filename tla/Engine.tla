-------------------------------- MODULE Engine --------------------------------
(***************************************************************************)
(* The goroutines of one node that write its block tree:                   *)
(*   - the network bridge, calling ReceiveBlock for each incoming block;   *)
(*   - the pending-block processor, every five seconds;                    *)
(*   - the slot monitor, creating a block when the node is the validator;  *)
(*   - on the master node, the reconciliation after a network recovery;    *)
(*   - startNetworkSync on a node that started without blocks;             *)
(*   - the goroutine a master override starts.                             *)
(* The first four run under ce.mutex; the last two only take               *)
(* Blockchain.mutex, so their steps fall between the steps of the others.  *)
(* Every step here is one critical section of Blockchain.mutex.  A save    *)
(* either stores the whole tree or fails (Blockchain has the rows).        *)
(***************************************************************************)
EXTENDS ChainTree

CONSTANTS
    Foreign,    \* blocks other nodes create
    Offered,    \* those of them that peers broadcast
    Own,        \* blocks this node may create
    Root,       \* the genesis a node that is not joining starts with
    IsMaster,   \* this node created the genesis block
    Starts,     \* ways to start: with a chain ("loaded"), without ("joining")
    Requests,   \* bound: RequestBlockchainFromPeer calls of one SyncWithPeers
    MaxMissed   \* consecutive blocks a peer may lack before a request ends

ASSUME EngineAssumption ==
    /\ Foreign \cup Own \subseteq Block /\ Offered \subseteq Foreign
    /\ Root \in Foreign /\ IsGenesis(Root)
    /\ IsMaster \in BOOLEAN
    /\ Starts \subseteq {"loaded", "joining"}
    /\ Requests \in Nat /\ MaxMissed \in Nat \ {0}

VARIABLES
    holder,    \* who holds ce.mutex, and how far it is
    pending,   \* the keys of pendingBlocks
    sync,      \* the progress of SyncWithPeers
    stored,    \* the blocks on disk
    sent,      \* history: blocks this node has broadcast
    heard,     \* history: blocks ReceiveBlock returned nil for
    disturbed, \* history: an unlocked writer hit a block creation, or the
               \* sync added a block that does not extend the main chain
    reorganized \* history: the heads performChainReorganization switched to

vars == <<genesis, blockByHash, heads, mainHead, blocks, latestHash,
          holder, pending, sync, stored, sent, heard, disturbed, reorganized>>

Free == [by |-> "free"]
Receiving(b, pc) == [by |-> "receive", block |-> b, pc |-> pc]
Creating(b, pc) == [by |-> "create", block |-> b, pc |-> pc]
Passing(left, b, done) == [by |-> "pass", left |-> left, block |-> b, done |-> done]

Reconciling(pc, from, to) == [by |-> "reconcile", pc |-> pc, from |-> from, to |-> to]

NoSync == [pc |-> "off", left |-> 0, index |-> 0, missed |-> 0, block |-> NoBlock]

HolderTypeOK ==
    \/ holder = Free
    \/ \E b \in Block, pc \in {"try", "save"} : holder = Receiving(b, pc)
    \/ \E b \in Own, pc \in {"add", "save"} : holder = Creating(b, pc)
    \/ \E left, done \in SUBSET pending, b \in Block \cup {NoBlock} : holder = Passing(left, b, done)
    \/ \E from, to \in Block \cup {NoBlock}, pc \in {"forks", "switch", "reorganize", "apply", "save"} :
         holder = Reconciling(pc, from, to)

TypeOK ==
    /\ TreeTypeOK /\ HolderTypeOK
    /\ pending \subseteq Block /\ stored \subseteq blockByHash
    /\ sync \in [pc : {"off", "ask", "add", "save"}, left : 0..Requests, index : Nat,
                 missed : 0..(MaxMissed - 1), block : Block \cup {NoBlock}]
    /\ sent \subseteq Block /\ heard \subseteq Block /\ disturbed \in BOOLEAN
    /\ reorganized \subseteq Block

LoadedTree ==
    /\ genesis = Root /\ mainHead = Root /\ latestHash = Root
    /\ blockByHash = {Root} /\ blocks = <<Root>>
    /\ heads = [b \in Block |-> IF b = Root THEN 1 ELSE 0]

Init ==
    /\ \/ "loaded" \in Starts /\ LoadedTree /\ sync = NoSync
       \/ "joining" \in Starts /\ EmptyTree /\ sync = [NoSync EXCEPT !.left = Requests]
    /\ holder = Free /\ pending = {} /\ stored = blockByHash
    /\ sent = {} /\ heard = {} /\ disturbed = FALSE /\ reorganized = {}

------------------------------------------------------------------------------
Lock(next) == holder = Free /\ holder' = next

SaveToDisk == stored' = blockByHash
SaveFails == stored' = stored

(* TryAddBlockWithForkResolution returns nil, at once for a known block.   *)
Accepts(b) == b \in blockByHash \/ (HasParent(b) /\ IndexFollows(b))
Place(b) ==
    \/ TryAddBlockWithForkResolution(b)
    \/ b \in blockByHash /\ UNCHANGED treeVars

------------------------------------------------------------------------------
(* ReceiveBlock of a block whose time and signature are valid and that     *)
(* GetBlockByHash does not find.  Other calls change nothing.  A node's own*)
(* blocks come back when it has broadcast them.                            *)
ReceiveBegin(b) ==
    /\ ~InBlocks(b)
    /\ Lock(Receiving(b, "try"))
    /\ UNCHANGED <<treeVars, pending, sync, stored, sent, heard, disturbed, reorganized>>

ReceiveTry ==
    /\ holder.by = "receive" /\ holder.pc = "try"
    /\ Accepts(holder.block)
    /\ Place(holder.block)
    /\ holder' = Receiving(holder.block, "save")
    /\ UNCHANGED <<pending, sync, stored, sent, heard, disturbed, reorganized>>

(* Any failure parks the block, a wrong index as well as a missing parent. *)
(* The range request for the gap is answered on a connection its sender    *)
(* has closed already (network_manager.go), so it brings no block.         *)
Parked_GapOnly(b) == IF HasParent(b) THEN pending ELSE pending \cup {b}
Parked(b) == pending \cup {b}
ReceivePark ==
    /\ holder.by = "receive" /\ holder.pc = "try"
    /\ ~Accepts(holder.block)
    /\ pending' = Parked(holder.block)
    /\ heard' = heard \cup {holder.block}
    /\ holder' = Free
    /\ UNCHANGED <<treeVars, sync, stored, sent, disturbed, reorganized>>

(* A failed save is reported to the caller; the block stays in the tree.   *)
ReceiveSave ==
    /\ holder.by = "receive" /\ holder.pc = "save"
    /\ \/ SaveToDisk /\ heard' = heard \cup {holder.block}
       \/ SaveFails /\ heard' = heard
    /\ holder' = Free
    /\ UNCHANGED <<treeVars, pending, sync, sent, disturbed, reorganized>>

------------------------------------------------------------------------------
(* processPendingBlocks: one pass over the map, in random order, without   *)
(* giving ce.mutex up.                                                     *)
PassBegin ==
    /\ pending # {}
    /\ Lock(Passing(pending, NoBlock, {}))
    /\ UNCHANGED <<treeVars, pending, sync, stored, sent, heard, disturbed, reorganized>>

PassTry ==
    /\ holder.by = "pass" /\ holder.block = NoBlock
    /\ \E b \in holder.left :
         \/ /\ Accepts(b)
            /\ Place(b)
            /\ holder' = Passing(holder.left \ {b}, b, holder.done)
         \/ /\ ~Accepts(b)
            /\ holder' = Passing(holder.left \ {b}, NoBlock, holder.done)
            /\ UNCHANGED treeVars
    /\ UNCHANGED <<pending, sync, stored, sent, heard, disturbed, reorganized>>

(* Only a block that was placed and saved will leave the map.              *)
Processed_Always(saved) == holder.done \cup {holder.block}
Processed(saved) == IF saved THEN holder.done \cup {holder.block} ELSE holder.done
PassSave ==
    /\ holder.by = "pass" /\ holder.block # NoBlock
    /\ \/ SaveToDisk /\ holder' = Passing(holder.left, NoBlock, Processed(TRUE))
       \/ SaveFails /\ holder' = Passing(holder.left, NoBlock, Processed(FALSE))
    /\ UNCHANGED <<treeVars, pending, sync, sent, heard, disturbed, reorganized>>

Remaining_NotTried(done) == {}
Remaining(done) == pending \ done
PassEnd ==
    /\ holder.by = "pass" /\ holder.block = NoBlock /\ holder.left = {}
    /\ pending' = Remaining(holder.done)
    /\ holder' = Free
    /\ UNCHANGED <<treeVars, sync, stored, sent, heard, disturbed, reorganized>>

------------------------------------------------------------------------------
(* createNewBlockWithWeatherData: the new block names GetLatestBlock as    *)
(* its parent.  Its timestamp makes its hash new.                          *)
Builds_AnyKnown(b) == Prev[b] \in blockByHash
Builds(b) == LatestBlock # NoBlock /\ Prev[b] = LatestBlock
CreateBegin(b) ==
    /\ Builds(b) /\ IndexFollows(b)
    /\ b \notin blockByHash
    /\ Lock(Creating(b, "add"))
    /\ UNCHANGED <<treeVars, pending, sync, stored, sent, heard, disturbed, reorganized>>

CreateAdd ==
    /\ holder.by = "create" /\ holder.pc = "add"
    /\ AddBlock(holder.block)
    /\ holder' = Creating(holder.block, "save")
    /\ UNCHANGED <<pending, sync, stored, sent, heard, disturbed, reorganized>>

(* BroadcastBlock follows a successful save; after a failed one the method *)
(* returns, and the block is known to this node only.                      *)
SentAfterSave_Always(saved) == sent \cup {holder.block}
SentAfterSave(saved) == IF saved THEN sent \cup {holder.block} ELSE sent
CreateSave ==
    /\ holder.by = "create" /\ holder.pc = "save"
    /\ \/ SaveToDisk /\ sent' = SentAfterSave(TRUE)
       \/ SaveFails /\ sent' = SentAfterSave(FALSE)
    /\ holder' = Free
    /\ UNCHANGED <<treeVars, pending, sync, heard, disturbed, reorganized>>

------------------------------------------------------------------------------
(* SyncWithPeers asks one peer after the other, each from index            *)
(* len(Blocks) on, and adds what it gets with AddBlockWithAutoSave.        *)
SyncBegin ==
    /\ sync.pc = "off" /\ sync.left > 0
    /\ sync' = [sync EXCEPT !.pc = "ask", !.left = @ - 1, !.index = Len(blocks), !.missed = 0]
    /\ UNCHANGED <<treeVars, holder, pending, stored, sent, heard, disturbed, reorganized>>

(* The answer: a block of the peer's chain, no block, or a broken          *)
(* connection.  Whether the peer's chain changes between two requests is   *)
(* left open.                                                              *)
SyncFound(b) ==
    /\ sync.pc = "ask"
    /\ Index[b] = sync.index /\ (IsGenesis(b) \/ IndexFollows(b))
    /\ sync' = [sync EXCEPT !.pc = "add", !.block = b, !.missed = 0]
    /\ UNCHANGED <<treeVars, holder, pending, stored, sent, heard, disturbed, reorganized>>

MayMissMore_OneMore(missed) == missed < MaxMissed
MayMissMore(missed) == missed + 1 < MaxMissed
SyncMissed ==
    /\ sync.pc = "ask"
    /\ sync' = IF MayMissMore(sync.missed)
               THEN [sync EXCEPT !.missed = @ + 1, !.index = @ + 1]
               ELSE [NoSync EXCEPT !.left = sync.left]
    /\ UNCHANGED <<treeVars, holder, pending, stored, sent, heard, disturbed, reorganized>>

SyncBroken ==
    /\ sync.pc = "ask"
    /\ sync' = [NoSync EXCEPT !.left = sync.left]
    /\ UNCHANGED <<treeVars, holder, pending, stored, sent, heard, disturbed, reorganized>>

SyncNext == [sync EXCEPT !.pc = "ask", !.index = @ + 1, !.block = NoBlock]

SyncAdd ==
    /\ sync.pc = "add"
    /\ \/ /\ AddGenesis(sync.block) \/ AddBlock(sync.block)
          /\ sync' = [sync EXCEPT !.pc = "save"]
          /\ disturbed' = \/ disturbed
                          \/ holder.by = "create"
                          \/ sync.block \in blockByHash
                          \/ genesis # NoBlock /\ Prev[sync.block] # mainHead
       \/ /\ IF genesis = NoBlock THEN ~IsGenesis(sync.block) ELSE ~HasParent(sync.block)
          /\ sync' = SyncNext
          /\ UNCHANGED <<treeVars, disturbed>>
    /\ UNCHANGED <<holder, pending, stored, sent, heard, reorganized>>

SyncSave ==
    /\ sync.pc = "save"
    /\ SaveToDisk \/ SaveFails
    /\ sync' = SyncNext
    /\ UNCHANGED <<treeVars, holder, pending, sent, heard, disturbed, reorganized>>

------------------------------------------------------------------------------
(* performConsensusReconciliation: identifyAndResolveForks, then           *)
(* performChainReorganization.  Each reads the array, then the heads, and  *)
(* switches later, and the sync may add blocks in between.  The chain      *)
(* status requests and the range requests around them change nothing:      *)
(* network.Node does not implement the first and loses the answers to the  *)
(* second.                                                                 *)
ReconcileBegin ==
    /\ IsMaster /\ genesis # NoBlock
    /\ Lock(Reconciling("forks", NoBlock, NoBlock))
    /\ UNCHANGED <<treeVars, pending, sync, stored, sent, heard, disturbed, reorganized>>

InHeads == {b \in Block : heads[b] > 0}
SeveralHeads == Cardinality(InHeads) > 1 \/ \E b \in InHeads : heads[b] > 1

(* The heads longer than the block the array ended with.  The work of a    *)
(* chain is its head's index, so equal heights never reorganize.           *)
Better(from) == IF SeveralHeads THEN {b \in Longest(InHeads) : Index[b] > Index[from]} ELSE {}

(* GetLatestBlock, with which both methods begin.                          *)
ReconcileLatest ==
    /\ holder.by = "reconcile" /\ holder.pc \in {"forks", "reorganize"} /\ holder.from = NoBlock
    /\ holder' = Reconciling(holder.pc, LatestBlock, NoBlock)
    /\ UNCHANGED <<treeVars, pending, sync, stored, sent, heard, disturbed, reorganized>>

ReconcileForks ==
    /\ holder.by = "reconcile" /\ holder.pc = "forks" /\ holder.from # NoBlock
    /\ \/ \E b \in Better(holder.from) : holder' = Reconciling("switch", holder.from, b)
       \/ Better(holder.from) = {} /\ holder' = Reconciling("reorganize", NoBlock, NoBlock)
    /\ UNCHANGED <<treeVars, pending, sync, stored, sent, heard, disturbed, reorganized>>

ReconcileSwitch ==
    /\ holder.by = "reconcile" /\ holder.pc = "switch"
    /\ SwitchToChain(holder.to)
    /\ holder' = Reconciling("reorganize", NoBlock, NoBlock)
    /\ UNCHANGED <<pending, sync, stored, sent, heard, disturbed, reorganized>>

ReconcileReorganize ==
    /\ holder.by = "reconcile" /\ holder.pc = "reorganize" /\ holder.from # NoBlock
    /\ \/ \E b \in Better(holder.from) : holder' = Reconciling("apply", holder.from, b)
       \/ Better(holder.from) = {} /\ holder' = Free
    /\ UNCHANGED <<treeVars, pending, sync, stored, sent, heard, disturbed, reorganized>>

(* executeChainReorganization: the blocks rolled back and the blocks       *)
(* applied leave pendingBlocks, then the chain is switched and saved.      *)
RolledBack(from, to) == Ancestors(from) \ Ancestors(to)
Applied(from, to) == Ancestors(to) \ Ancestors(from)
ReconcileApply ==
    /\ holder.by = "reconcile" /\ holder.pc = "apply"
    /\ pending' = pending \ (RolledBack(holder.from, holder.to) \cup Applied(holder.from, holder.to))
    /\ SwitchToChain(holder.to)
    /\ holder' = Reconciling("save", holder.from, holder.to)
    /\ reorganized' = reorganized \cup {holder.to}
    /\ UNCHANGED <<sync, stored, sent, heard, disturbed>>

(* cleanupStaleBlocks gives up the pending blocks whose index the new chain*)
(* has already; then the new head is broadcast.                            *)
Stale_NotOnChain(to) == pending \ Ancestors(to)
Stale(to) == {b \in pending : \E c \in Ancestors(to) : Index[c] = Index[b] /\ c # b}
ReconcileSave ==
    /\ holder.by = "reconcile" /\ holder.pc = "save"
    /\ \/ /\ SaveToDisk
          /\ pending' = pending \ Stale(holder.to)
          /\ sent' = sent \cup {holder.to}
       \/ SaveFails /\ UNCHANGED <<pending, sent>>
    /\ holder' = Free
    /\ UNCHANGED <<treeVars, sync, heard, disturbed, reorganized>>

------------------------------------------------------------------------------
(* performMasterOverrideChainSync finds the canonical block in the tree    *)
(* and switches to it, without ce.mutex and without a save.                *)
Override(b) ==
    /\ ~IsMaster
    /\ SwitchToChain(b)
    /\ disturbed' = (disturbed \/ holder.by = "create")
    /\ UNCHANGED <<holder, pending, sync, stored, sent, heard, reorganized>>

------------------------------------------------------------------------------
Receive == (\E b \in Offered \cup sent : ReceiveBegin(b)) \/ ReceiveTry \/ ReceivePark \/ ReceiveSave
Create == (\E b \in Own : CreateBegin(b)) \/ CreateAdd \/ CreateSave
Pass == PassBegin \/ PassTry \/ PassSave \/ PassEnd
Sync == SyncBegin \/ (\E b \in Foreign : SyncFound(b)) \/ SyncMissed \/ SyncBroken
          \/ SyncAdd \/ SyncSave

Reconcile == ReconcileBegin \/ ReconcileLatest \/ ReconcileForks \/ ReconcileSwitch
               \/ ReconcileReorganize \/ ReconcileApply \/ ReconcileSave

Next == Receive \/ Create \/ Pass \/ Sync \/ Reconcile \/ \E b \in Block : Override(b)

(* Whoever holds ce.mutex goes on: no step under it waits for anything but *)
(* Blockchain.mutex, which is held for one step.  The ticker of the pending*)
(* processor keeps asking for ce.mutex, and sync.Mutex does not let a      *)
(* waiter starve.  Nothing obliges a peer, a validator or a master to act. *)
Fairness ==
    /\ WF_vars(ReceiveTry \/ ReceivePark \/ ReceiveSave \/ CreateAdd \/ CreateSave)
    /\ WF_vars(ReconcileLatest \/ ReconcileForks \/ ReconcileSwitch \/ ReconcileReorganize
                 \/ ReconcileApply \/ ReconcileSave)
    /\ WF_vars(PassTry \/ PassSave \/ PassEnd)
    /\ SF_vars(PassBegin)

Spec == Init /\ [][Next]_vars /\ Fairness

------------------------------------------------------------------------------
(* Without an unlocked writer inside a block creation, and without a sync  *)
(* off the main chain, the legacy array is the main chain, so that         *)
(* GetLatestBlock is the main head a new block must extend, and GetForkCount *)
(* is the number of tips the failure detection compares with its threshold.*)
MainChainUndisturbed == ~disturbed => BlocksAreMainChain /\ ForkCountIsExact

(* A reorganization of this node chose a chain that reaches b's index: the *)
(* only reason for which b may be dropped.                                 *)
Overtaken(b) == \E h \in reorganized : \E c \in Ancestors(h) : Index[c] = Index[b]

(* A block ReceiveBlock has taken is on disk or still waits in             *)
(* pendingBlocks to be placed and saved again, whatever the order of       *)
(* arrival, however many saves fail and whoever else writes the tree.  Only*)
(* a reorganization takes a block off that map unsaved: one whose index its*)
(* chain reaches, and one it leaves out of the tree altogether only for    *)
(* another block of that index.                                            *)
NothingHeardIsLost ==
    \A b \in heard :
        /\ b \in stored \cup pending \/ Overtaken(b)
        /\ \/ b \in blockByHash \cup pending
           \/ \E h \in reorganized : \E c \in Ancestors(h) : Index[c] = Index[b] /\ c # b

(* What peers have been told survives a crash of this node: a block is on  *)
(* disk, with its ancestors, before it is broadcast.                       *)
BroadcastIsDurable == \A b \in sent : Ancestors(b) \subseteq stored

(* Six writers with two locks between them still keep the promise of one   *)
(* store: the tree learns one block at a time, a root only when it is empty*)
(* and any other block below its parent, and a save commits all it knows,  *)
(* however the critical sections of the writers fall.                      *)
Durable == INSTANCE DurableTree
             WITH running <- TRUE, known <- blockByHash, committed <- stored
LearnsAndCommits == [][Durable!DurableNext]_(Durable!durableVars)

(* b hangs on the local genesis by blocks that are in the tree or pending. *)
Placeable(b) ==
    /\ b \in pending
    /\ Path[b][1] \in blockByHash
    /\ \A c \in Ancestors(b) : c \in blockByHash \/ (c \in pending /\ IndexFollows(c))

(* Blocks that arrived in any order are placed once the gap is closed,     *)
(* unless a reorganization has given them up first.                        *)
PendingIsPlaced ==
    \A b \in Block :
        Placeable(b) ~> \/ b \in blockByHash
                        \/ b \notin pending /\ Overtaken(b)
==============================================================================
