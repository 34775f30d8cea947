------------------------------ MODULE ChainTree ------------------------------
(***************************************************************************)
(* The in-memory half of block/blockchain.go: the tree of blocks, its      *)
(* heads, the main head and the "legacy" array.  Every action is one       *)
(* critical section of Blockchain.mutex.                                   *)
(*                                                                         *)
(* A call that fails validation or finds no parent returns an error and    *)
(* changes nothing; such a call is a stuttering step and has no action.    *)
(* A definition named X_How, placed just before X, is a deliberate mistake *)
(* in X: no specification uses it, the mutants of PROJECT.json do.         *)
(***************************************************************************)
EXTENDS BlockTree, Integers

VARIABLES
    genesis,      \* Genesis
    blockByHash,  \* the keys of BlockByHash
    heads,        \* how often each block occurs in Heads
    mainHead,     \* MainHead
    blocks,       \* Blocks, the legacy array
    latestHash    \* LatestHash

treeVars == <<genesis, blockByHash, heads, mainHead, blocks, latestHash>>

TreeTypeOK ==
    /\ genesis \in Block \cup {NoBlock}
    /\ blockByHash \in SUBSET Block
    /\ heads \in [Block -> Nat]
    /\ mainHead \in Block \cup {NoBlock}
    /\ blocks \in Seq(Block)
    /\ latestHash \in Block \cup {NoBlock}

(* NewBlockchain, and the reset at the start of loadBlocksFromDatabase.    *)
EmptyTree ==
    /\ genesis = NoBlock
    /\ blockByHash = {}
    /\ heads = [b \in Block |-> 0]
    /\ mainHead = NoBlock
    /\ blocks = << >>
    /\ latestHash = NoBlock

------------------------------------------------------------------------------
(* GetLatestBlock: the last entry of the legacy array.                     *)
LatestBlock == IF blocks = << >> THEN NoBlock ELSE blocks[Len(blocks)]

(* GetBlockByHash scans the legacy array, not the tree.                    *)
InBlocks(b) == \E i \in DOMAIN blocks : blocks[i] = b

(* BlockByHash[PrevHash] is found.                                         *)
HasParent_Unchecked(b) == Prev[b] # NoBlock
HasParent(b) == Prev[b] \in blockByHash

(* isLongerChain: strictly longer, or there is no main head.               *)
IsLonger_OnlyChild(b) == mainHead = NoBlock \/ Prev[b] = mainHead
IsLonger(b) == mainHead = NoBlock \/ Index[b] > Index[mainHead]

(* updateHeads: the first entry naming the parent is removed, if there is  *)
(* one, and the new block is appended.  heads counts entries because the   *)
(* order of the list only breaks ties between equally long chains.         *)
UpdatedHeads_OnlyNewest(b) == [c \in Block |-> IF c = b THEN 1 ELSE 0]
UpdatedHeads_Unchecked(b) ==
    [c \in Block |-> IF c = b THEN heads[c] + 1
                     ELSE IF c = Prev[b] THEN heads[c] - 1 ELSE heads[c]]
UpdatedHeads(b) ==
    [c \in Block |-> IF c = b THEN heads[c] + 1
                     ELSE IF c = Prev[b] /\ heads[c] > 0 THEN heads[c] - 1
                     ELSE heads[c]]

(* AddChild, the map entry and updateHeads.  Adding a hash that is already *)
(* present replaces the map entry by an object of the same hash.           *)
InsertIntoTree(b) ==
    /\ blockByHash' = blockByHash \cup {b}
    /\ heads' = UpdatedHeads(b)

------------------------------------------------------------------------------
(* AddBlock while Genesis is nil.                                          *)
MayBeGenesis_AnyTime(b) == IsGenesis(b)
MayBeGenesis(b) == genesis = NoBlock /\ IsGenesis(b)
AddGenesis(b) ==
    /\ MayBeGenesis(b)
    /\ genesis' = b
    /\ mainHead' = b
    /\ blockByHash' = blockByHash \cup {b}
    /\ heads' = [c \in Block |-> IF c = b THEN 1 ELSE 0]
    /\ blocks' = Append(blocks, b)
    /\ latestHash' = b

(* AddBlock afterwards.  Neither the index nor whether the block is known  *)
(* already is checked, and the array grows whether or not the block        *)
(* extends the main chain.                                                 *)
AddBlock(b) ==
    /\ genesis # NoBlock
    /\ HasParent(b)
    /\ InsertIntoTree(b)
    /\ mainHead' = IF IsLonger(b) THEN b ELSE mainHead
    /\ blocks' = Append(blocks, b)
    /\ latestHash' = mainHead'
    /\ UNCHANGED genesis

(* The array and LatestHash after TryAddBlockWithForkResolution.           *)
LatestAfterTry_Always(b) == b
LatestAfterTry(b) == IF IsLonger(b) \/ Prev[b] = mainHead THEN b ELSE latestHash
BlocksAfterTry(b) ==
    CASE IsLonger(b) -> Path[b]
      [] ~IsLonger(b) /\ Prev[b] = mainHead -> Append(blocks, b)
      [] OTHER -> blocks

(* TryAddBlockWithForkResolution of a block that is not known yet; a known *)
(* block is accepted without any change.                                   *)
TryAddBlockWithForkResolution(b) ==
    /\ b \notin blockByHash
    /\ HasParent(b)
    /\ IndexFollows(b)
    /\ InsertIntoTree(b)
    /\ mainHead' = IF IsLonger(b) THEN b ELSE mainHead
    /\ blocks' = BlocksAfterTry(b)
    /\ latestHash' = LatestAfterTry(b)
    /\ UNCHANGED genesis

(* SwitchToChain: its callers pass a block they found in the tree.  The    *)
(* heads are left alone, and the new head may be shorter than the old one. *)
SwitchToChain(b) ==
    /\ b \in blockByHash
    /\ mainHead' = b
    /\ blocks' = Path[b]
    /\ latestHash' = b
    /\ UNCHANGED <<genesis, blockByHash, heads>>

------------------------------------------------------------------------------
(* The tree has one root, it is closed under parents, and every index is   *)
(* the block's distance from the root: what GetPath, the index comparison  *)
(* of isLongerChain and the next block's index rely on.                    *)
TreeRooted ==
    /\ genesis = NoBlock <=> blockByHash = {}
    /\ \A b \in blockByHash :
         /\ Ancestors(b) \subseteq blockByHash
         /\ Path[b][1] = genesis
         /\ Index[b] + 1 = Len(Path[b])

(* No tip is ever forgotten: every block without children is in Heads, and *)
(* Heads names only blocks of the tree ("All chain tips", line 26).        *)
TipsAreHeads ==
    /\ \A b \in Tips(blockByHash) : heads[b] > 0
    /\ \A b \in Block : heads[b] > 0 => b \in blockByHash

(* LatestHash and MainHead always name the same block of the tree, though  *)
(* five methods assign them separately; getConsensusHeight of the peers    *)
(* and the height answers mix the two.                                     *)
LatestIsMainHead ==
    /\ latestHash = mainHead
    /\ mainHead \in blockByHash \/ (mainHead = NoBlock /\ blockByHash = {})

(* The legacy array is the main chain, root first.                         *)
BlocksAreMainChain == blocks = IF mainHead = NoBlock THEN << >> ELSE Path[mainHead]

(* GetForkCount counts the tips: every tip is listed once, nothing else is.*)
ForkCountIsExact ==
    \A b \in Block : heads[b] = IF b \in Tips(blockByHash) THEN 1 ELSE 0
==============================================================================
