-------------------------- MODULE ChainTreeTheorems --------------------------
(***************************************************************************)
(* What the critical sections of Blockchain.mutex do to a tree that is in  *)
(* shape, whichever component calls them: TreeInv is kept by each of them, *)
(* MainChainInv by those that add a new block where it belongs.            *)
(***************************************************************************)
EXTENDS ChainTree, BlockTreeTheorems

(* The array holds blocks of the tree, and is empty before the genesis.    *)
ArrayInTree ==
    /\ \A i \in DOMAIN blocks : blocks[i] \in blockByHash
    /\ blocks = << >> <=> genesis = NoBlock

TreeInv == TreeTypeOK /\ TreeRooted /\ TipsAreHeads /\ LatestIsMainHead /\ ArrayInTree

(* The array and the heads are exact.                                      *)
MainChainInv == BlocksAreMainChain /\ ForkCountIsExact

------------------------------------------------------------------------------
(* The genesis is in the tree and has no parent.                           *)
LEMMA GenesisInTree ==
  ASSUME TreeTypeOK, TreeRooted, genesis # NoBlock
  PROVE  genesis \in blockByHash /\ Prev[genesis] = NoBlock /\ blockByHash # {}
<1>1. PICK b \in blockByHash : TRUE
  BY DEF TreeRooted
<1>2. b \in Block /\ Path[b][1] = genesis /\ Ancestors(b) \subseteq blockByHash
  BY <1>1 DEF TreeRooted, TreeTypeOK
<1>. QED  BY <1>2, AncestorsShape, PathRoot

(* No block of the tree names a block that is not in it as its parent, and *)
(* no block is its own parent.                                             *)
LEMMA NewIsTip ==
  ASSUME TreeTypeOK, TreeRooted, NEW b \in Block, b \notin blockByHash
  PROVE  /\ \A c \in blockByHash : Prev[c] # b
         /\ Prev[b] # b
<1>1. ASSUME NEW c \in blockByHash, Prev[c] = b
      PROVE  FALSE
  <2>1. c \in Block /\ Prev[c] # NoBlock
    BY <1>1, BlockAssumption DEF TreeTypeOK
  <2>2. b \in Ancestors(c)
    BY <1>1, <2>1, AncestorsShape
  <2>. QED  BY <1>1, <2>2 DEF TreeRooted
<1>2. ASSUME Prev[b] = b
      PROVE  FALSE
  <2>1. Prev[b] # NoBlock
    BY <1>2, BlockAssumption
  <2>2. Len(Path[b]) = Len(Path[b]) + 1 /\ Len(Path[b]) \in Nat
    BY <1>2, <2>1, PathShape
  <2>. QED  BY <2>2
<1>. QED  BY <1>1, <1>2

(* Inserting a block whose parent is known and whose index follows keeps   *)
(* the tree rooted, whichever method inserts it.                           *)
LEMMA InsertKeepsRooted ==
  ASSUME TreeTypeOK, TreeRooted, genesis # NoBlock, genesis' = genesis,
         NEW b \in Block, HasParent(b), IndexFollows(b), InsertIntoTree(b)
  PROVE  heads' \in [Block -> Nat] /\ TreeRooted'
<1>1. blockByHash' = blockByHash \cup {b} /\ Prev[b] \in blockByHash /\ Prev[b] # NoBlock
  BY BlockAssumption DEF InsertIntoTree, HasParent, TreeTypeOK
<1>2. heads' \in [Block -> Nat]
  BY DEF InsertIntoTree, UpdatedHeads, TreeTypeOK
<1>3. ASSUME NEW c \in blockByHash'
      PROVE  Ancestors(c) \subseteq blockByHash' /\ Path[c][1] = genesis'
               /\ Index[c] + 1 = Len(Path[c])
  <2>1. CASE c \in blockByHash
    BY <2>1, <1>1 DEF TreeRooted
  <2>2. CASE c = b
    <3>1. /\ Ancestors(b) = Ancestors(Prev[b]) \cup {b}
          /\ Path[b][1] = Path[Prev[b]][1]
      BY <1>1, AncestorsShape
    <3>2. Index[b] + 1 = Len(Path[b])
      <4>1. Index[Prev[b]] + 1 = Len(Path[Prev[b]])
        BY <1>1 DEF TreeRooted
      <4>2. Len(Path[b]) = Len(Path[Prev[b]]) + 1 /\ Len(Path[Prev[b]]) \in Nat
        BY <1>1, PathShape DEF TreeTypeOK
      <4>3. Index[b] = Index[Prev[b]] + 1 /\ Index[Prev[b]] \in Nat
        BY <1>1, BlockAssumption DEF IndexFollows, TreeTypeOK
      <4>. QED  BY <4>1, <4>2, <4>3
    <3>. QED  BY <2>2, <3>1, <3>2, <1>1 DEF TreeRooted
  <2>. QED  BY <2>1, <2>2, <1>1
<1>. QED  BY <1>1, <1>2, <1>3 DEF TreeRooted

(* updateHeads forgets no tip, and names no block that is not in the tree. *)
LEMMA InsertKeepsTips ==
  ASSUME TreeTypeOK, TipsAreHeads, NEW b \in Block, InsertIntoTree(b)
  PROVE  TipsAreHeads'
<1>1. blockByHash' = blockByHash \cup {b} /\ heads' = UpdatedHeads(b)
  BY DEF InsertIntoTree
<1>2. ASSUME NEW c \in Tips(blockByHash')
      PROVE  heads'[c] > 0
  <2>1. c \in Block /\ c \in blockByHash \cup {b} /\ Prev[b] # c
    BY <1>1 DEF Tips, TreeTypeOK
  <2>2. CASE c = b
    BY <2>2, <1>1 DEF UpdatedHeads, TreeTypeOK
  <2>3. CASE c # b
    <3>1. c \in Tips(blockByHash)
      BY <1>1, <1>2, <2>3 DEF Tips
    <3>. QED  BY <3>1, <1>1, <2>1, <2>3 DEF UpdatedHeads, TipsAreHeads
  <2>. QED  BY <2>2, <2>3
<1>3. ASSUME NEW c \in Block, heads'[c] > 0
      PROVE  c \in blockByHash'
  <2>1. CASE c = b
    BY <2>1, <1>1
  <2>2. CASE c # b
    <3>1. heads[c] > 0
      BY <1>1, <1>3, <2>2 DEF UpdatedHeads, TreeTypeOK
    <3>. QED  BY <3>1, <1>1 DEF TipsAreHeads
  <2>. QED  BY <2>1, <2>2
<1>. QED  BY <1>2, <1>3 DEF TipsAreHeads

(* updateHeads keeps the list of heads exact when the block is new.        *)
LEMMA InsertKeepsForkCount ==
  ASSUME TreeTypeOK, TreeRooted, ForkCountIsExact,
         NEW b \in Block, b \notin blockByHash, HasParent(b), InsertIntoTree(b)
  PROVE  ForkCountIsExact'
<1>1. /\ blockByHash' = blockByHash \cup {b}
      /\ \A c \in blockByHash : Prev[c] # b
      /\ Prev[b] # b
  BY NewIsTip DEF InsertIntoTree
<1>2. ASSUME NEW c \in Block
      PROVE  heads'[c] = IF c \in Tips(blockByHash') THEN 1 ELSE 0
  <2>0. /\ heads'[c] = UpdatedHeads(b)[c]
        /\ heads[c] = IF c \in Tips(blockByHash) THEN 1 ELSE 0
    BY DEF InsertIntoTree, ForkCountIsExact
  <2>1. CASE c = b
    <3>1. c \in Tips(blockByHash') /\ c \notin Tips(blockByHash)
      BY <1>1, <2>1 DEF Tips
    <3>. QED  BY <2>0, <2>1, <3>1 DEF UpdatedHeads
  <2>2. CASE c = Prev[b] /\ c # b
    <3>1. c \notin Tips(blockByHash')
      BY <1>1, <2>2 DEF Tips
    <3>. QED  BY <2>0, <2>2, <3>1 DEF UpdatedHeads
  <2>3. CASE c # Prev[b] /\ c # b
    <3>1. c \in Tips(blockByHash') <=> c \in Tips(blockByHash)
      BY <1>1, <2>3 DEF Tips
    <3>. QED  BY <2>0, <2>3, <3>1 DEF UpdatedHeads
  <2>. QED  BY <2>1, <2>2, <2>3
<1>. QED  BY <1>2 DEF ForkCountIsExact

------------------------------------------------------------------------------
(* AddBlock of a genesis, into an empty tree.                              *)
LEMMA AddGenesisKeeps ==
  ASSUME TreeInv, NEW b \in Block, AddGenesis(b)
  PROVE  /\ TreeInv' /\ b \in blockByHash' /\ blockByHash \subseteq blockByHash'
         /\ genesis' # NoBlock /\ MainChainInv'
<1>. USE DEF TreeInv, AddGenesis, MayBeGenesis, IsGenesis
<1>1. /\ blockByHash' = {b} /\ genesis' = b /\ mainHead' = b /\ latestHash' = b
      /\ heads' = [c \in Block |-> IF c = b THEN 1 ELSE 0]
      /\ Index[b] = 0 /\ Prev[b] = NoBlock
  BY DEF TreeRooted
<1>2. blocks' = <<b>>
  BY DEF ArrayInTree
<1>3. Path[b] = <<b>> /\ Ancestors(b) = {b} /\ b # NoBlock
  BY <1>1, PathShape, AncestorsShape, BlockAssumption
<1>4. TreeTypeOK'
  BY <1>1, <1>2 DEF TreeTypeOK
<1>5. TreeRooted'
  <2>1. Path[b][1] = b /\ Len(Path[b]) = 1
    BY <1>3
  <2>2. ASSUME NEW c \in blockByHash'
        PROVE  Ancestors(c) \subseteq blockByHash' /\ Path[c][1] = genesis'
                 /\ Index[c] + 1 = Len(Path[c])
    <3>1. c = b
      BY <1>1
    <3>. QED  BY <3>1, <2>1, <1>1, <1>3
  <2>3. genesis' # NoBlock /\ blockByHash' # {}
    BY <1>1, <1>3
  <2>. QED  BY <2>2, <2>3 DEF TreeRooted
<1>6. LatestIsMainHead' /\ ArrayInTree'
  BY <1>1, <1>2, <1>3 DEF LatestIsMainHead, ArrayInTree
<1>7. BlocksAreMainChain'
  BY <1>1, <1>2, <1>3 DEF BlocksAreMainChain
<1>8. ForkCountIsExact'
  BY <1>1, <1>3 DEF ForkCountIsExact, Tips
<1>9. TipsAreHeads'
  BY <1>1, <1>3 DEF TipsAreHeads, Tips
<1>. QED  BY <1>1, <1>3, <1>4, <1>5, <1>6, <1>7, <1>8, <1>9 DEF MainChainInv

(* AddBlock of another block, if its index follows.                        *)
LEMMA AddBlockKeeps ==
  ASSUME TreeInv, NEW b \in Block, AddBlock(b), IndexFollows(b)
  PROVE  /\ TreeInv' /\ b \in blockByHash' /\ blockByHash \subseteq blockByHash'
         /\ genesis' # NoBlock
         /\ MainChainInv /\ b \notin blockByHash /\ Prev[b] = mainHead => MainChainInv'
<1>. USE DEF TreeInv
<1>1. /\ blockByHash' = blockByHash \cup {b} /\ genesis' = genesis /\ genesis # NoBlock
      /\ mainHead' = (IF IsLonger(b) THEN b ELSE mainHead) /\ latestHash' = mainHead'
      /\ blocks' = Append(blocks, b)
  BY DEF AddBlock, InsertIntoTree
<1>2. heads' \in [Block -> Nat] /\ TreeRooted'
  BY InsertKeepsRooted DEF AddBlock
<1>3. mainHead \in blockByHash
  BY GenesisInTree, <1>1 DEF LatestIsMainHead
<1>4. LatestIsMainHead'
  BY <1>1, <1>3 DEF LatestIsMainHead
<1>5. /\ blocks' \in Seq(Block)
      /\ DOMAIN blocks' = 1..(Len(blocks) + 1)
      /\ \A i \in 1..Len(blocks) : blocks'[i] = blocks[i]
      /\ blocks'[Len(blocks) + 1] = b
      /\ DOMAIN blocks = 1..Len(blocks) /\ Len(blocks) \in Nat
  BY <1>1, AppendProperties, LenProperties DEF TreeTypeOK
<1>6. ArrayInTree'
  <2>1. ASSUME NEW i \in DOMAIN blocks'
        PROVE  blocks'[i] \in blockByHash'
    BY <1>1, <1>5 DEF ArrayInTree
  <2>2. blocks' # << >>
    BY <1>5
  <2>. QED  BY <2>1, <2>2, <1>1 DEF ArrayInTree
<1>7. TreeTypeOK'
  BY <1>1, <1>2, <1>5 DEF TreeTypeOK
<1>8. ASSUME MainChainInv, b \notin blockByHash, Prev[b] = mainHead
      PROVE  MainChainInv'
  <2>1. ForkCountIsExact'
    BY <1>8, InsertKeepsForkCount DEF MainChainInv, AddBlock
  <2>2. mainHead # NoBlock /\ b # NoBlock /\ mainHead \in Block
    BY <1>3, BlockAssumption DEF TreeTypeOK
  <2>3. IsLonger(b)
    BY <1>8, <2>2, BlockAssumption DEF IsLonger, IndexFollows
  <2>4. Path[b] = Append(Path[mainHead], b)
    BY <1>8, <2>2, PathShape
  <2>. QED  BY <1>1, <1>8, <2>1, <2>2, <2>3, <2>4 DEF MainChainInv, BlocksAreMainChain
<1>9. TipsAreHeads'
  BY InsertKeepsTips DEF AddBlock
<1>. QED  BY <1>1, <1>2, <1>4, <1>6, <1>7, <1>8, <1>9

(* TryAddBlockWithForkResolution needs no more to keep the array and the   *)
(* heads exact: a block off the main chain leaves the array alone.         *)
LEMMA TryAddKeeps ==
  ASSUME TreeInv, NEW b \in Block, TryAddBlockWithForkResolution(b)
  PROVE  /\ TreeInv' /\ b \in blockByHash' /\ blockByHash \subseteq blockByHash'
         /\ genesis' = genesis
         /\ MainChainInv => MainChainInv'
<1>. USE DEF TreeInv
<1>1. /\ blockByHash' = blockByHash \cup {b} /\ genesis' = genesis
      /\ mainHead' = (IF IsLonger(b) THEN b ELSE mainHead)
      /\ b \notin blockByHash /\ HasParent(b) /\ IndexFollows(b) /\ InsertIntoTree(b)
      /\ blocks' = BlocksAfterTry(b) /\ latestHash' = LatestAfterTry(b)
  BY DEF TryAddBlockWithForkResolution, InsertIntoTree
<1>2. genesis # NoBlock /\ mainHead \in blockByHash
  BY <1>1 DEF HasParent, TreeRooted, LatestIsMainHead
<1>3. heads' \in [Block -> Nat] /\ TreeRooted'
  BY <1>1, <1>2, InsertKeepsRooted
<1>4. mainHead \in Block /\ mainHead # NoBlock /\ b # NoBlock
  BY <1>2, BlockAssumption DEF TreeTypeOK
<1>5. Prev[b] = mainHead => IsLonger(b)
  BY <1>1, <1>4, BlockAssumption DEF IsLonger, IndexFollows
<1>6. latestHash' = mainHead' /\ blocks' = IF IsLonger(b) THEN Path[b] ELSE blocks
  BY <1>1, <1>5 DEF LatestAfterTry, BlocksAfterTry, LatestIsMainHead
<1>7. LatestIsMainHead'
  BY <1>1, <1>2, <1>6 DEF LatestIsMainHead
<1>8. Path[b] \in Seq(Block) /\ Path[b] # << >> /\ \A i \in DOMAIN Path[b] : Path[b][i] \in blockByHash'
  <2>1. Ancestors(b) \subseteq blockByHash'
    BY <1>1, <1>3 DEF TreeRooted
  <2>. QED  BY <2>1, PathShape DEF Ancestors
<1>9. ArrayInTree'
  BY <1>1, <1>2, <1>6, <1>8 DEF ArrayInTree
<1>10. TreeTypeOK'
  BY <1>1, <1>3, <1>6, <1>8 DEF TreeTypeOK
<1>11. ASSUME MainChainInv
       PROVE  MainChainInv'
  <2>1. ForkCountIsExact'
    BY <1>1, <1>11, InsertKeepsForkCount DEF MainChainInv
  <2>. QED  BY <1>1, <1>4, <1>6, <1>11, <2>1 DEF MainChainInv, BlocksAreMainChain
<1>12. TipsAreHeads'
  BY <1>1, InsertKeepsTips
<1>. QED  BY <1>1, <1>3, <1>7, <1>9, <1>10, <1>11, <1>12

(* SwitchToChain, to any block of the tree.                                *)
LEMMA SwitchKeeps ==
  ASSUME TreeInv, NEW b, SwitchToChain(b)
  PROVE  /\ TreeInv' /\ blockByHash' = blockByHash /\ genesis' = genesis
         /\ MainChainInv => MainChainInv'
<1>. USE DEF TreeInv, SwitchToChain
<1>1. b \in Block /\ b # NoBlock
  BY BlockAssumption DEF TreeTypeOK
<1>2. Path[b] \in Seq(Block) /\ Path[b] # << >> /\ \A i \in DOMAIN Path[b] : Path[b][i] \in blockByHash
  BY <1>1, PathShape DEF TreeRooted, Ancestors
<1>3. TreeTypeOK'
  BY <1>1, <1>2 DEF TreeTypeOK
<1>4. TreeRooted' /\ TipsAreHeads' /\ LatestIsMainHead'
  BY DEF TreeRooted, TipsAreHeads, LatestIsMainHead
<1>5. ArrayInTree'
  BY <1>2 DEF ArrayInTree, TreeRooted
<1>6. ASSUME MainChainInv
      PROVE  MainChainInv'
  BY <1>1, <1>6 DEF MainChainInv, BlocksAreMainChain, ForkCountIsExact
<1>. QED  BY <1>3, <1>4, <1>5, <1>6

(* No critical section at all.                                             *)
LEMMA IdleKeeps ==
  ASSUME TreeInv, UNCHANGED treeVars
  PROVE  TreeInv' /\ MainChainInv' = MainChainInv
BY DEF TreeInv, MainChainInv, TreeTypeOK, TreeRooted, TipsAreHeads, LatestIsMainHead, ArrayInTree,
       BlocksAreMainChain, ForkCountIsExact, treeVars

(* GetLatestBlock returns a block of the tree, and the main head where the *)
(* array is the main chain.                                                *)
LEMMA LatestInTree ==
  ASSUME TreeInv, LatestBlock # NoBlock \/ genesis # NoBlock
  PROVE  /\ LatestBlock \in blockByHash
         /\ BlocksAreMainChain => LatestBlock = mainHead
<1>. USE DEF TreeInv, LatestBlock
<1>1. blocks # << >> /\ genesis # NoBlock
  BY DEF ArrayInTree
<1>2. Len(blocks) \in DOMAIN blocks
  BY <1>1, LenProperties, EmptySeq DEF TreeTypeOK
<1>3. LatestBlock \in blockByHash
  BY <1>1, <1>2 DEF ArrayInTree
<1>4. mainHead \in Block /\ mainHead # NoBlock
  BY <1>1, BlockAssumption DEF TreeRooted, LatestIsMainHead, TreeTypeOK
<1>5. Path[mainHead][Len(Path[mainHead])] = mainHead
  <2>1. CASE Prev[mainHead] = NoBlock
    BY <1>4, <2>1, PathShape
  <2>2. CASE Prev[mainHead] # NoBlock
    BY <1>4, <2>2, PathShape, AppendProperties
  <2>. QED  BY <2>1, <2>2
<1>. QED  BY <1>1, <1>3, <1>4, <1>5 DEF BlocksAreMainChain
==============================================================================
