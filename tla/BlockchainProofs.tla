--------------------------- MODULE BlockchainProofs ---------------------------
(***************************************************************************)
(* The safety of Blockchain for every universe of blocks and any number of *)
(* concurrent saves.  None of the properties is inductive alone: what the  *)
(* tree looks like after a restart depends on what the rows looked like,   *)
(* and those on the tree during the saves.  IInv says how the three relate.*)
(***************************************************************************)
EXTENDS Blockchain, ChainTreeTheorems

(* Nothing is in memory while the process is down.                         *)
DownIsEmpty ==
    ~up => blockByHash = {} /\ \A s \in Saver : save[s].pc = "idle"

(* The rows come from trees: their indices are distances to the root, at   *)
(* most one of them is a root, and a running process has it as genesis.    *)
RowsAreTrees ==
    /\ \A b \in rows : Index[b] + 1 = Len(Path[b])
    /\ \A b, c \in rows : Prev[b] = NoBlock /\ Prev[c] = NoBlock => b = c
    /\ \A b \in rows : up /\ Prev[b] = NoBlock => genesis = b

(* A save in progress writes the tree of the running process.              *)
SavesCoverTree ==
    \A s \in Saver : save[s].pc = "rows" =>
        /\ up
        /\ save[s].todo \subseteq blockByHash
        /\ blockByHash \ save[s].todo \subseteq rows

(* What a successful save covered has its rows, with all ancestors, and a  *)
(* running process knows it.                                               *)
AckedIsSafe ==
    /\ acked \subseteq rows
    /\ \A b \in acked : Ancestors(b) \subseteq acked
    /\ up => acked \subseteq blockByHash

(* Finitely long: there is a highest index at any time.                    *)
IndicesBounded == Bounded(rows) /\ Bounded(blockByHash)

IInv ==
    /\ TypeOK
    /\ TreeRooted
    /\ TipsAreHeads
    /\ LatestIsMainHead
    /\ MainHeadIsLongest
    /\ DownIsEmpty
    /\ RowsAreTrees
    /\ SavesCoverTree
    /\ AckedIsSafe
    /\ IndicesBounded

------------------------------------------------------------------------------
(* One more block keeps a set of blocks bounded.                           *)
LEMMA BoundedAdd ==
  ASSUME NEW S \in SUBSET Block, Bounded(S), NEW b \in Block
  PROVE  Bounded(S \cup {b})
<1>1. PICK n \in Nat : \A c \in S : Index[c] <= n
  BY DEF Bounded
<1>2. Index[b] \in Nat /\ \A c \in S : Index[c] \in Nat
  BY BlockAssumption
<1>3. n + Index[b] \in Nat /\ \A c \in S \cup {b} : Index[c] <= n + Index[b]
  BY <1>1, <1>2
<1>. QED  BY <1>3 DEF Bounded

LEMMA InitIInv == Init => IInv
<1>. SUFFICES ASSUME Init PROVE IInv
  OBVIOUS
<1>. USE DEF Init, EmptyTree
<1>1. TypeOK
  BY EmptySeq DEF TypeOK, TreeTypeOK, Idle
<1>2. TreeRooted /\ LatestIsMainHead /\ MainHeadIsLongest
  BY DEF TreeRooted, LatestIsMainHead, MainHeadIsLongest
<1>3. TipsAreHeads
  BY DEF TipsAreHeads, Tips
<1>4. DownIsEmpty /\ RowsAreTrees /\ AckedIsSafe /\ SavesCoverTree
  BY DEF DownIsEmpty, RowsAreTrees, AckedIsSafe, SavesCoverTree, Idle
<1>5. IndicesBounded
  BY DEF IndicesBounded, Bounded
<1>. QED  BY <1>1, <1>2, <1>3, <1>4, <1>5 DEF IInv

------------------------------------------------------------------------------
(* Inserting a block whose parent is known and whose index follows keeps   *)
(* the tree in shape, whichever method inserts it.                         *)
LEMMA InsertKeepsTree ==
  ASSUME TypeOK, TreeRooted, TipsAreHeads, LatestIsMainHead, MainHeadIsLongest,
         Bounded(blockByHash),
         NEW b \in Block, genesis # NoBlock,
         HasParent(b), IndexFollows(b), InsertIntoTree(b),
         mainHead' = IF IsLonger(b) THEN b ELSE mainHead,
         latestHash' = mainHead',
         genesis' = genesis, passed' = passed
  PROVE  /\ heads' \in [Block -> Nat]
         /\ TreeRooted' /\ TipsAreHeads' /\ LatestIsMainHead' /\ MainHeadIsLongest'
         /\ Bounded(blockByHash')
<1>. USE DEF TypeOK, TreeTypeOK
<1>1. blockByHash' = blockByHash \cup {b} /\ Prev[b] \in blockByHash /\ Prev[b] # NoBlock
  BY BlockAssumption DEF InsertIntoTree, HasParent
<1>2. heads' = UpdatedHeads(b)
  BY DEF InsertIntoTree
<1>3. heads' \in [Block -> Nat]
  BY <1>2 DEF UpdatedHeads
<1>4. TreeRooted'
  BY InsertKeepsRooted
<1>5. TipsAreHeads'
  BY InsertKeepsTips
<1>6. mainHead \in blockByHash /\ mainHead \in Block
  BY <1>1 DEF LatestIsMainHead
<1>7. LatestIsMainHead'
  BY <1>1, <1>6 DEF LatestIsMainHead
<1>8. MainHeadIsLongest'
  <2>1. SUFFICES ASSUME NEW c \in blockByHash' \ passed
                 PROVE  Index[c] <= Index[mainHead']
    BY DEF MainHeadIsLongest
  <2>2. \A d \in blockByHash \ passed : Index[d] <= Index[mainHead]
    BY DEF MainHeadIsLongest
  <2>3. Index[b] \in Nat /\ Index[mainHead] \in Nat /\ \A d \in blockByHash : Index[d] \in Nat
    BY <1>6, BlockAssumption
  <2>4. mainHead # NoBlock
    BY <1>6, BlockAssumption
  <2>. QED  BY <1>1, <2>1, <2>2, <2>3, <2>4 DEF IsLonger
<1>9. Bounded(blockByHash')
  BY <1>1, BoundedAdd
<1>. QED  BY <1>3, <1>4, <1>5, <1>7, <1>8, <1>9

(* A critical section that only changes the tree finds no save in progress,*)
(* so it cannot disturb what a save relies on.                             *)
LEMMA WriteLockKeepsDatabase ==
  ASSUME IInv, WriteLock, UNCHANGED <<up, dbVars>>,
         blockByHash \subseteq blockByHash',
         genesis # NoBlock => genesis' = genesis
  PROVE  DownIsEmpty' /\ RowsAreTrees' /\ SavesCoverTree' /\ AckedIsSafe' /\ Bounded(rows')
<1>. USE DEF IInv, WriteLock, dbVars
<1>1. DownIsEmpty'
  BY DEF DownIsEmpty
<1>2. RowsAreTrees'
  <2>1. ASSUME NEW b \in rows, Prev[b] = NoBlock
        PROVE  genesis' = b
    BY <2>1, BlockAssumption DEF RowsAreTrees, TypeOK
  <2>. QED  BY <2>1 DEF RowsAreTrees
<1>3. SavesCoverTree'
  BY DEF SavesCoverTree
<1>4. AckedIsSafe'
  BY DEF AckedIsSafe
<1>. QED  BY <1>1, <1>2, <1>3, <1>4 DEF IndicesBounded

LEMMA GenesisStep ==
  ASSUME IInv, NEW b \in Honest, Genesis(b)
  PROVE  IInv'
<1>. USE DEF Genesis, AddGenesis, MayBeGenesis
<1>1. b \in Block /\ genesis = NoBlock /\ Prev[b] = NoBlock /\ Index[b] = 0
  BY BlockchainAssumption DEF IsGenesis
<1>2. blockByHash = {} /\ blockByHash' = {b}
  BY <1>1 DEF IInv, TreeRooted
<1>3. Ancestors(b) = {b} /\ Len(Path[b]) = 1 /\ Path[b][1] = b
  <2>1. Ancestors(b) = {b} /\ Path[b] = <<b>>
    BY <1>1, AncestorsShape, PathShape
  <2>. QED  BY <2>1
<1>4. TypeOK'
  BY <1>1, AppendProperties DEF IInv, TypeOK, TreeTypeOK, dbVars
<1>5. TreeRooted'
  BY <1>1, <1>2, <1>3, BlockAssumption DEF TreeRooted
<1>6. TipsAreHeads'
  BY <1>1, <1>2 DEF TipsAreHeads, Tips
<1>7. LatestIsMainHead' /\ MainHeadIsLongest'
  BY <1>1, <1>2, BlockAssumption DEF LatestIsMainHead, MainHeadIsLongest
<1>8. DownIsEmpty' /\ RowsAreTrees' /\ SavesCoverTree' /\ AckedIsSafe' /\ Bounded(rows')
  BY <1>1, <1>2, WriteLockKeepsDatabase
<1>9. Bounded(blockByHash')
  <2>1. 0 \in Nat /\ \A c \in blockByHash' : Index[c] <= 0
    BY <1>1, <1>2
  <2>. QED  BY <2>1 DEF Bounded
<1>. QED  BY <1>4, <1>5, <1>6, <1>7, <1>8, <1>9 DEF IInv, IndicesBounded

LEMMA AddStep ==
  ASSUME IInv, NEW b \in Honest, Add(b)
  PROVE  IInv'
<1>. USE DEF Add, AddBlock
<1>1. b \in Block
  BY BlockchainAssumption
<1>2. IndexFollows(b)
  BY BlockchainAssumption, BlockAssumption DEF HasParent, IsGenesis, IInv, TypeOK, TreeTypeOK
<1>3. /\ heads' \in [Block -> Nat]
      /\ TreeRooted' /\ TipsAreHeads' /\ LatestIsMainHead' /\ MainHeadIsLongest'
      /\ Bounded(blockByHash')
  BY <1>1, <1>2, InsertKeepsTree DEF IInv, IndicesBounded
<1>4. blockByHash' = blockByHash \cup {b}
  BY DEF InsertIntoTree
<1>5. TypeOK'
  BY <1>1, <1>3, <1>4, AppendProperties DEF IInv, TypeOK, TreeTypeOK, dbVars
<1>6. DownIsEmpty' /\ RowsAreTrees' /\ SavesCoverTree' /\ AckedIsSafe' /\ Bounded(rows')
  BY <1>4, WriteLockKeepsDatabase
<1>. QED  BY <1>3, <1>5, <1>6 DEF IInv, IndicesBounded

LEMMA TryAddStep ==
  ASSUME IInv, NEW b \in Block, TryAdd(b)
  PROVE  IInv'
<1>. USE DEF TryAdd, TryAddBlockWithForkResolution
<1>1. Prev[b] \in blockByHash /\ Prev[b] # NoBlock
  BY BlockAssumption DEF HasParent, IInv, TypeOK, TreeTypeOK
<1>2. genesis # NoBlock /\ mainHead \in Block /\ mainHead # NoBlock
  BY <1>1, BlockAssumption DEF IInv, TreeRooted, LatestIsMainHead, TypeOK, TreeTypeOK
<1>3. latestHash' = mainHead'
  (* A child of a longest main head is longer than it; when the main head  *)
  (* is not a longest one, a child of it still has the next index.         *)
  <2>1. Prev[b] = mainHead => IsLonger(b)
    BY <1>2, BlockAssumption DEF IsLonger, IndexFollows
  <2>. QED  BY <2>1 DEF LatestAfterTry, IInv, LatestIsMainHead
<1>4. /\ heads' \in [Block -> Nat]
      /\ TreeRooted' /\ TipsAreHeads' /\ LatestIsMainHead' /\ MainHeadIsLongest'
      /\ Bounded(blockByHash')
  BY <1>2, <1>3, InsertKeepsTree DEF IInv, IndicesBounded
<1>5. blockByHash' = blockByHash \cup {b}
  BY DEF InsertIntoTree
<1>6. blocks' \in Seq(Block)
  BY PathShape, AppendProperties DEF BlocksAfterTry, IInv, TypeOK, TreeTypeOK
<1>7. TypeOK'
  BY <1>2, <1>3, <1>4, <1>5, <1>6 DEF IInv, TypeOK, TreeTypeOK, dbVars
<1>8. DownIsEmpty' /\ RowsAreTrees' /\ SavesCoverTree' /\ AckedIsSafe' /\ Bounded(rows')
  BY <1>5, WriteLockKeepsDatabase
<1>. QED  BY <1>4, <1>7, <1>8 DEF IInv, IndicesBounded

LEMMA SwitchStep ==
  ASSUME IInv, NEW b \in Block, Switch(b)
  PROVE  IInv'
<1>. USE DEF Switch, SwitchToChain
<1>1. blockByHash' = blockByHash /\ genesis' = genesis /\ heads' = heads
  OBVIOUS
<1>2. TypeOK'
  BY <1>1, PathShape DEF IInv, TypeOK, TreeTypeOK, dbVars
<1>3. TreeRooted' /\ TipsAreHeads' /\ LatestIsMainHead'
  BY <1>1 DEF IInv, TreeRooted, TipsAreHeads, LatestIsMainHead
<1>4. MainHeadIsLongest'
  <2>1. /\ mainHead' = b /\ b \in blockByHash
        /\ passed' = {c \in blockByHash : Index[c] > Index[b]}
    OBVIOUS
  <2>2. \A c \in blockByHash : Index[c] \in Nat
    BY BlockAssumption DEF IInv, TypeOK, TreeTypeOK
  <2>. QED  BY <1>1, <2>1, <2>2 DEF MainHeadIsLongest
<1>5. DownIsEmpty' /\ RowsAreTrees' /\ SavesCoverTree' /\ AckedIsSafe' /\ Bounded(rows')
  BY <1>1, WriteLockKeepsDatabase
<1>. QED  BY <1>1, <1>2, <1>3, <1>4, <1>5 DEF IInv, IndicesBounded

------------------------------------------------------------------------------
(* The steps of a save leave the tree alone.                               *)
LEMMA SaveKeepsTree ==
  ASSUME IInv, UNCHANGED <<treeVars, up, passed>>
  PROVE  /\ TreeTypeOK' /\ TreeRooted' /\ TipsAreHeads' /\ LatestIsMainHead'
         /\ MainHeadIsLongest' /\ Bounded(blockByHash')
BY DEF treeVars, IInv, TypeOK, TreeTypeOK, TreeRooted, TipsAreHeads, Tips, LatestIsMainHead,
       MainHeadIsLongest, IndicesBounded

LEMMA SaveBeginStep ==
  ASSUME IInv, NEW s \in Saver, SaveBegin(s)
  PROVE  IInv'
<1>. USE DEF SaveBegin
<1>1. UNCHANGED treeVars /\ UNCHANGED <<genesis, blockByHash, up, rows, flagged, acked, passed>>
  BY DEF treeVars
<1>2. /\ TreeTypeOK' /\ TreeRooted' /\ TipsAreHeads' /\ LatestIsMainHead'
      /\ MainHeadIsLongest' /\ Bounded(blockByHash')
  BY <1>1, SaveKeepsTree
<1>3. RowsToWrite \in SUBSET Block /\ RowsToWrite \subseteq blockByHash
        /\ blockByHash \ RowsToWrite \subseteq rows
  BY DEF RowsToWrite, IInv, TypeOK, TreeTypeOK
<1>. HIDE DEF SaveBegin
<1>4. save' = [save EXCEPT ![s] = [pc |-> "rows", todo |-> RowsToWrite, new |-> FALSE]] /\ up
  BY DEF SaveBegin
<1>5. TypeOK'
  BY <1>1, <1>2, <1>3, <1>4 DEF IInv, TypeOK
<1>6. DownIsEmpty'
  BY <1>1, <1>4 DEF DownIsEmpty
<1>7. SavesCoverTree'
  BY <1>1, <1>3, <1>4 DEF IInv, TypeOK, SavesCoverTree
<1>8. RowsAreTrees' /\ AckedIsSafe' /\ Bounded(rows')
  BY <1>1 DEF IInv, RowsAreTrees, AckedIsSafe, IndicesBounded
<1>. QED  BY <1>2, <1>5, <1>6, <1>7, <1>8 DEF IInv, IndicesBounded

LEMMA SaveRowStep ==
  ASSUME IInv, NEW s \in Saver, SaveRow(s)
  PROVE  IInv'
<1>1. /\ UNCHANGED treeVars
      /\ UNCHANGED <<genesis, blockByHash, up, acked, passed>>
      /\ save[s].pc = "rows"
  BY DEF SaveRow, treeVars
<1>2. PICK b \in save[s].todo :
        /\ rows' = rows \cup {b}
        /\ flagged' = IF OnMainChain(b) THEN flagged \cup {b} ELSE flagged \ {b}
        /\ save' = [save EXCEPT ![s].todo = @ \ {b}, ![s].new = TRUE]
  BY DEF SaveRow
<1>3. up /\ b \in blockByHash /\ b \in Block
  BY <1>1, <1>2 DEF IInv, SavesCoverTree, TypeOK, TreeTypeOK
<1>4. /\ TreeTypeOK' /\ TreeRooted' /\ TipsAreHeads' /\ LatestIsMainHead'
      /\ MainHeadIsLongest' /\ Bounded(blockByHash')
  BY <1>1, SaveKeepsTree
<1>5. TypeOK'
  <2>1. rows' \in SUBSET Block /\ flagged' \in SUBSET rows'
    BY <1>2, <1>3 DEF IInv, TypeOK
  <2>2. save' \in [Saver -> [pc : {"idle", "rows"}, todo : SUBSET Block, new : BOOLEAN]]
    BY <1>2 DEF IInv, TypeOK
  <2>. QED  BY <1>1, <1>4, <2>1, <2>2 DEF IInv, TypeOK
<1>6. DownIsEmpty'
  BY <1>1, <1>3 DEF DownIsEmpty
<1>7. RowsAreTrees'
  <2>1. Index[b] + 1 = Len(Path[b]) /\ (Prev[b] = NoBlock => b = genesis)
    <3>1. Index[b] + 1 = Len(Path[b]) /\ Path[b][1] = genesis
      BY <1>3 DEF IInv, TreeRooted
    <3>2. Prev[b] = NoBlock => Path[b][1] = b
      BY <1>3, AncestorsShape
    <3>. QED  BY <3>1, <3>2
  <2>. QED  BY <1>1, <1>2, <1>3, <2>1 DEF IInv, RowsAreTrees
<1>8. SavesCoverTree'
  BY <1>1, <1>2, <1>3 DEF IInv, TypeOK, SavesCoverTree
<1>9. AckedIsSafe'
  BY <1>1, <1>2 DEF IInv, AckedIsSafe
<1>10. Bounded(rows')
  BY <1>2, <1>3, BoundedAdd DEF IInv, IndicesBounded, TypeOK
<1>. QED  BY <1>4, <1>5, <1>6, <1>7, <1>8, <1>9, <1>10 DEF IInv, IndicesBounded

LEMMA SaveFinishStep ==
  ASSUME IInv, NEW s \in Saver, SaveFinish(s)
  PROVE  IInv'
<1>1. /\ UNCHANGED treeVars
      /\ UNCHANGED <<genesis, blockByHash, up, rows, passed>>
      /\ save[s].pc = "rows" /\ save[s].todo = {}
      /\ acked' = acked \cup blockByHash
      /\ save' = [save EXCEPT ![s] = Idle]
  BY DEF SaveFinish, treeVars
<1>2. blockByHash \subseteq rows /\ up
  BY <1>1 DEF IInv, SavesCoverTree
<1>3. /\ TreeTypeOK' /\ TreeRooted' /\ TipsAreHeads' /\ LatestIsMainHead'
      /\ MainHeadIsLongest' /\ Bounded(blockByHash')
  BY <1>1, SaveKeepsTree
<1>4. TypeOK'
  <2>1. flagged' \in SUBSET rows'
    BY <1>1 DEF SaveFinish, IInv, TypeOK
  <2>2. save' \in [Saver -> [pc : {"idle", "rows"}, todo : SUBSET Block, new : BOOLEAN]]
    BY <1>1 DEF IInv, TypeOK, Idle
  <2>. QED  BY <1>1, <1>3, <2>1, <2>2 DEF IInv, TypeOK, TreeTypeOK
<1>5. DownIsEmpty' /\ RowsAreTrees' /\ Bounded(rows')
  BY <1>1, <1>2 DEF IInv, DownIsEmpty, RowsAreTrees, IndicesBounded
<1>6. SavesCoverTree'
  BY <1>1 DEF IInv, TypeOK, SavesCoverTree, Idle
<1>7. AckedIsSafe'
  BY <1>1, <1>2 DEF IInv, AckedIsSafe, TreeRooted
<1>. QED  BY <1>3, <1>4, <1>5, <1>6, <1>7 DEF IInv, IndicesBounded

LEMMA SaveFailStep ==
  ASSUME IInv, NEW s \in Saver, SaveFail(s)
  PROVE  IInv'
<1>1. /\ UNCHANGED treeVars
      /\ UNCHANGED <<genesis, blockByHash, up, rows, flagged, acked, passed>>
      /\ save' = [save EXCEPT ![s] = Idle]
      /\ save[s].pc = "rows"
  BY DEF SaveFail, treeVars
<1>2. /\ TreeTypeOK' /\ TreeRooted' /\ TipsAreHeads' /\ LatestIsMainHead'
      /\ MainHeadIsLongest' /\ Bounded(blockByHash')
  BY <1>1, SaveKeepsTree
<1>3. TypeOK'
  BY <1>1, <1>2 DEF IInv, TypeOK, Idle
<1>4. DownIsEmpty' /\ SavesCoverTree'
  BY <1>1 DEF IInv, TypeOK, DownIsEmpty, SavesCoverTree, Idle
<1>5. RowsAreTrees' /\ AckedIsSafe' /\ Bounded(rows')
  BY <1>1 DEF IInv, RowsAreTrees, AckedIsSafe, IndicesBounded
<1>. QED  BY <1>2, <1>3, <1>4, <1>5 DEF IInv, IndicesBounded

------------------------------------------------------------------------------
LEMMA CrashStep ==
  ASSUME IInv, Crash
  PROVE  IInv'
<1>. USE DEF Crash
<1>1. TypeOK'
  BY EmptySeq DEF IInv, TypeOK, TreeTypeOK, Idle
<1>2. TreeRooted' /\ LatestIsMainHead' /\ MainHeadIsLongest'
  BY DEF TreeRooted, LatestIsMainHead, MainHeadIsLongest
<1>3. TipsAreHeads'
  BY DEF TipsAreHeads, Tips
<1>4. DownIsEmpty' /\ SavesCoverTree'
  BY DEF DownIsEmpty, SavesCoverTree, Idle
<1>5. RowsAreTrees' /\ AckedIsSafe'
  BY DEF IInv, RowsAreTrees, AckedIsSafe
<1>6. IndicesBounded'
  BY DEF IInv, IndicesBounded, Bounded
<1>. QED  BY <1>1, <1>2, <1>3, <1>4, <1>5, <1>6 DEF IInv

LEMMA LoadStep ==
  ASSUME IInv, Load
  PROVE  IInv'
<1>. USE DEF IInv
<1>1. /\ ~up /\ up'
      /\ blockByHash' = Loadable
      /\ heads' = [b \in Block |-> IF b \in Tips(Loadable) THEN 1 ELSE 0]
      /\ latestHash' = mainHead'
      /\ UNCHANGED <<rows, flagged, save, acked, passed>>
  BY DEF Load
<1>2. /\ Loadable \subseteq rows /\ Loadable \subseteq Block
      /\ \A b \in Loadable : Ancestors(b) \subseteq Loadable
  BY ConnectedClosed DEF Loadable, Connected, TypeOK
<1>3. Loadable = {} => genesis' = NoBlock /\ mainHead' = NoBlock /\ blocks' = << >>
  BY DEF Load
<1>4. ASSUME Loadable # {}
      PROVE  /\ genesis' \in Loadable /\ Prev[genesis'] = NoBlock
             /\ mainHead' \in Longest(Tips(Loadable))
             /\ blocks' = Path[mainHead']
  BY <1>4 DEF Load, IsGenesis
<1>5. mainHead' \in Loadable \/ (mainHead' = NoBlock /\ Loadable = {})
  BY <1>3, <1>4 DEF Longest, Tips
<1>6. TypeOK'
  <2>1. genesis' \in Block \cup {NoBlock} /\ mainHead' \in Block \cup {NoBlock}
    BY <1>2, <1>3, <1>4, <1>5
  <2>2. blocks' \in Seq(Block)
    <3>1. CASE Loadable = {}
      BY <3>1, <1>3, EmptySeq
    <3>2. CASE Loadable # {}
      <4>1. mainHead' \in Block /\ blocks' = Path[mainHead']
        BY <3>2, <1>2, <1>4, <1>5
      <4>. QED  BY <4>1, PathShape
    <3>. QED  BY <3>1, <3>2
  <2>. QED  BY <1>1, <1>2, <2>1, <2>2 DEF TypeOK, TreeTypeOK
<1>7. TreeRooted'
  <2>1. ASSUME NEW b \in Loadable
        PROVE  Path[b][1] = genesis' /\ Index[b] + 1 = Len(Path[b])
    <3>1. Path[b][1] \in rows /\ Prev[Path[b][1]] = NoBlock
      BY <1>2, AncestorsShape, PathRoot
    <3>. QED  BY <3>1, <1>2, <1>4 DEF RowsAreTrees
  <2>2. genesis' = NoBlock <=> Loadable = {}
    BY <1>2, <1>3, <1>4, BlockAssumption
  <2>. QED  BY <1>1, <1>2, <2>1, <2>2 DEF TreeRooted
<1>8. TipsAreHeads'
  <2>1. \A b \in Block : heads'[b] > 0 <=> b \in Tips(Loadable)
    BY <1>1
  <2>2. Tips(Loadable) \subseteq Loadable
    BY DEF Tips
  <2>. QED  BY <1>1, <1>2, <2>1, <2>2 DEF TipsAreHeads
<1>9. LatestIsMainHead'
  BY <1>1, <1>5 DEF LatestIsMainHead
<1>10. Bounded(Loadable) /\ Bounded(rows')
  BY <1>1, <1>2 DEF IndicesBounded, Bounded
<1>11. MainHeadIsLongest'
  <2>1. ASSUME NEW b \in Loadable
        PROVE  Index[b] <= Index[mainHead']
    <3>1. \A c \in Loadable : Index[c] + 1 = Len(Path[c])
      BY <1>2 DEF RowsAreTrees
    <3>. QED  BY <3>1, <1>2, <1>4, <1>10, LongestTipIsLongest
  <2>. QED  BY <1>1, <2>1 DEF MainHeadIsLongest
<1>12. DownIsEmpty' /\ SavesCoverTree'
  BY <1>1 DEF DownIsEmpty, SavesCoverTree
<1>13. RowsAreTrees'
  <2>1. ASSUME NEW b \in rows, Prev[b] = NoBlock
        PROVE  genesis' = b
    <3>1. b \in Block /\ Ancestors(b) = {b}
      BY <2>1, AncestorsShape DEF TypeOK
    <3>2. b \in Loadable
      BY <2>1, <3>1 DEF Loadable, Connected
    <3>. QED  BY <3>2, <2>1, <1>2, <1>4 DEF RowsAreTrees
  <2>. QED  BY <1>1, <2>1 DEF RowsAreTrees
<1>14. AckedIsSafe'
  <2>1. acked \subseteq Loadable
    BY DEF AckedIsSafe, Loadable, Connected
  <2>. QED  BY <1>1, <2>1 DEF AckedIsSafe
<1>. QED  BY <1>1, <1>6, <1>7, <1>8, <1>9, <1>10, <1>11, <1>12, <1>13, <1>14 DEF IndicesBounded

------------------------------------------------------------------------------
LEMMA StutterStep ==
  ASSUME IInv, UNCHANGED vars
  PROVE  IInv'
<1>. USE DEF vars
<1>1. TypeOK'
  BY DEF IInv, TypeOK, TreeTypeOK
<1>2. TreeRooted' /\ TipsAreHeads' /\ LatestIsMainHead' /\ MainHeadIsLongest'
  BY DEF IInv, TreeRooted, TipsAreHeads, Tips, LatestIsMainHead, MainHeadIsLongest
<1>3. DownIsEmpty' /\ RowsAreTrees' /\ SavesCoverTree' /\ AckedIsSafe' /\ IndicesBounded'
  BY DEF IInv, DownIsEmpty, RowsAreTrees, SavesCoverTree, AckedIsSafe, IndicesBounded
<1>. QED  BY <1>1, <1>2, <1>3 DEF IInv

(* IInv is inductive: no call, save, failure, crash or restart breaks it.  *)
THEOREM Inductive == Spec => []IInv
<1>1. IInv /\ [Next]_vars => IInv'
  <2>. SUFFICES ASSUME IInv, [Next]_vars PROVE IInv'
    OBVIOUS
  <2>1. CASE \E b \in Honest : Genesis(b) \/ Add(b)
    BY <2>1, GenesisStep, AddStep
  <2>2. CASE \E b \in Block : TryAdd(b) \/ Switch(b)
    BY <2>2, TryAddStep, SwitchStep
  <2>3. CASE \E s \in Saver : SaveBegin(s) \/ SaveRow(s) \/ SaveFinish(s) \/ SaveFail(s)
    BY <2>3, SaveBeginStep, SaveRowStep, SaveFinishStep, SaveFailStep
  <2>4. CASE Crash
    BY <2>4, CrashStep
  <2>5. CASE Load
    BY <2>5, LoadStep
  <2>6. CASE UNCHANGED vars
    BY <2>6, StutterStep
  <2>. QED  BY <2>1, <2>2, <2>3, <2>4, <2>5, <2>6 DEF Next
<1>. QED  BY InitIInv, <1>1, PTL DEF Spec

(* Every variable keeps its type, in particular an entry of Heads is never *)
(* removed that is not there and only stored rows are flagged.             *)
THEOREM TypeCorrect == Spec => []TypeOK
BY Inductive, PTL DEF IInv

(* The tree stays one tree, closed under parents, with indices that count  *)
(* the distance to the genesis, also when it is rebuilt from the rows an   *)
(* interrupted save left.                                                  *)
THEOREM AlwaysTreeRooted == Spec => []TreeRooted
BY Inductive, PTL DEF IInv

(* No tip is ever missing from Heads.                                      *)
THEOREM AlwaysTipsAreHeads == Spec => []TipsAreHeads
BY Inductive, PTL DEF IInv

(* LatestHash and MainHead never disagree.                                 *)
THEOREM AlwaysLatestIsMainHead == Spec => []LatestIsMainHead
BY Inductive, PTL DEF IInv

(* Without a master override the main head is a longest chain, across      *)
(* restarts too.                                                           *)
THEOREM AlwaysMainHeadIsLongest == Spec => []MainHeadIsLongest
BY Inductive, PTL DEF IInv

(* The genesis under the blocks of a successful save never changes again.  *)
THEOREM AlwaysGenesisIsPermanent == Spec => []GenesisIsPermanent
<1>1. IInv => GenesisIsPermanent
  BY DEF IInv, AckedIsSafe, TreeRooted, GenesisIsPermanent
<1>. QED  BY <1>1, Inductive, PTL

------------------------------------------------------------------------------
(* A block that enters the tree is learnt: its parent was known, or it is  *)
(* the first and a root.                                                   *)
LEMMA InsertionIsLearn ==
  ASSUME IInv, NEW b \in Block, up, UNCHANGED <<up, acked>>,
         blockByHash' = blockByHash \cup {b},
         Prev[b] \in blockByHash \/ (blockByHash = {} /\ Prev[b] = NoBlock)
  PROVE  [Durable!DurableNext]_<<up, blockByHash, acked>>
<1>1. CASE b \in blockByHash
  BY <1>1
<1>2. CASE b \notin blockByHash
  BY <1>2 DEF Durable!DurableNext, Durable!Learn
<1>. QED  BY <1>1, <1>2

(* Each step of the store is a step of DurableTree or leaves its three     *)
(* variables alone.                                                        *)
LEMMA StepRefines ==
  ASSUME IInv, IInv', [Next]_vars
  PROVE  [Durable!DurableNext]_<<up, blockByHash, acked>>
<1>1. CASE \E b \in Honest : Genesis(b) \/ Add(b)
  <2>1. PICK b \in Honest : Genesis(b) \/ Add(b)
    BY <1>1
  <2>2. b \in Block
    BY BlockchainAssumption
  <2>3. CASE Genesis(b)
    <3>1. genesis = NoBlock /\ Prev[b] = NoBlock /\ up /\ UNCHANGED <<up, acked>>
            /\ blockByHash' = blockByHash \cup {b}
      BY <2>3 DEF Genesis, AddGenesis, MayBeGenesis, IsGenesis, WriteLock, dbVars
    <3>2. blockByHash = {}
      BY <3>1 DEF IInv, TreeRooted
    <3>. QED  BY <2>2, <3>1, <3>2, InsertionIsLearn
  <2>4. CASE Add(b)
    BY <2>2, <2>4, InsertionIsLearn DEF Add, AddBlock, HasParent, InsertIntoTree, WriteLock, dbVars
  <2>. QED  BY <2>1, <2>3, <2>4
<1>2. CASE \E b \in Block : TryAdd(b) \/ Switch(b)
  <2>1. PICK b \in Block : TryAdd(b) \/ Switch(b)
    BY <1>2
  <2>2. CASE TryAdd(b)
    BY <2>2, InsertionIsLearn
       DEF TryAdd, TryAddBlockWithForkResolution, HasParent, InsertIntoTree, WriteLock, dbVars
  <2>3. CASE Switch(b)
    BY <2>3 DEF Switch, SwitchToChain, dbVars
  <2>. QED  BY <2>1, <2>2, <2>3
<1>3. CASE \E s \in Saver : SaveBegin(s) \/ SaveRow(s) \/ SaveFinish(s) \/ SaveFail(s)
  <2>1. PICK s \in Saver : SaveBegin(s) \/ SaveRow(s) \/ SaveFinish(s) \/ SaveFail(s)
    BY <1>3
  <2>2. CASE SaveFinish(s)
    <3>1. up /\ UNCHANGED <<up, blockByHash>> /\ acked' = acked \cup blockByHash
      BY <2>2 DEF SaveFinish, treeVars, IInv, SavesCoverTree
    <3>. QED  BY <3>1 DEF Durable!DurableNext, Durable!Commit
  <2>3. CASE SaveBegin(s) \/ SaveRow(s) \/ SaveFail(s)
    BY <2>3 DEF SaveBegin, SaveRow, SaveFail, treeVars
  <2>. QED  BY <2>1, <2>2, <2>3
<1>4. CASE Crash
  BY <1>4 DEF Crash, Durable!DurableNext, Durable!Stop
<1>5. CASE Load
  <2>1. ~up /\ up' = TRUE /\ UNCHANGED acked
    BY <1>5 DEF Load
  <2>2. blockByHash' \in SUBSET Block /\ acked \subseteq blockByHash'
    BY <2>1 DEF IInv, TypeOK, TreeTypeOK, AckedIsSafe
  <2>3. Durable!RootedTree(blockByHash')
    <3>1. \A b \in blockByHash' : Ancestors(b) \subseteq blockByHash' /\ Path[b][1] = genesis'
      BY DEF IInv, TreeRooted
    <3>. QED  BY <3>1 DEF Durable!RootedTree, Durable!Ancestors, Ancestors
  <2>. QED  BY <2>1, <2>2, <2>3 DEF Durable!DurableNext, Durable!Recover
<1>6. CASE UNCHANGED vars
  BY <1>6 DEF vars
<1>. QED  BY <1>1, <1>2, <1>3, <1>4, <1>5, <1>6 DEF Next

(* The store implements DurableTree: what a successful save covered is     *)
(* known again after every restart, and what is known is always one rooted *)
(* tree grown block by block.                                              *)
THEOREM Refinement == Spec => ImplementsDurableTree
<1>1. Init => Durable!DurableInit
  BY DEF Init, EmptyTree, Durable!DurableInit
<1>2. IInv /\ IInv' /\ [Next]_vars => [Durable!DurableNext]_<<up, blockByHash, acked>>
  BY StepRefines
<1>. QED
  BY <1>1, <1>2, Inductive, PTL DEF Spec, ImplementsDurableTree, Durable!DurableSpec, Durable!durableVars
==============================================================================
