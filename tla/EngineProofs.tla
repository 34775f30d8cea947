----------------------------- MODULE EngineProofs -----------------------------
(***************************************************************************)
(* The safety of Engine for every universe of blocks, however many blocks  *)
(* arrive, and whatever the order in which the writers' critical sections  *)
(* fall.  The properties hold because of what a writer has established     *)
(* before it comes to its next step, while others have changed the tree:   *)
(* HolderOK says it of the holder of ce.mutex, SyncOK of SyncWithPeers,    *)
(* CreationOK of a block creation no unlocked writer has hit.              *)
(***************************************************************************)
EXTENDS Engine, ChainTreeTheorems

(* Blocks the holder has placed are in the tree; blocks it is to place may *)
(* be placed; blocks a pass will take off the map are on disk; the chains  *)
(* of a reorganization are chains of the tree, the new one longer.         *)
HolderOK ==
    /\ holder.by = "receive" /\ holder.pc = "save" => holder.block \in blockByHash
    /\ holder.by = "create" => /\ IndexFollows(holder.block)
                               /\ holder.pc = "save" => holder.block \in blockByHash
    /\ holder.by = "pass" => /\ holder.done \subseteq stored
                             /\ holder.block \in (blockByHash \cap pending) \cup {NoBlock}
    /\ holder.by = "reconcile" =>
         /\ genesis # NoBlock
         /\ holder.from \in blockByHash \cup {NoBlock}
         /\ holder.pc \in {"switch", "apply", "save"} => {holder.from, holder.to} \subseteq blockByHash
         /\ holder.pc = "apply" => Index[holder.from] < Index[holder.to]
         /\ holder.pc = "save" => holder.to \in reorganized

(* AddBlock does not check the index of what the sync gives it; the peer's *)
(* chain does.                                                             *)
SyncOK ==
    sync.pc = "add" => sync.block \in Block /\ (IsGenesis(sync.block) \/ IndexFollows(sync.block))

(* The parent of the block being created is still the main head.           *)
CreationOK ==
    ~disturbed /\ holder.by = "create" /\ holder.pc = "add" =>
        holder.block \notin blockByHash /\ Prev[holder.block] = mainHead

IInv ==
    /\ TypeOK
    /\ TreeInv
    /\ HolderOK
    /\ SyncOK
    /\ CreationOK
    /\ MainChainUndisturbed
    /\ NothingHeardIsLost
    /\ BroadcastIsDurable

------------------------------------------------------------------------------
(* What the type of holder says of each of its holders.                    *)
LEMMA HolderFields ==
  ASSUME HolderTypeOK
  PROVE  /\ holder.by = "receive" => holder.block \in Block
         /\ holder.by = "create" => holder.block \in Own
         /\ holder.by = "pass" => /\ holder.left \subseteq pending /\ holder.done \subseteq pending
                                  /\ holder.block \in Block \cup {NoBlock}
         /\ holder.by = "reconcile" => {holder.from, holder.to} \subseteq Block \cup {NoBlock}
<1>. USE DEF Free, Receiving, Creating, Passing, Reconciling
<1>1. CASE holder = Free
  BY <1>1
<1>2. ASSUME NEW b \in Block, NEW pc, holder = Receiving(b, pc)
      PROVE  holder.by = "receive" /\ holder.block = b
  BY <1>2
<1>3. ASSUME NEW b \in Own, NEW pc, holder = Creating(b, pc)
      PROVE  holder.by = "create" /\ holder.block = b
  BY <1>3
<1>4. ASSUME NEW left \in SUBSET pending, NEW done \in SUBSET pending, NEW b,
             holder = Passing(left, b, done)
      PROVE  holder.by = "pass" /\ holder.block = b /\ holder.left = left /\ holder.done = done
  BY <1>4
<1>5. ASSUME NEW from, NEW to, NEW pc, holder = Reconciling(pc, from, to)
      PROVE  holder.by = "reconcile" /\ holder.from = from /\ holder.to = to
  BY <1>5
<1>. HIDE DEF Free, Receiving, Creating, Passing, Reconciling
<1>6. CASE \E b \in Block, pc \in {"try", "save"} : holder = Receiving(b, pc)
  BY <1>2, <1>6
<1>7. CASE \E b \in Own, pc \in {"add", "save"} : holder = Creating(b, pc)
  BY <1>3, <1>7
<1>8. CASE \E left, done \in SUBSET pending, b \in Block \cup {NoBlock} : holder = Passing(left, b, done)
  BY <1>4, <1>8
<1>9. CASE \E from, to \in Block \cup {NoBlock}, pc \in {"forks", "switch", "reorganize", "apply", "save"} :
             holder = Reconciling(pc, from, to)
  BY <1>5, <1>9
<1>. QED  BY <1>1, <1>6, <1>7, <1>8, <1>9 DEF HolderTypeOK

(* A holder without a claim on the tree: free, or just begun.              *)
LEMMA FreeHolder ==
  ASSUME holder' = Free
  PROVE  HolderTypeOK' /\ HolderOK' /\ CreationOK'
BY DEF Free, HolderTypeOK, HolderOK, CreationOK

(* Tree and disk only grow, and what leaves pendingBlocks is on disk.      *)
LEMMA NothingGivenUp ==
  ASSUME IInv, heard' = heard, reorganized' = reorganized,
         blockByHash \subseteq blockByHash', stored \subseteq stored',
         pending \subseteq pending' \cup (stored' \cap blockByHash')
  PROVE  NothingHeardIsLost'
BY DEF IInv, NothingHeardIsLost, Overtaken

(* The disk only grows.                                                    *)
LEMMA NothingSent ==
  ASSUME IInv, sent' = sent, stored \subseteq stored'
  PROVE  BroadcastIsDurable'
BY DEF IInv, BroadcastIsDurable

(* A save stores the whole tree, or nothing.                               *)
LEMMA SaveStores ==
  ASSUME IInv, SaveToDisk \/ SaveFails, UNCHANGED treeVars
  PROVE  stored \subseteq stored' /\ stored' \subseteq blockByHash'
BY DEF IInv, TypeOK, SaveToDisk, SaveFails, treeVars

(* What a step that leaves the tree alone need not show.                   *)
LEMMA TreeUntouched ==
  ASSUME IInv, UNCHANGED <<treeVars, disturbed>>
  PROVE  TreeTypeOK' /\ TreeInv' /\ MainChainUndisturbed'
BY IdleKeeps DEF IInv, MainChainUndisturbed, MainChainInv, TreeInv

(* An unlocked writer that only adds blocks disturbs no claim of a holder  *)
(* but that of a block creation.                                           *)
LEMMA UnlockedWriter ==
  ASSUME IInv, UNCHANGED <<holder, pending, reorganized>>, blockByHash \subseteq blockByHash',
         stored \subseteq stored',
         genesis # NoBlock => genesis' # NoBlock
  PROVE  HolderTypeOK' /\ HolderOK'
<1>1. HolderTypeOK'
  BY DEF IInv, TypeOK, HolderTypeOK
<1>2. HolderOK'
  BY DEF IInv, HolderOK
<1>. QED  BY <1>1, <1>2

(* Place puts the block in the tree and keeps it in shape.                 *)
LEMMA PlaceKeeps ==
  ASSUME IInv, NEW b \in Block, Place(b), disturbed' = disturbed
  PROVE  /\ TreeInv' /\ b \in blockByHash' /\ blockByHash \subseteq blockByHash'
         /\ genesis' = genesis
         /\ MainChainUndisturbed'
<1>. USE DEF IInv, MainChainUndisturbed
<1>1. CASE TryAddBlockWithForkResolution(b)
  BY <1>1, TryAddKeeps DEF MainChainInv
<1>2. CASE b \in blockByHash /\ UNCHANGED treeVars
  BY <1>2, IdleKeeps DEF MainChainInv, treeVars
<1>. QED  BY <1>1, <1>2 DEF Place

LEMMA ReceiveKeeps == IInv /\ Receive => IInv'
<1>. SUFFICES ASSUME IInv, Receive PROVE IInv'
  OBVIOUS
<1>0. /\ TypeOK /\ TreeInv /\ HolderOK /\ SyncOK /\ HolderTypeOK
      /\ holder.by = "receive" => holder.block \in Block
  BY HolderFields DEF IInv, TypeOK
<1>1. ASSUME NEW b \in Offered \cup sent, ReceiveBegin(b)
      PROVE  IInv'
  <2>. USE <1>1 DEF ReceiveBegin, Lock
  <2>1. b \in Block
    BY <1>0, EngineAssumption DEF TypeOK
  <2>2. TreeTypeOK' /\ TreeInv' /\ MainChainUndisturbed'
    BY TreeUntouched
  <2>3. HolderTypeOK' /\ HolderOK' /\ CreationOK'
    BY <2>1 DEF HolderTypeOK, HolderOK, CreationOK, Receiving
  <2>4. TypeOK'
    BY <1>0, <2>2, <2>3 DEF TypeOK, treeVars
  <2>5. NothingHeardIsLost' /\ BroadcastIsDurable'
    BY NothingGivenUp, NothingSent DEF treeVars
  <2>. QED  BY <1>0, <2>2, <2>3, <2>4, <2>5 DEF IInv, SyncOK
<1>2. CASE ReceiveTry
  <2>. USE <1>2 DEF ReceiveTry
  <2>1. /\ TreeInv' /\ holder.block \in blockByHash' /\ blockByHash \subseteq blockByHash'
        /\ MainChainUndisturbed'
    BY <1>0, PlaceKeeps
  <2>2. HolderTypeOK' /\ HolderOK' /\ CreationOK'
    BY <1>0, <2>1 DEF HolderTypeOK, HolderOK, CreationOK, Receiving
  <2>3. TypeOK'
    BY <1>0, <2>1, <2>2 DEF TypeOK, TreeInv
  <2>4. NothingHeardIsLost' /\ BroadcastIsDurable'
    BY <2>1, NothingGivenUp, NothingSent
  <2>. QED  BY <1>0, <2>1, <2>2, <2>3, <2>4 DEF IInv, SyncOK
<1>3. CASE ReceivePark
  <2>. USE <1>3 DEF ReceivePark, Parked
  <2>1. TreeTypeOK' /\ TreeInv' /\ MainChainUndisturbed'
    BY TreeUntouched
  <2>2. HolderTypeOK' /\ HolderOK' /\ CreationOK'
    BY FreeHolder
  <2>3. TypeOK'
    BY <1>0, <2>1, <2>2 DEF TypeOK, treeVars
  <2>4. NothingHeardIsLost'
    BY DEF IInv, NothingHeardIsLost, Overtaken, treeVars
  <2>5. BroadcastIsDurable'
    BY NothingSent
  <2>. QED  BY <1>0, <2>1, <2>2, <2>3, <2>4, <2>5 DEF IInv, SyncOK
<1>4. CASE ReceiveSave
  <2>. USE <1>4 DEF ReceiveSave
  <2>1. TreeTypeOK' /\ TreeInv' /\ MainChainUndisturbed'
    BY TreeUntouched
  <2>2. HolderTypeOK' /\ HolderOK' /\ CreationOK'
    BY FreeHolder
  <2>3. stored \subseteq stored' /\ stored' \subseteq blockByHash'
    BY SaveStores
  <2>4. TypeOK'
    BY <1>0, <2>1, <2>2, <2>3 DEF TypeOK, treeVars
  <2>5. NothingHeardIsLost'
    <3>1. ASSUME SaveToDisk, heard' = heard \cup {holder.block}
          PROVE  NothingHeardIsLost'
      <4>1. holder.block \in stored' \cap blockByHash'
        BY <1>0, <3>1 DEF HolderOK, SaveToDisk, treeVars
      <4>. QED  BY <2>3, <3>1, <4>1 DEF IInv, NothingHeardIsLost, Overtaken, treeVars
    <3>2. ASSUME heard' = heard
          PROVE  NothingHeardIsLost'
      BY <2>3, <3>2, NothingGivenUp DEF treeVars
    <3>. QED  BY <3>1, <3>2
  <2>6. BroadcastIsDurable'
    BY <2>3, NothingSent
  <2>. QED  BY <1>0, <2>1, <2>2, <2>4, <2>5, <2>6 DEF IInv, SyncOK
<1>. QED  BY <1>1, <1>2, <1>3, <1>4 DEF Receive

LEMMA PassKeeps == IInv /\ Pass => IInv'
<1>. SUFFICES ASSUME IInv, Pass PROVE IInv'
  OBVIOUS
<1>0. /\ TypeOK /\ TreeInv /\ HolderOK /\ SyncOK /\ HolderTypeOK
      /\ holder.by = "pass" => /\ holder.left \subseteq pending /\ holder.done \subseteq pending
                               /\ holder.block \in Block \cup {NoBlock}
      /\ pending \subseteq Block /\ NoBlock \notin Block
  BY HolderFields, BlockAssumption DEF IInv, TypeOK
<1>1. CASE PassBegin
  <2>. USE <1>1 DEF PassBegin, Lock
  <2>1. TreeTypeOK' /\ TreeInv' /\ MainChainUndisturbed'
    BY TreeUntouched
  <2>2. HolderTypeOK' /\ HolderOK' /\ CreationOK'
    BY DEF HolderTypeOK, HolderOK, CreationOK, Passing
  <2>3. TypeOK'
    BY <1>0, <2>1, <2>2 DEF TypeOK, treeVars
  <2>4. NothingHeardIsLost' /\ BroadcastIsDurable'
    BY NothingGivenUp, NothingSent DEF treeVars
  <2>. QED  BY <1>0, <2>1, <2>2, <2>3, <2>4 DEF IInv, SyncOK
<1>2. CASE PassTry
  <2>. USE <1>2 DEF PassTry
  <2>1. PICK b \in holder.left :
          \/ Place(b) /\ holder' = Passing(holder.left \ {b}, b, holder.done)
          \/ UNCHANGED treeVars /\ holder' = Passing(holder.left \ {b}, NoBlock, holder.done)
    OBVIOUS
  <2>2. b \in pending /\ b \in Block
    BY <1>0
  <2>3. CASE Place(b) /\ holder' = Passing(holder.left \ {b}, b, holder.done)
    <3>. USE <2>3
    <3>1. /\ TreeInv' /\ b \in blockByHash' /\ blockByHash \subseteq blockByHash'
          /\ MainChainUndisturbed'
      BY <2>2, PlaceKeeps
    <3>2. HolderTypeOK'
      BY <1>0, <2>2 DEF HolderTypeOK
    <3>3. HolderOK' /\ CreationOK'
      BY <1>0, <2>2, <3>1 DEF HolderOK, CreationOK, Passing
    <3>4. TypeOK'
      BY <1>0, <3>1, <3>2 DEF TypeOK, TreeInv
    <3>5. NothingHeardIsLost' /\ BroadcastIsDurable'
      BY <3>1, NothingGivenUp, NothingSent
    <3>. QED  BY <1>0, <3>1, <3>3, <3>4, <3>5 DEF IInv, SyncOK
  <2>4. CASE UNCHANGED treeVars /\ holder' = Passing(holder.left \ {b}, NoBlock, holder.done)
    <3>. USE <2>4
    <3>1. TreeTypeOK' /\ TreeInv' /\ MainChainUndisturbed'
      BY TreeUntouched
    <3>2. HolderTypeOK'
      BY <1>0 DEF HolderTypeOK
    <3>3. HolderOK' /\ CreationOK'
      BY <1>0 DEF HolderOK, CreationOK, Passing, treeVars
    <3>4. TypeOK'
      BY <1>0, <3>1, <3>2 DEF TypeOK, treeVars
    <3>5. NothingHeardIsLost' /\ BroadcastIsDurable'
      BY NothingGivenUp, NothingSent DEF treeVars
    <3>. QED  BY <1>0, <3>1, <3>3, <3>4, <3>5 DEF IInv, SyncOK
  <2>. QED  BY <2>1, <2>3, <2>4
<1>3. CASE PassSave
  <2>. USE <1>3 DEF PassSave
  <2>1. TreeTypeOK' /\ TreeInv' /\ MainChainUndisturbed'
    BY TreeUntouched
  <2>2. stored \subseteq stored' /\ stored' \subseteq blockByHash'
    BY SaveStores
  <2>3. holder.block \in blockByHash \cap pending
    BY <1>0 DEF HolderOK
  <2>4. PICK done : /\ holder' = Passing(holder.left, NoBlock, done)
                    /\ \/ SaveToDisk /\ done = holder.done \cup {holder.block}
                       \/ done = holder.done
    BY DEF Processed
  <2>5. done \subseteq pending /\ done \subseteq stored'
    BY <1>0, <2>2, <2>3, <2>4 DEF HolderOK, SaveToDisk
  <2>6. HolderTypeOK'
    BY <1>0, <2>4, <2>5 DEF HolderTypeOK
  <2>7. HolderOK' /\ CreationOK'
    BY <2>4, <2>5 DEF HolderOK, CreationOK, Passing, treeVars
  <2>8. TypeOK'
    BY <1>0, <2>1, <2>2, <2>6 DEF TypeOK, treeVars
  <2>9. NothingHeardIsLost' /\ BroadcastIsDurable'
    BY <2>2, NothingGivenUp, NothingSent DEF treeVars
  <2>. QED  BY <1>0, <2>1, <2>7, <2>8, <2>9 DEF IInv, SyncOK
<1>4. CASE PassEnd
  <2>. USE <1>4 DEF PassEnd, Remaining
  <2>1. TreeTypeOK' /\ TreeInv' /\ MainChainUndisturbed'
    BY TreeUntouched
  <2>2. HolderTypeOK' /\ HolderOK' /\ CreationOK'
    BY FreeHolder
  <2>3. TypeOK'
    BY <1>0, <2>1, <2>2 DEF TypeOK, treeVars
  <2>4. NothingHeardIsLost'
    BY <1>0, NothingGivenUp DEF HolderOK, TypeOK, treeVars
  <2>5. BroadcastIsDurable'
    BY NothingSent
  <2>. QED  BY <1>0, <2>1, <2>2, <2>3, <2>4, <2>5 DEF IInv, SyncOK
<1>. QED  BY <1>1, <1>2, <1>3, <1>4 DEF Pass

LEMMA CreateKeeps == IInv /\ Create => IInv'
<1>. SUFFICES ASSUME IInv, Create PROVE IInv'
  OBVIOUS
<1>0. /\ TypeOK /\ TreeInv /\ HolderOK /\ SyncOK /\ HolderTypeOK
      /\ holder.by = "create" => holder.block \in Own
      /\ Own \subseteq Block
  BY HolderFields, EngineAssumption DEF IInv, TypeOK
<1>1. ASSUME NEW b \in Own, CreateBegin(b)
      PROVE  IInv'
  <2>. USE <1>1 DEF CreateBegin, Lock
  <2>1. TreeTypeOK' /\ TreeInv' /\ MainChainUndisturbed'
    BY TreeUntouched
  <2>2. HolderTypeOK' /\ HolderOK'
    BY DEF HolderTypeOK, HolderOK, Creating
  <2>3. ~disturbed => Prev[b] = mainHead
    BY <1>0, LatestInTree DEF IInv, MainChainUndisturbed, Builds
  <2>4. CreationOK'
    BY <2>3 DEF CreationOK, Creating, treeVars
  <2>5. TypeOK'
    BY <1>0, <2>1, <2>2 DEF TypeOK, treeVars
  <2>6. NothingHeardIsLost' /\ BroadcastIsDurable'
    BY NothingGivenUp, NothingSent DEF treeVars
  <2>. QED  BY <1>0, <2>1, <2>2, <2>4, <2>5, <2>6 DEF IInv, SyncOK
<1>2. CASE CreateAdd
  <2>. USE <1>2 DEF CreateAdd
  <2>1. holder.block \in Block /\ IndexFollows(holder.block)
    BY <1>0 DEF HolderOK
  <2>2. /\ TreeInv' /\ holder.block \in blockByHash' /\ blockByHash \subseteq blockByHash'
        /\ MainChainInv /\ holder.block \notin blockByHash /\ Prev[holder.block] = mainHead
             => MainChainInv'
    BY <1>0, <2>1, AddBlockKeeps
  <2>3. MainChainUndisturbed'
    BY <2>2 DEF IInv, CreationOK, MainChainUndisturbed, MainChainInv
  <2>4. HolderTypeOK' /\ HolderOK' /\ CreationOK'
    BY <1>0, <2>1, <2>2 DEF HolderTypeOK, HolderOK, CreationOK, Creating
  <2>5. TypeOK'
    BY <1>0, <2>2, <2>4 DEF TypeOK, TreeInv
  <2>6. NothingHeardIsLost' /\ BroadcastIsDurable'
    BY <2>2, NothingGivenUp, NothingSent
  <2>. QED  BY <1>0, <2>2, <2>3, <2>4, <2>5, <2>6 DEF IInv, SyncOK
<1>3. CASE CreateSave
  <2>. USE <1>3 DEF CreateSave, SentAfterSave
  <2>1. TreeTypeOK' /\ TreeInv' /\ MainChainUndisturbed'
    BY TreeUntouched
  <2>2. HolderTypeOK' /\ HolderOK' /\ CreationOK'
    BY FreeHolder
  <2>3. stored \subseteq stored' /\ stored' \subseteq blockByHash'
    BY SaveStores
  <2>4. TypeOK'
    BY <1>0, <2>1, <2>2, <2>3 DEF TypeOK, treeVars
  <2>5. NothingHeardIsLost'
    BY <2>3, NothingGivenUp DEF treeVars
  <2>6. BroadcastIsDurable'
    <3>1. CASE SaveToDisk /\ sent' = sent \cup {holder.block}
      <4>1. Ancestors(holder.block) \subseteq stored'
        BY <1>0, <3>1 DEF HolderOK, TreeInv, TreeRooted, SaveToDisk
      <4>. QED  BY <2>3, <3>1, <4>1 DEF IInv, BroadcastIsDurable
    <3>2. CASE sent' = sent
      BY <2>3, <3>2, NothingSent
    <3>. QED  BY <3>1, <3>2
  <2>. QED  BY <1>0, <2>1, <2>2, <2>4, <2>5, <2>6 DEF IInv, SyncOK
<1>. QED  BY <1>1, <1>2, <1>3 DEF Create

(* The steps of SyncWithPeers that leave the tree alone.                   *)
LEMMA SyncQuiet ==
  ASSUME IInv, UNCHANGED <<treeVars, holder, pending, sent, heard, disturbed, reorganized>>,
         stored \subseteq stored', stored' \subseteq blockByHash',
         sync' \in [pc : {"off", "ask", "add", "save"}, left : 0..Requests, index : Nat,
                    missed : 0..(MaxMissed - 1), block : Block \cup {NoBlock}],
         SyncOK'
  PROVE  IInv'
<1>1. TreeTypeOK' /\ TreeInv' /\ MainChainUndisturbed'
  BY TreeUntouched
<1>2. HolderTypeOK' /\ HolderOK'
  BY UnlockedWriter DEF treeVars
<1>3. CreationOK'
  BY DEF IInv, CreationOK, treeVars
<1>4. TypeOK'
  BY <1>1, <1>2 DEF IInv, TypeOK
<1>5. NothingHeardIsLost' /\ BroadcastIsDurable'
  BY NothingGivenUp, NothingSent DEF treeVars
<1>. QED  BY <1>1, <1>2, <1>3, <1>4, <1>5 DEF IInv

LEMMA SyncKeeps == IInv /\ Sync => IInv'
<1>. SUFFICES ASSUME IInv, Sync PROVE IInv'
  OBVIOUS
<1>. DEFINE S == [pc : {"off", "ask", "add", "save"}, left : 0..Requests, index : Nat,
                  missed : 0..(MaxMissed - 1), block : Block \cup {NoBlock}]
<1>0. /\ TypeOK /\ TreeInv /\ HolderOK /\ SyncOK /\ HolderTypeOK
      /\ sync \in S /\ stored \subseteq blockByHash
      /\ MaxMissed \in Nat \ {0} /\ Requests \in Nat
      /\ Len(blocks) \in Nat
  BY LenProperties, EngineAssumption DEF IInv, TypeOK, TreeTypeOK
<1>9. /\ sync.left \in 0..Requests /\ sync.index \in Nat /\ sync.missed \in 0..(MaxMissed - 1)
      /\ sync.block \in Block \cup {NoBlock} /\ 0 \in 0..(MaxMissed - 1) /\ sync.index + 1 \in Nat
  BY <1>0
<1>1. NoSync \in S /\ [NoSync EXCEPT !.left = sync.left] \in S /\ SyncNext \in S
  <2>1. [NoSync EXCEPT !.left = sync.left] \in S
    BY <1>0, <1>9 DEF NoSync
  <2>2. SyncNext \in S
    BY <1>0, <1>9 DEF SyncNext
  <2>3. NoSync \in S
    BY <1>0, <1>9 DEF NoSync
  <2>. QED  BY <2>1, <2>2, <2>3
<1>2. CASE SyncBegin
  <2>0. sync.left - 1 \in 0..Requests
    BY <1>0, <1>9, <1>2 DEF SyncBegin
  <2>1. sync' \in S /\ sync'.pc = "ask"
    BY <1>0, <1>9, <1>2, <2>0 DEF SyncBegin
  <2>. QED  BY <1>0, <1>2, <2>1, SyncQuiet DEF SyncBegin, SyncOK, treeVars
<1>3. ASSUME NEW b \in Foreign, SyncFound(b)
      PROVE  IInv'
  <2>1. sync' \in S /\ sync'.block = b
    BY <1>0, <1>9, <1>3, EngineAssumption DEF SyncFound
  <2>2. SyncOK'
    BY <1>3, <2>1, EngineAssumption DEF SyncFound, SyncOK, IsGenesis, IndexFollows
  <2>. QED  BY <1>0, <1>3, <2>1, <2>2, SyncQuiet DEF SyncFound, treeVars
<1>4. CASE SyncMissed
  <2>1. sync' \in S /\ sync'.pc \in {"ask", "off"}
    <3>1. CASE MayMissMore(sync.missed)
      <4>1. sync.missed + 1 \in 0..(MaxMissed - 1)
        BY <1>0, <1>9, <3>1 DEF MayMissMore
      <4>. QED  BY <1>0, <1>9, <1>4, <3>1, <4>1 DEF SyncMissed
    <3>2. CASE ~MayMissMore(sync.missed)
      BY <1>0, <1>1, <1>4, <3>2 DEF SyncMissed, NoSync
    <3>. QED  BY <3>1, <3>2
  <2>. QED  BY <1>0, <1>4, <2>1, SyncQuiet DEF SyncMissed, SyncOK, treeVars
<1>5. CASE SyncBroken
  <2>1. sync' \in S /\ sync'.pc = "off"
    BY <1>0, <1>1, <1>5 DEF SyncBroken, NoSync
  <2>. QED  BY <1>0, <1>5, <2>1, SyncQuiet DEF SyncBroken, SyncOK, treeVars
<1>6. CASE SyncAdd
  <2>. USE <1>6 DEF SyncAdd
  <2>1. CASE UNCHANGED <<treeVars, disturbed>> /\ sync' = SyncNext
    <3>1. sync'.pc = "ask"
      BY <1>0, <2>1 DEF SyncNext
    <3>. QED  BY <1>0, <1>1, <2>1, <3>1, SyncQuiet DEF SyncOK, treeVars
  <2>2. CASE /\ AddGenesis(sync.block) \/ AddBlock(sync.block)
             /\ sync' = [sync EXCEPT !.pc = "save"]
             /\ disturbed' = \/ disturbed
                             \/ holder.by = "create"
                             \/ sync.block \in blockByHash
                             \/ genesis # NoBlock /\ Prev[sync.block] # mainHead
    <3>. USE <2>2
    <3>1. sync' \in S /\ sync'.pc = "save" /\ SyncOK'
      BY <1>0 DEF SyncOK
    <3>2. /\ TreeInv' /\ blockByHash \subseteq blockByHash' /\ genesis' # NoBlock
          /\ MainChainUndisturbed'
      <4>1. CASE AddGenesis(sync.block)
        <5>1. sync.block \in Block
          BY <1>0, <4>1, BlockAssumption DEF AddGenesis, MayBeGenesis, IsGenesis, SyncOK, IndexFollows
        <5>. QED  BY <1>0, <4>1, <5>1, AddGenesisKeeps DEF MainChainUndisturbed, MainChainInv
      <4>2. CASE AddBlock(sync.block)
        <5>1. Prev[sync.block] \in Block
          BY <1>0, <4>2 DEF AddBlock, HasParent, TreeInv, TreeTypeOK
        <5>2. sync.block \in Block /\ IndexFollows(sync.block)
          BY <1>0, <5>1, BlockAssumption DEF SyncOK, IsGenesis
        <5>3. genesis # NoBlock
          BY <4>2 DEF AddBlock
        <5>. QED  BY <1>0, <4>2, <5>2, <5>3, AddBlockKeeps DEF IInv, MainChainUndisturbed, MainChainInv
      <4>. QED  BY <4>1, <4>2
    <3>3. HolderTypeOK' /\ HolderOK'
      BY <3>2, UnlockedWriter
    <3>4. CreationOK'
      BY DEF CreationOK
    <3>5. disturbed' \in BOOLEAN
      BY <1>0 DEF TypeOK
    <3>6. TypeOK'
      BY <1>0, <3>1, <3>2, <3>3, <3>5 DEF TypeOK, TreeInv
    <3>7. NothingHeardIsLost' /\ BroadcastIsDurable'
      BY <3>2, NothingGivenUp, NothingSent
    <3>. QED  BY <3>1, <3>2, <3>3, <3>4, <3>6, <3>7 DEF IInv
  <2>. QED  BY <2>1, <2>2
<1>7. CASE SyncSave
  <2>1. stored \subseteq stored' /\ stored' \subseteq blockByHash'
    BY <1>7, SaveStores DEF SyncSave
  <2>2. sync'.pc = "ask"
    BY <1>0, <1>7 DEF SyncSave, SyncNext
  <2>. QED  BY <1>1, <1>7, <2>1, <2>2, SyncQuiet DEF SyncSave, SyncOK
<1>. QED  BY <1>2, <1>3, <1>4, <1>5, <1>6, <1>7 DEF Sync

(* The head a reorganization chooses is in the tree: Heads names no block  *)
(* that is not.                                                            *)
LEMMA BetterInTree ==
  ASSUME IInv, NEW from, NEW b \in Better(from)
  PROVE  b \in blockByHash /\ Index[from] < Index[b]
BY BlockAssumption DEF Better, Longest, InHeads, IInv, TypeOK, TreeTypeOK, TreeInv, TipsAreHeads

(* A longer chain has a block at every index of a shorter one.             *)
LEMMA LongerOvertakes ==
  ASSUME TreeInv, NEW from \in blockByHash, NEW to \in blockByHash, Index[from] <= Index[to],
         NEW b \in Ancestors(from)
  PROVE  \E c \in Ancestors(to) : Index[c] = Index[b]
<1>1. /\ Ancestors(from) \subseteq blockByHash /\ Ancestors(to) \subseteq blockByHash
      /\ blockByHash \subseteq Block
      /\ \A c \in blockByHash : Index[c] + 1 = Len(Path[c])
  BY DEF TreeInv, TreeTypeOK, TreeRooted
<1>2. \A c \in Block : Len(Path[c]) \in Nat \ {0} /\ Index[c] \in Nat
  BY PathShape, BlockAssumption
<1>3. Len(Path[b]) <= Len(Path[from]) /\ Len(Path[from]) <= Len(Path[to])
  BY <1>1, <1>2, OneAncestorPerDepth
<1>4. Len(Path[b]) \in 1..Len(Path[to])
  BY <1>1, <1>2, <1>3
<1>5. PICK c \in Ancestors(to) : Len(Path[c]) = Len(Path[b])
  BY <1>1, <1>4, OneAncestorPerDepth
<1>6. Index[c] = Index[b]
  BY <1>1, <1>2, <1>5
<1>. QED  BY <1>6

LEMMA ReconcileKeeps == IInv /\ Reconcile => IInv'
<1>. SUFFICES ASSUME IInv, Reconcile PROVE IInv'
  OBVIOUS
<1>0. /\ TypeOK /\ TreeInv /\ HolderOK /\ SyncOK /\ HolderTypeOK
      /\ holder.by = "reconcile" => {holder.from, holder.to} \subseteq Block \cup {NoBlock}
      /\ blockByHash \subseteq Block
  BY HolderFields DEF IInv, TypeOK, TreeTypeOK
<1>1. CASE ReconcileBegin
  <2>. USE <1>1 DEF ReconcileBegin, Lock
  <2>1. TreeTypeOK' /\ TreeInv' /\ MainChainUndisturbed'
    BY TreeUntouched
  <2>2. HolderTypeOK' /\ HolderOK' /\ CreationOK'
    BY DEF HolderTypeOK, HolderOK, CreationOK, Reconciling, treeVars
  <2>3. TypeOK'
    BY <1>0, <2>1, <2>2 DEF TypeOK, treeVars
  <2>4. NothingHeardIsLost' /\ BroadcastIsDurable'
    BY NothingGivenUp, NothingSent DEF treeVars
  <2>. QED  BY <1>0, <2>1, <2>2, <2>3, <2>4 DEF IInv, SyncOK
<1>2. CASE ReconcileLatest \/ ReconcileForks \/ ReconcileReorganize
  <2>. USE <1>2 DEF ReconcileLatest, ReconcileForks, ReconcileReorganize
  <2>1. /\ holder.by = "reconcile"
        /\ UNCHANGED <<treeVars, pending, sync, stored, sent, heard, disturbed, reorganized>>
    OBVIOUS
  <2>2. TreeTypeOK' /\ TreeInv' /\ MainChainUndisturbed'
    BY <2>1, TreeUntouched
  <2>3. HolderTypeOK' /\ HolderOK' /\ CreationOK'
    <3>1. CASE ReconcileLatest
      <4>1. LatestBlock \in blockByHash
        BY <1>0, <2>1, LatestInTree DEF HolderOK
      <4>2. PICK pc \in {"forks", "reorganize"} : holder' = Reconciling(pc, LatestBlock, NoBlock)
        BY <3>1
      <4>3. HolderTypeOK'
        BY <1>0, <4>1, <4>2 DEF HolderTypeOK
      <4>4. HolderOK' /\ CreationOK'
        BY <1>0, <2>1, <4>1, <4>2 DEF HolderOK, CreationOK, Reconciling, treeVars
      <4>. QED  BY <4>3, <4>4
    <3>2. CASE /\ holder.from # NoBlock
               /\ \E b \in Better(holder.from), pc \in {"switch", "apply"} :
                    holder' = Reconciling(pc, holder.from, b)
      <4>1. PICK b \in Better(holder.from), pc \in {"switch", "apply"} :
               holder' = Reconciling(pc, holder.from, b)
        BY <3>2
      <4>2. b \in blockByHash /\ holder.from \in blockByHash /\ Index[holder.from] < Index[b]
        BY <1>0, <2>1, <3>2, BetterInTree DEF HolderOK
      <4>3. HolderTypeOK'
        BY <1>0, <4>1, <4>2 DEF HolderTypeOK
      <4>4. HolderOK' /\ CreationOK'
        BY <1>0, <2>1, <4>1, <4>2 DEF HolderOK, CreationOK, Reconciling, treeVars
      <4>. QED  BY <4>3, <4>4
    <3>3. CASE holder' = Reconciling("reorganize", NoBlock, NoBlock)
      <4>1. HolderTypeOK'
        BY <3>3 DEF HolderTypeOK
      <4>2. HolderOK' /\ CreationOK'
        BY <1>0, <2>1, <3>3 DEF HolderOK, CreationOK, Reconciling, treeVars
      <4>. QED  BY <4>1, <4>2
    <3>4. CASE holder' = Free
      BY <3>4, FreeHolder
    <3>. QED  BY <3>1, <3>2, <3>3, <3>4
  <2>4. TypeOK'
    BY <1>0, <2>1, <2>2, <2>3 DEF TypeOK, treeVars
  <2>5. NothingHeardIsLost' /\ BroadcastIsDurable'
    BY <2>1, NothingGivenUp, NothingSent DEF treeVars
  <2>. QED  BY <1>0, <2>1, <2>2, <2>3, <2>4, <2>5 DEF IInv, SyncOK
<1>3. CASE ReconcileSwitch
  <2>. USE <1>3 DEF ReconcileSwitch
  <2>1. TreeInv' /\ blockByHash' = blockByHash /\ genesis' = genesis /\ MainChainUndisturbed'
    BY <1>0, SwitchKeeps DEF IInv, MainChainUndisturbed, MainChainInv
  <2>2. HolderTypeOK' /\ HolderOK' /\ CreationOK'
    BY <1>0, <2>1 DEF HolderTypeOK, HolderOK, CreationOK, Reconciling
  <2>3. TypeOK'
    BY <1>0, <2>1, <2>2 DEF TypeOK, TreeInv
  <2>4. NothingHeardIsLost' /\ BroadcastIsDurable'
    BY <2>1, NothingGivenUp, NothingSent
  <2>. QED  BY <1>0, <2>1, <2>2, <2>3, <2>4 DEF IInv, SyncOK
<1>4. CASE ReconcileApply
  <2>. USE <1>4 DEF ReconcileApply
  <2>1. TreeInv' /\ blockByHash' = blockByHash /\ genesis' = genesis /\ MainChainUndisturbed'
    BY <1>0, SwitchKeeps DEF IInv, MainChainUndisturbed, MainChainInv
  <2>2. {holder.from, holder.to} \subseteq blockByHash /\ Index[holder.from] < Index[holder.to]
    BY <1>0 DEF HolderOK
  <2>3. HolderTypeOK'
    BY <1>0, <2>2 DEF HolderTypeOK
  <2>4. HolderOK' /\ CreationOK'
    BY <1>0, <2>1, <2>2 DEF HolderOK, CreationOK, Reconciling
  <2>5. TypeOK'
    BY <1>0, <2>1, <2>2, <2>3 DEF TypeOK, TreeInv
  <2>6. NothingHeardIsLost'
    <3>1. ASSUME NEW b \in RolledBack(holder.from, holder.to) \cup Applied(holder.from, holder.to)
          PROVE  b \in blockByHash /\ \E c \in Ancestors(holder.to) : Index[c] = Index[b]
      <4>1. Index[holder.from] <= Index[holder.to]
        BY <1>0, <2>2, BlockAssumption
      <4>2. CASE b \in Ancestors(holder.from)
        BY <1>0, <2>2, <4>1, <4>2, LongerOvertakes DEF TreeInv, TreeRooted
      <4>3. CASE b \in Ancestors(holder.to)
        BY <1>0, <2>2, <4>3 DEF TreeInv, TreeRooted
      <4>. QED  BY <4>2, <4>3 DEF RolledBack, Applied
    <3>2. /\ heard' = heard /\ stored' = stored /\ reorganized' = reorganized \cup {holder.to}
          /\ pending' = pending \ (RolledBack(holder.from, holder.to) \cup Applied(holder.from, holder.to))
      OBVIOUS
    <3>3. NothingHeardIsLost
      BY DEF IInv
    <3>. HIDE <1>4
    <3>. QED  BY <2>1, <3>1, <3>2, <3>3 DEF NothingHeardIsLost, Overtaken
  <2>7. BroadcastIsDurable'
    BY NothingSent
  <2>. QED  BY <1>0, <2>1, <2>4, <2>5, <2>6, <2>7 DEF IInv, SyncOK
<1>5. CASE ReconcileSave
  <2>. USE <1>5 DEF ReconcileSave
  <2>1. TreeTypeOK' /\ TreeInv' /\ MainChainUndisturbed'
    BY TreeUntouched
  <2>2. HolderTypeOK' /\ HolderOK' /\ CreationOK'
    BY FreeHolder
  <2>3. stored \subseteq stored' /\ stored' \subseteq blockByHash'
    BY SaveStores
  <2>4. /\ holder.to \in blockByHash /\ Ancestors(holder.to) \subseteq blockByHash
        /\ holder.to \in reorganized
    BY <1>0 DEF HolderOK, TreeInv, TreeRooted
  <2>5. TypeOK'
    BY <1>0, <2>1, <2>2, <2>3, <2>4 DEF TypeOK, treeVars
  <2>6. NothingHeardIsLost'
    <3>1. ASSUME NEW b \in pending \ pending'
          PROVE  \E c \in Ancestors(holder.to) : Index[c] = Index[b] /\ c # b
      BY <3>1 DEF Stale
    <3>2. /\ heard' = heard /\ reorganized' = reorganized
          /\ blockByHash' = blockByHash /\ stored \subseteq stored'
      BY <2>3 DEF treeVars
    <3>3. NothingHeardIsLost /\ holder.to \in reorganized
      BY <2>4 DEF IInv
    <3>. HIDE <1>5
    <3>. QED  BY <3>1, <3>2, <3>3 DEF NothingHeardIsLost, Overtaken
  <2>7. BroadcastIsDurable'
    <3>1. CASE SaveToDisk /\ sent' = sent \cup {holder.to}
      <4>1. Ancestors(holder.to) \subseteq stored'
        BY <2>4, <3>1 DEF SaveToDisk
      <4>. QED  BY <2>3, <3>1, <4>1 DEF IInv, BroadcastIsDurable
    <3>2. CASE sent' = sent
      BY <2>3, <3>2, NothingSent
    <3>. QED  BY <3>1, <3>2
  <2>. QED  BY <1>0, <2>1, <2>2, <2>5, <2>6, <2>7 DEF IInv, SyncOK
<1>. QED  BY <1>1, <1>2, <1>3, <1>4, <1>5 DEF Reconcile

LEMMA OverrideKeeps ==
  ASSUME IInv, NEW b \in Block, Override(b)
  PROVE  IInv'
<1>. USE DEF Override
<1>0. TypeOK /\ TreeInv /\ SyncOK
  BY DEF IInv
<1>1. /\ TreeInv' /\ blockByHash' = blockByHash /\ genesis' = genesis
      /\ MainChainInv => MainChainInv'
  BY <1>0, SwitchKeeps
<1>2. disturbed' \in BOOLEAN /\ MainChainUndisturbed' /\ CreationOK'
  BY <1>0, <1>1 DEF IInv, TypeOK, MainChainUndisturbed, MainChainInv, CreationOK
<1>3. HolderTypeOK' /\ HolderOK'
  BY <1>1, UnlockedWriter
<1>4. TypeOK'
  BY <1>0, <1>1, <1>2, <1>3 DEF TypeOK, TreeInv
<1>5. NothingHeardIsLost' /\ BroadcastIsDurable'
  BY <1>1, NothingGivenUp, NothingSent
<1>. QED  BY <1>0, <1>1, <1>2, <1>3, <1>4, <1>5 DEF IInv, SyncOK

(* A stuttering step.                                                      *)
LEMMA StutterKeeps == IInv /\ UNCHANGED vars => IInv'
<1>. SUFFICES ASSUME IInv, UNCHANGED vars PROVE IInv'
  OBVIOUS
<1>1. UNCHANGED <<treeVars, holder, pending, sync, stored, sent, heard, disturbed, reorganized>>
  BY DEF vars, treeVars
<1>2. stored' \subseteq blockByHash' /\ SyncOK'
  BY <1>1 DEF IInv, TypeOK, SyncOK, treeVars
<1>. QED  BY <1>1, <1>2, SyncQuiet DEF IInv, TypeOK

LEMMA NextKeeps == IInv /\ [Next]_vars => IInv'
BY ReceiveKeeps, PassKeeps, CreateKeeps, SyncKeeps, ReconcileKeeps, OverrideKeeps, StutterKeeps DEF Next

------------------------------------------------------------------------------
(* A node starts with its genesis or with nothing.                         *)
LEMMA InitIInv == Init => IInv
<1>. SUFFICES ASSUME Init PROVE IInv
  OBVIOUS
<1>. USE DEF Init
<1>1. TreeInv /\ MainChainUndisturbed
  <2>1. CASE LoadedTree
    <3>. USE <2>1 DEF LoadedTree
    <3>1. Root \in Block /\ Prev[Root] = NoBlock /\ Index[Root] = 0
      BY EngineAssumption DEF IsGenesis
    <3>2. /\ Path[Root] = <<Root>> /\ Ancestors(Root) = {Root} /\ Root # NoBlock
      BY <3>1, PathShape, AncestorsShape, BlockAssumption
    <3>3. TreeTypeOK
      BY <3>1 DEF TreeTypeOK
    <3>4. Path[Root][1] = Root /\ Index[Root] + 1 = Len(Path[Root])
      BY <3>1, <3>2
    <3>5. TreeRooted
      BY <3>2, <3>4 DEF TreeRooted
    <3>6. TipsAreHeads /\ ForkCountIsExact
      BY <3>1, <3>2 DEF TipsAreHeads, ForkCountIsExact, Tips
    <3>7. LatestIsMainHead /\ ArrayInTree /\ BlocksAreMainChain
      BY <3>2 DEF LatestIsMainHead, ArrayInTree, BlocksAreMainChain
    <3>. QED  BY <3>3, <3>5, <3>6, <3>7 DEF TreeInv, MainChainUndisturbed
  <2>2. CASE EmptyTree
    <3>. USE <2>2 DEF EmptyTree
    <3>1. TreeTypeOK
      BY EmptySeq DEF TreeTypeOK
    <3>2. TreeRooted /\ TipsAreHeads /\ ForkCountIsExact
      BY DEF TreeRooted, TipsAreHeads, ForkCountIsExact, Tips
    <3>3. LatestIsMainHead /\ ArrayInTree /\ BlocksAreMainChain
      BY DEF LatestIsMainHead, ArrayInTree, BlocksAreMainChain
    <3>. QED  BY <3>1, <3>2, <3>3 DEF TreeInv, MainChainUndisturbed
  <2>. QED  BY <2>1, <2>2
<1>2. HolderTypeOK /\ HolderOK /\ CreationOK
  BY DEF Free, HolderTypeOK, HolderOK, CreationOK
<1>3. sync.pc = "off" /\ sync \in [pc : {"off", "ask", "add", "save"}, left : 0..Requests, index : Nat,
                                   missed : 0..(MaxMissed - 1), block : Block \cup {NoBlock}]
  <2>1. Requests \in 0..Requests /\ 0 \in 0..Requests /\ 0 \in 0..(MaxMissed - 1)
    BY EngineAssumption
  <2>. QED  BY <2>1 DEF NoSync
<1>4. TypeOK
  BY <1>1, <1>2, <1>3 DEF TypeOK, TreeInv
<1>5. SyncOK /\ NothingHeardIsLost /\ BroadcastIsDurable
  BY <1>3 DEF SyncOK, NothingHeardIsLost, BroadcastIsDurable
<1>. QED  BY <1>1, <1>2, <1>4, <1>5 DEF IInv

LEMMA Invariance == Spec => []IInv
BY InitIInv, NextKeeps, PTL DEF Spec

------------------------------------------------------------------------------
(* The state of the writers keeps its types: ce.mutex has one holder at a  *)
(* time, which is in the middle of one of the methods that take it, and    *)
(* nothing is on disk that is not in the tree.                             *)
THEOREM EngineTypeCorrect == Spec => []TypeOK
BY Invariance, PTL DEF IInv

(* The tree stays one rooted tree with all its tips among the heads, and   *)
(* LatestHash names the main head, although the master override and the    *)
(* initial sync write it between the steps of the methods under ce.mutex.  *)
THEOREM EngineTreeRooted == Spec => [](TreeRooted /\ TipsAreHeads /\ LatestIsMainHead)
BY Invariance, PTL DEF IInv, TreeInv

(* Unless an unlocked writer hits a block creation or the sync leaves the  *)
(* main chain, the array is the main chain and the heads are the tips.     *)
THEOREM AlwaysMainChainUndisturbed == Spec => []MainChainUndisturbed
BY Invariance, PTL DEF IInv

(* What ReceiveBlock has taken is on disk or pending, unless a             *)
(* reorganization of this node has overtaken it.                           *)
THEOREM AlwaysNothingHeardIsLost == Spec => []NothingHeardIsLost
BY Invariance, PTL DEF IInv

(* What peers have been told is on disk with its ancestors.                *)
THEOREM AlwaysBroadcastIsDurable == Spec => []BroadcastIsDurable
BY Invariance, PTL DEF IInv

------------------------------------------------------------------------------
(* A block that is new to the tree is learnt below its parent, a known one *)
(* changes nothing.                                                        *)
LEMMA BelowParentIsLearnt ==
  ASSUME IInv, NEW b \in Block, HasParent(b), blockByHash' = blockByHash \cup {b}, stored' = stored
  PROVE  [Durable!DurableNext]_(Durable!durableVars)
<1>1. Prev[b] \in blockByHash /\ blockByHash # {}
  BY DEF HasParent
<1>2. CASE b \in blockByHash
  BY <1>2 DEF Durable!durableVars
<1>3. CASE b \notin blockByHash
  <2>1. Durable!Learn(b)
    BY <1>1, <1>3 DEF Durable!Learn
  <2>. QED  BY <2>1 DEF Durable!DurableNext
<1>. QED  BY <1>2, <1>3

(* What AddBlock does of the two, with the block SyncWithPeers has got.    *)
LEMMA SyncIsLearnt ==
  ASSUME IInv, SyncAdd
  PROVE  [Durable!DurableNext]_(Durable!durableVars)
<1>. USE DEF SyncAdd
<1>1. sync.block \in Block
  BY DEF IInv, SyncOK
<1>2. CASE AddGenesis(sync.block)
  <2>. USE <1>2 DEF AddGenesis, MayBeGenesis, IsGenesis
  <2>1. blockByHash = {} /\ stored' = stored
    BY DEF IInv, TreeInv, TreeRooted
  <2>2. Durable!Learn(sync.block)
    BY <2>1 DEF Durable!Learn
  <2>. QED  BY <1>1, <2>2 DEF Durable!DurableNext
<1>3. CASE AddBlock(sync.block)
  BY <1>1, <1>3, BelowParentIsLearnt DEF AddBlock, InsertIntoTree
<1>4. CASE UNCHANGED <<treeVars, stored>>
  BY <1>4 DEF treeVars, Durable!durableVars
<1>. QED  BY <1>2, <1>3, <1>4

LEMMA PlaceIsLearnt ==
  ASSUME IInv, NEW b \in Block, Place(b), stored' = stored
  PROVE  [Durable!DurableNext]_(Durable!durableVars)
<1>1. CASE TryAddBlockWithForkResolution(b)
  BY <1>1, BelowParentIsLearnt DEF TryAddBlockWithForkResolution, InsertIntoTree
<1>2. CASE UNCHANGED treeVars
  BY <1>2 DEF treeVars, Durable!durableVars
<1>. QED  BY <1>1, <1>2 DEF Place

(* A save, whoever calls it, commits the tree or changes nothing.          *)
LEMMA SaveIsCommit ==
  ASSUME IInv, UNCHANGED treeVars, SaveToDisk \/ SaveFails
  PROVE  [Durable!DurableNext]_(Durable!durableVars)
<1>1. CASE SaveToDisk
  <2>1. Durable!Commit
    BY <1>1 DEF IInv, TypeOK, SaveToDisk, treeVars, Durable!Commit
  <2>. QED  BY <2>1 DEF Durable!DurableNext
<1>2. CASE SaveFails
  BY <1>2 DEF SaveFails, treeVars, Durable!durableVars
<1>. QED  BY <1>1, <1>2

(* Every step of every writer is a step of the abstract store, or none.    *)
LEMMA NextLearnsOrCommits == IInv /\ [Next]_vars => [Durable!DurableNext]_(Durable!durableVars)
<1>. SUFFICES ASSUME IInv, [Next]_vars PROVE [Durable!DurableNext]_(Durable!durableVars)
  OBVIOUS
<1>0. /\ holder.by = "receive" => holder.block \in Block
      /\ holder.by = "create" => holder.block \in Block
      /\ holder.by = "pass" => holder.left \subseteq Block
  BY HolderFields, EngineAssumption DEF IInv, TypeOK
<1>. DEFINE Quiet == UNCHANGED <<blockByHash, stored>>
<1>1. CASE Quiet
  BY <1>1 DEF Durable!durableVars
<1>2. CASE Receive
  <2>1. CASE ReceiveTry
    BY <1>0, <2>1, PlaceIsLearnt DEF ReceiveTry
  <2>2. CASE ReceiveSave
    BY <2>2, SaveIsCommit DEF ReceiveSave
  <2>3. CASE (\E b \in Offered \cup sent : ReceiveBegin(b)) \/ ReceivePark
    BY <1>1, <2>3 DEF ReceiveBegin, ReceivePark, treeVars
  <2>. QED  BY <1>2, <2>1, <2>2, <2>3 DEF Receive
<1>3. CASE Create
  <2>1. CASE CreateAdd
    BY <1>0, <2>1, BelowParentIsLearnt DEF CreateAdd, AddBlock, InsertIntoTree
  <2>2. CASE CreateSave
    BY <2>2, SaveIsCommit DEF CreateSave
  <2>3. CASE \E b \in Own : CreateBegin(b)
    BY <1>1, <2>3 DEF CreateBegin, treeVars
  <2>. QED  BY <1>3, <2>1, <2>2, <2>3 DEF Create
<1>4. CASE Pass
  <2>1. CASE PassTry
    <3>1. CASE \E b \in holder.left : Place(b)
      BY <1>0, <2>1, <3>1, PlaceIsLearnt DEF PassTry
    <3>2. CASE UNCHANGED treeVars
      BY <1>1, <2>1, <3>2 DEF PassTry, treeVars
    <3>. QED  BY <2>1, <3>1, <3>2 DEF PassTry
  <2>2. CASE PassSave
    BY <2>2, SaveIsCommit DEF PassSave
  <2>3. CASE PassBegin \/ PassEnd
    BY <1>1, <2>3 DEF PassBegin, PassEnd, treeVars
  <2>. QED  BY <1>4, <2>1, <2>2, <2>3 DEF Pass
<1>5. CASE Sync
  <2>1. CASE SyncAdd
    BY <2>1, SyncIsLearnt
  <2>2. CASE SyncSave
    BY <2>2, SaveIsCommit DEF SyncSave
  <2>3. CASE SyncBegin \/ (\E b \in Foreign : SyncFound(b)) \/ SyncMissed \/ SyncBroken
    BY <1>1, <2>3 DEF SyncBegin, SyncFound, SyncMissed, SyncBroken, treeVars
  <2>. QED  BY <1>5, <2>1, <2>2, <2>3 DEF Sync
<1>6. CASE Reconcile
  <2>1. CASE ReconcileSave
    BY <2>1, SaveIsCommit DEF ReconcileSave
  <2>2. CASE ReconcileSwitch \/ ReconcileApply
    BY <1>1, <2>2 DEF ReconcileSwitch, ReconcileApply, SwitchToChain
  <2>3. CASE ReconcileBegin \/ ReconcileLatest \/ ReconcileForks \/ ReconcileReorganize
    BY <1>1, <2>3 DEF ReconcileBegin, ReconcileLatest, ReconcileForks, ReconcileReorganize, treeVars
  <2>. QED  BY <1>6, <2>1, <2>2, <2>3 DEF Reconcile
<1>7. CASE \E b \in Block : Override(b)
  BY <1>1, <1>7 DEF Override, SwitchToChain
<1>8. CASE UNCHANGED vars
  BY <1>1, <1>8 DEF vars
<1>. QED  BY <1>2, <1>3, <1>4, <1>5, <1>6, <1>7, <1>8 DEF Next

(* The writers of a node implement the steps of DurableTree.               *)
THEOREM WritersLearnAndCommit == Spec => LearnsAndCommits
BY Invariance, NextLearnsOrCommits, PTL DEF Spec, LearnsAndCommits
=============================================================================
