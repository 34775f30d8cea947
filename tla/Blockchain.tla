------------------------------ MODULE Blockchain ------------------------------
(***************************************************************************)
(* block/blockchain.go with its SQLite database.                           *)
(*                                                                         *)
(* SaveToDisk runs under Blockchain.mutex.RLock: no save sees the tree     *)
(* change, but several saves may run side by side.  It is not one          *)
(* transaction: the missing rows are inserted one at a time, in the random *)
(* order of a map iteration, and only the is_main_chain flags are written  *)
(* in a transaction.  A statement may fail and the process may stop        *)
(* between any two of them.                                                *)
(***************************************************************************)
EXTENDS ChainTree

CONSTANTS
    Saver,      \* the goroutines that may be inside SaveToDisk
    Honest,     \* the blocks AddBlock's callers pass: created locally on top
                \* of GetLatestBlock, or copied from a peer's chain
    MaxBlocks,  \* bound: the legacy array does not grow past this length
    MaxCopies   \* bound: no block is in Heads more often than this

ASSUME BlockchainAssumption ==
    /\ Honest \subseteq Block
    /\ MaxBlocks \in Nat /\ MaxCopies \in Nat
    /\ \A b \in Honest : IsGenesis(b) \/ IndexFollows(b)

VARIABLES
    up,        \* the process runs
    rows,      \* the hashes in table blocks
    flagged,   \* the rows with is_main_chain = TRUE
    save,      \* what each SaveToDisk in progress still has to do
    acked,     \* history: the blocks in the tree when a SaveToDisk returned nil
    passed     \* history: the blocks longer than the head SwitchToChain chose last

dbVars == <<rows, flagged, save, acked>>
vars == <<genesis, blockByHash, heads, mainHead, blocks, latestHash,
          up, rows, flagged, save, acked, passed>>

Idle == [pc |-> "idle", todo |-> {}, new |-> FALSE]

TypeOK ==
    /\ TreeTypeOK
    /\ up \in BOOLEAN
    /\ rows \in SUBSET Block
    /\ flagged \in SUBSET rows
    /\ save \in [Saver -> [pc : {"idle", "rows"}, todo : SUBSET Block, new : BOOLEAN]]
    /\ acked \in SUBSET Block
    /\ passed \subseteq Block

Init ==
    /\ EmptyTree
    /\ up = TRUE
    /\ rows = {}
    /\ flagged = {}
    /\ save = [s \in Saver |-> Idle]
    /\ acked = {}
    /\ passed = {}

------------------------------------------------------------------------------
(* The write lock: the process is up and no SaveToDisk holds the read lock.*)
WriteLock == up /\ \A s \in Saver : save[s].pc = "idle"

Genesis(b) ==
    /\ WriteLock
    /\ AddGenesis(b)
    /\ UNCHANGED <<up, dbVars, passed>>

Add(b) ==
    /\ WriteLock
    /\ Len(blocks) < MaxBlocks /\ heads[b] < MaxCopies
    /\ AddBlock(b)
    /\ UNCHANGED <<up, dbVars, passed>>

TryAdd(b) ==
    /\ WriteLock
    /\ TryAddBlockWithForkResolution(b)
    /\ UNCHANGED <<up, dbVars, passed>>

Switch(b) ==
    /\ WriteLock
    /\ SwitchToChain(b)
    /\ passed' = {c \in blockByHash : Index[c] > Index[b]}
    /\ UNCHANGED <<up, dbVars>>

------------------------------------------------------------------------------
(* SaveToDisk takes the read lock and reads the hashes already stored.     *)
RowsToWrite_ArrayOnly == {b \in blockByHash \ rows : InBlocks(b)}
RowsToWrite == blockByHash \ rows

SaveBegin(s) ==
    /\ up
    /\ save[s].pc = "idle"
    /\ save' = [save EXCEPT ![s] = [pc |-> "rows", todo |-> RowsToWrite, new |-> FALSE]]
    /\ UNCHANGED <<treeVars, up, rows, flagged, acked, passed>>

(* isBlockOnMainChain *)
OnMainChain(b) == mainHead # NoBlock /\ b \in Ancestors(mainHead)

(* saveBlockToDatabase: one INSERT OR REPLACE.                             *)
SaveRow(s) ==
    /\ save[s].pc = "rows"
    /\ \E b \in save[s].todo :
         /\ rows' = rows \cup {b}
         /\ flagged' = IF OnMainChain(b) THEN flagged \cup {b} ELSE flagged \ {b}
         /\ save' = [save EXCEPT ![s].todo = @ \ {b}, ![s].new = TRUE]
    /\ UNCHANGED <<treeVars, up, acked, passed>>

(* needsMainChainUpdate looks at the row of the main head only.            *)
NeedsMainChainUpdate == mainHead # NoBlock /\ mainHead \notin flagged

(* updateMainChainFlags, one transaction; then SaveToDisk returns nil.     *)
SaveFinish(s) ==
    /\ save[s].pc = "rows"
    /\ save[s].todo = {}
    /\ flagged' = IF save[s].new \/ NeedsMainChainUpdate
                  THEN {b \in rows : OnMainChain(b)}
                  ELSE flagged
    /\ acked' = acked \cup blockByHash
    /\ save' = [save EXCEPT ![s] = Idle]
    /\ UNCHANGED <<treeVars, up, rows, passed>>

(* A statement fails: SaveToDisk returns the error, the rows written so    *)
(* far stay, an open transaction is rolled back.                           *)
SaveFail(s) ==
    /\ save[s].pc = "rows"
    /\ save' = [save EXCEPT ![s] = Idle]
    /\ UNCHANGED <<treeVars, up, rows, flagged, acked, passed>>

------------------------------------------------------------------------------
(* The process stops at any point; the database keeps what was written.    *)
Crash ==
    /\ up
    /\ up' = FALSE
    /\ genesis' = NoBlock /\ blockByHash' = {} /\ heads' = [b \in Block |-> 0]
    /\ mainHead' = NoBlock /\ blocks' = << >> /\ latestHash' = NoBlock
    /\ save' = [s \in Saver |-> Idle]
    /\ passed' = {}
    /\ UNCHANGED <<rows, flagged, acked>>

(* loadBlocksFromDatabase keeps the rows that reach a genesis row: it walks*)
(* them by index, drops a row whose parent is missing, and so drops that   *)
(* row's descendants too.                                                  *)
Loadable == Connected(rows)

(* LoadFromDisk at start-up.  Rows of equal index come in no fixed order,  *)
(* so any of the longest tips may become the main head.                    *)
Load ==
    /\ ~up
    /\ up' = TRUE
    /\ blockByHash' = Loadable
    /\ heads' = [b \in Block |-> IF b \in Tips(Loadable) THEN 1 ELSE 0]
    /\ IF Loadable = {}
       THEN genesis' = NoBlock /\ mainHead' = NoBlock /\ blocks' = << >>
       ELSE /\ genesis' \in {b \in Loadable : IsGenesis(b)}
            /\ mainHead' \in Longest(Tips(Loadable))
            /\ blocks' = Path[mainHead']
    /\ latestHash' = mainHead'
    /\ UNCHANGED <<rows, flagged, save, acked, passed>>

------------------------------------------------------------------------------
Next ==
    \/ \E b \in Honest : Genesis(b) \/ Add(b)
    \/ \E b \in Block : TryAdd(b) \/ Switch(b)
    \/ \E s \in Saver : SaveBegin(s) \/ SaveRow(s) \/ SaveFinish(s) \/ SaveFail(s)
    \/ Crash
    \/ Load

Spec == Init /\ [][Next]_vars

------------------------------------------------------------------------------
(* The main head is a longest chain of the tree ("Current longest chain    *)
(* head", line 27): additions in any order, and restarts, keep it so.  What*)
(* the last SwitchToChain passed over does not count, but every block since*)
(* does: the next longer one wins again, on whichever branch it comes.     *)
MainHeadIsLongest == \A b \in blockByHash \ passed : Index[b] <= Index[mainHead]

(* The genesis, and with it the permanent master node, is fixed once a     *)
(* save has covered it: no crash during a later save, and no foreign       *)
(* genesis offered after a restart, replaces it.                           *)
GenesisIsPermanent ==
    \A b \in acked : up => genesis = Path[b][1]

(* After a successful save with nothing else going on, is_main_chain marks *)
(* exactly the main chain.                                                 *)
FlagsMarkMainChain ==
    [][\A s \in Saver : SaveFinish(s) /\ genesis # NoBlock => flagged' = {b \in rows : OnMainChain(b)}]_vars

(* The store keeps the promise of DurableTree: no block covered by a       *)
(* successful save is lost, whatever rows a failed save or a crash left.   *)
Durable == INSTANCE DurableTree
             WITH running <- up, known <- blockByHash, committed <- acked
ImplementsDurableTree == Durable!DurableSpec
==============================================================================
