------------------------------ MODULE BlockTree ------------------------------
(***************************************************************************)
(* The universe of blocks the rest of the project talks about.             *)
(*                                                                         *)
(* A block is named by its hash.  The hash covers the index, the timestamp,*)
(* the previous hash, the validator and the data (block.go CalculateHash), *)
(* so a hash determines the whole ancestry of the block: Prev, Index and   *)
(* Path are functions of the block and never change.  Two blocks that      *)
(* differ only in their signature are the same block here, as they are to  *)
(* every map and table keyed by hash in the code.                          *)
(***************************************************************************)
EXTENDS Naturals, Sequences, FiniteSets

CONSTANTS
    Block,    \* every block that any node may create or receive
    NoBlock,  \* a nil pointer, and the all-zero previous hash of a genesis
    Prev,     \* Prev[b]: the block PrevHash names, NoBlock for a genesis
    Index,    \* Index[b]: the index field written in the block
    Path      \* Path[b]: the blocks from the root of b's tree down to b

(***************************************************************************)
(* Path is what following the PrevHash links computes.  It is a constant   *)
(* with its defining equation, which makes every chain of links finite:    *)
(* hashes cannot form a cycle.                                             *)
(***************************************************************************)
ASSUME BlockAssumption ==
    /\ NoBlock \notin Block
    /\ Prev \in [Block -> Block \cup {NoBlock}]
    /\ Index \in [Block -> Nat]
    /\ Path \in [Block -> Seq(Block)]
    /\ \A b \in Block :
         Path[b] = IF Prev[b] = NoBlock THEN <<b>> ELSE Append(Path[Prev[b]], b)

(* b and the blocks IsAncestorOf relates it to (GetPath as a set).         *)
Ancestors(b) == {Path[b][i] : i \in DOMAIN Path[b]}

(* The checks AddBlock makes of a genesis block.                           *)
IsGenesis(b) == Index[b] = 0 /\ Prev[b] = NoBlock

(* validateBlockForChain: the index follows the parent's.                  *)
IndexFollows(b) == Prev[b] # NoBlock /\ Index[b] = Index[Prev[b]] + 1

(* The blocks of S all of whose ancestors are in S.                        *)
Connected(S) == {b \in S : Ancestors(b) \subseteq S}

(* The blocks of S with no child in S.                                     *)
Tips(S) == {b \in S : \A c \in S : Prev[c] # b}

(* The blocks of S of greatest index (findLongestChainHead).               *)
Longest(S) == {b \in S : \A c \in S : Index[c] <= Index[b]}
==============================================================================
