--------------------------------- MODULE Api ---------------------------------
(***************************************************************************)
(* One GET /api/blockchain/latest/{n}: getConsensusBlocks of api/server.go *)
(* asks the discovered nodes for their heights, looks for the consensus    *)
(* height, asks every node for a range of blocks and selects one block per *)
(* index.  Nothing stops the nodes from changing their chains meanwhile,   *)
(* and a node reads the blocks of a range one by one, each under a lock of *)
(* its own.                                                                *)
(***************************************************************************)
EXTENDS BlockTree, Integers, FiniteSetsExt

CONSTANTS
    Node,      \* the nodes the API server has discovered
    Wanted,    \* n, the number of blocks asked for
    MaxMoves   \* bound: changes of the nodes' chains during the query

ASSUME ApiAssumption ==
    /\ IsFiniteSet(Node) /\ Node # {}
    /\ Wanted \in 1..100
    /\ MaxMoves \in Nat

(* The blocks are those of the nodes' main chains.  They come from rooted  *)
(* trees, where an index is the distance to the root (TreeRooted).         *)
ASSUME ChainAssumption == \A b \in Block : Index[b] + 1 = Len(Path[b])

VARIABLES
    head,     \* the head of each node's main chain, NoBlock if it has none
    phase,    \* where the query is
    toAsk,    \* nodes not asked for their height yet
    heights,  \* nodeHeights, and BlockHeight in discoveredNodes
    height,   \* currentHeight of the search, then the consensus height
    next,     \* the index each node reads next for its range response
    read,     \* the blocks it has read for it
    replied,  \* nodes whose range response was processed
    result,   \* the block selected for an index
    moves,    \* changes of chains so far, for the bound
    trail,    \* history: the heads of each node since the range requests
    shrunk    \* history: some chain has become shorter since the query began

nodeVars == <<head, moves, trail, shrunk>>
heightVars == <<toAsk, heights, height>>
rangeVars == <<next, read, replied>>
vars == <<nodeVars, phase, heightVars, rangeVars, result>>

TypeOK ==
    /\ head \in [Node -> Block \cup {NoBlock}]
    /\ phase \in {"heights", "search", "ranges", "done", "failed"}
    /\ toAsk \subseteq Node
    /\ DOMAIN heights \subseteq Node /\ heights \in [DOMAIN heights -> Nat]
    /\ height \in Nat
    /\ next \in [Node -> Nat]
    /\ read \in [Node -> SUBSET Block]
    /\ replied \subseteq Node
    /\ DOMAIN result \subseteq Nat /\ result \in [DOMAIN result -> Block]
    /\ moves \in 0..MaxMoves
    /\ trail \in [Node -> Seq(Block \cup {NoBlock})]
    /\ shrunk \in BOOLEAN

------------------------------------------------------------------------------
(* A node's chain: GetBlockCount less one, if any, and GetBlockByIndex.    *)
(* Both look at the legacy array, taken for the main chain here.  Engine   *)
(* says when it is that (MainChainUndisturbed) and when it need not be.    *)
OnChain(h) == IF h = NoBlock THEN {} ELSE Ancestors(h)
HeightOf_Unguarded(h) == Cardinality(OnChain(h)) - 1
HeightOf(h) == IF h = NoBlock THEN 0 ELSE Cardinality(OnChain(h)) - 1
BlocksAt(h, i) == {b \in OnChain(h) : Index[b] = i}

(* The last index asked for is exclusive in the protocol.                  *)
RangeEnd_Inclusive(h) == h
RangeEnd(h) == h + 1
StartIndex(h) == IF h >= Wanted THEN h - Wanted + 1 ELSE 0

(* MajorityThreshold counts the discovered nodes, the one of the height    *)
(* search counts those that reported a height.                             *)
MajorityThreshold_Half == Cardinality(Node) \div 2
MajorityThreshold == Cardinality(Node) \div 2 + 1
HeightThreshold == Cardinality(DOMAIN heights) \div 2 + 1

(* BlockSelections, and the blocks selectConsensusBlock may return: a      *)
(* majority's, or else any candidate.                                      *)
Votes(b) == Cardinality({n \in replied : b \in read[n]})
Candidates(i) == {b \in UNION {read[n] : n \in replied} : Index[b] = i}
Selected_OverMajority(i) ==
    LET winners == {b \in Candidates(i) : Votes(b) > MajorityThreshold}
    IN IF winners # {} THEN winners ELSE Candidates(i)
Selected(i) ==
    LET winners == {b \in Candidates(i) : Votes(b) >= MajorityThreshold}
    IN IF winners # {} THEN winners ELSE Candidates(i)

Init ==
    /\ head \in [Node -> Block \cup {NoBlock}]
    /\ phase = "heights" /\ toAsk = Node
    /\ heights = [n \in {} |-> 0] /\ height = 0
    /\ next = [n \in Node |-> 0] /\ read = [n \in Node |-> {}]
    /\ replied = {}
    /\ result = [i \in {} |-> NoBlock]
    /\ moves = 0 /\ trail = [n \in Node |-> <<>>] /\ shrunk = FALSE

------------------------------------------------------------------------------
(* A node adds blocks, reorganizes, follows an override to a shorter       *)
(* chain or restarts without the blocks it had not saved.                  *)
Move(n, b) ==
    /\ phase \in {"heights", "search", "ranges"}
    /\ moves < MaxMoves /\ moves' = moves + 1
    /\ b # head[n]
    /\ head' = [head EXCEPT ![n] = b]
    /\ trail' = IF phase = "ranges" THEN [trail EXCEPT ![n] = Append(@, b)] ELSE trail
    /\ shrunk' = (shrunk \/ HeightOf(b) < HeightOf(head[n]))
    /\ UNCHANGED <<phase, heightVars, rangeVars, result>>

(* RequestBlockchainInfo: no answer, or the height at this moment.         *)
AskHeight(n) ==
    /\ phase = "heights" /\ n \in toAsk
    /\ toAsk' = toAsk \ {n}
    /\ \/ heights' = [m \in DOMAIN heights \cup {n} |->
                        IF m = n THEN HeightOf(head[n]) ELSE heights[m]]
       \/ UNCHANGED heights
    /\ UNCHANGED <<nodeVars, phase, height, rangeVars, result>>

(* No node has answered: getConsensusBlocks returns the error.             *)
Fail ==
    /\ phase = "heights" /\ toAsk = {} /\ DOMAIN heights = {}
    /\ phase' = "failed"
    /\ UNCHANGED <<nodeVars, heightVars, rangeVars, result>>

StartSearch ==
    /\ phase = "heights" /\ toAsk = {} /\ DOMAIN heights # {}
    /\ phase' = "search"
    /\ height' = Max({heights[n] : n \in DOMAIN heights})
    /\ UNCHANGED <<nodeVars, toAsk, heights, rangeVars, result>>

(* One height of the search.  RequestBlock fails with the connection only: *)
(* a node that lacks the block answers too, and its answer counts.         *)
Claim(h) == {n \in DOMAIN heights : heights[n] >= h}
RequestBlock(h) == SUBSET Claim(h)
CheckHeight ==
    /\ phase = "search" /\ height > 0
    /\ \E answered \in RequestBlock(height) :
         IF Cardinality(answered) >= HeightThreshold
         THEN /\ phase' = "ranges"
              /\ next' = [n \in Node |-> StartIndex(height)]
              /\ trail' = [n \in Node |-> <<head[n]>>]
              /\ UNCHANGED height
         ELSE /\ height' = height - 1
              /\ UNCHANGED <<phase, next, trail>>
    /\ UNCHANGED <<head, moves, shrunk, toAsk, heights, read, replied, result>>

(* Consensus height 0: an empty answer, without an error.                  *)
NoConsensus ==
    /\ phase = "search" /\ height = 0
    /\ phase' = "done"
    /\ UNCHANGED <<nodeVars, heightVars, rangeVars, result>>

------------------------------------------------------------------------------
(* The node's side of a block range request: one index at a time.          *)
ReadBlock(n) ==
    /\ phase = "ranges" /\ next[n] < RangeEnd(height)
    /\ read' = [read EXCEPT ![n] = @ \cup BlocksAt(head[n], next[n])]
    /\ next' = [next EXCEPT ![n] = @ + 1]
    /\ UNCHANGED <<nodeVars, phase, heightVars, replied, result>>

Collect(n) ==
    /\ phase = "ranges" /\ n \notin replied /\ next[n] >= RangeEnd(height)
    /\ replied' = replied \cup {n}
    /\ UNCHANGED <<nodeVars, phase, heightVars, next, read, result>>

(* All requests have ended, or the timeout has come first: a node whose    *)
(* request failed or is late is not in replied.                            *)
Process ==
    /\ phase = "ranges"
    /\ phase' = "done"
    /\ LET indices == {i \in StartIndex(height)..height : Candidates(i) # {}}
       IN result' \in {f \in [indices -> Block] : \A i \in indices : f[i] \in Selected(i)}
    /\ UNCHANGED <<nodeVars, heightVars, rangeVars>>

------------------------------------------------------------------------------
(* handleLatestBlocks runs the query for a valid n and a non-empty set of  *)
(* discovered nodes (ApiAssumption).                                       *)
Chains == \E n \in Node, b \in Block : Move(n, b)
Query ==
    \/ Fail \/ StartSearch \/ CheckHeight \/ NoConsensus \/ Process
    \/ \E n \in Node : AskHeight(n) \/ ReadBlock(n) \/ Collect(n)
Next == Chains \/ Query

Spec == Init /\ [][Next]_vars

------------------------------------------------------------------------------
(* A node that only appended blocks since the range requests were sent.    *)
Steady(n) ==
    \A i \in 1..(Len(trail[n]) - 1) : OnChain(trail[n][i]) \subseteq OnChain(trail[n][i + 1])

(* Responses that hold both blocks, from nodes that changed their branch.  *)
Torn(x, y) == Cardinality({n \in replied : ~Steady(n) /\ x \in read[n] /\ y \in read[n]})

(* Two neighbours in the answer are parent and child if their votes add up *)
(* to two majorities and one vote more for each response that mixes them:  *)
(* getConsensusBlocks never checks links, and a node may reorganize while  *)
(* it reads a range.  Other mixed responses break no link.                 *)
MajorityLinks ==
    \A i \in DOMAIN result :
        /\ i + 1 \in DOMAIN result
        /\ LET x == result[i]  y == result[i + 1]
           IN Votes(x) + Votes(y) >= 2 * MajorityThreshold + Torn(x, y)
        => Prev[result[i + 1]] = result[i]

(* A block that more than half of the nodes had when the ranges were asked *)
(* for, and kept, is in the answer if they answered, however the others    *)
(* moved (selectConsensusBlock).                                           *)
MajorityWins ==
    phase = "done" => \A b \in Block :
        /\ Index[b] \in StartIndex(height)..height
        /\ 2 * Cardinality({n \in replied : Steady(n) /\ b \in OnChain(trail[n][1])}) > Cardinality(Node)
        => Index[b] \in DOMAIN result /\ result[Index[b]] = b

(* If every node answered and no chain has become shorter, the answer has  *)
(* a block for each of the last n indices up to the consensus height.      *)
FullAnswer ==
    phase = "done" /\ replied = Node /\ ~shrunk
        => /\ DOMAIN result = StartIndex(height)..height
           /\ Cardinality(DOMAIN result) = Min({Wanted, height + 1})
==============================================================================
