------------------------------- MODULE ApiProofs -------------------------------
(***************************************************************************)
(* The safety of one query of the API server, for any blocks, any number   *)
(* of nodes and any n.  The answer is selected after the last node has     *)
(* read its last block, so IInv keeps what each node has read so far: one  *)
(* block per index, those of the chain it had when it was asked if it only *)
(* grew, and a block for every index up to the height it reported if no    *)
(* chain shrank.  The properties follow because two majorities meet in one *)
(* node, and one chain has one block of each index.                        *)
(***************************************************************************)
EXTENDS Api, BlockTreeTheorems

(* The ranges were asked for; the other end of a query is height 0.        *)
Asked == phase \in {"ranges", "done"} /\ height > 0

First(n) == trail[n][1]

(* Before the ranges are asked for there is nothing to select from.        *)
QuietOK ==
    /\ ~Asked => replied = {} /\ \A n \in Node : read[n] = {}
    /\ phase = "ranges" => height > 0
    /\ phase # "done" \/ height = 0 => DOMAIN result = {}

(* The trail of a node ends at its head, and leads to what it has read.    *)
TrailOK ==
    Asked => \A n \in Node :
        /\ Len(trail[n]) > 0
        /\ trail[n][Len(trail[n])] = head[n]
        /\ Steady(n) => /\ OnChain(First(n)) \subseteq OnChain(head[n])
                        /\ read[n] \subseteq OnChain(head[n])

(* What a node has read: one block per index asked for so far, and all     *)
(* blocks of the chain it had, if it only appended to it.                  *)
ReadOK ==
    Asked => \A n \in Node :
        /\ StartIndex(height) <= next[n]
        /\ \A b \in read[n] : StartIndex(height) <= Index[b] /\ Index[b] < next[n]
        /\ \A b, c \in read[n] : Index[b] = Index[c] => b = c
        /\ n \in replied => RangeEnd(height) <= next[n]
        /\ Steady(n) => \A b \in OnChain(First(n)) :
               StartIndex(height) <= Index[b] /\ Index[b] < next[n] => b \in read[n]

(* Heights only grow, and some node reported the consensus height: it has  *)
(* a block for every index it has passed.                                  *)
CoverOK ==
    /\ ~shrunk => \A n \in DOMAIN heights : heights[n] <= HeightOf(head[n])
    /\ Asked => \E n \in DOMAIN heights : height <= heights[n]
    /\ Asked /\ ~shrunk => \A n \in DOMAIN heights : height <= heights[n] =>
           \A i \in StartIndex(height)..height :
               i < next[n] => \E b \in read[n] : Index[b] = i

(* The answer is a selection for every index with a candidate.             *)
DoneOK ==
    phase = "done" /\ height > 0 =>
        /\ DOMAIN result = {i \in StartIndex(height)..height : Candidates(i) # {}}
        /\ \A i \in DOMAIN result : result[i] \in Selected(i)

IInv == TypeOK /\ QuietOK /\ TrailOK /\ ReadOK /\ CoverOK /\ DoneOK

------------------------------------------------------------------------------
(* A finite set of numbers has a greatest one.                             *)
LEMMA GreatestNumber ==
  ASSUME NEW S \in SUBSET Nat, IsFiniteSet(S), S # {}
  PROVE  \E m \in S : \A x \in S : x <= m
<1>1. PICK n \in Nat : ExistsSurjection(1..n, S)
  BY FS_NatSurjection
<1>2. PICK f \in Surjection(1..n, S) : TRUE
  BY <1>1 DEF ExistsSurjection
<1>3. f \in [1..n -> Nat] /\ \A x \in S : \E i \in 1..n : f[i] = x
  BY <1>2 DEF Surjection
<1>. DEFINE Bounds(m, k) == \A i \in 1..k : f[i] <= m
            Bad == {k \in 0..n : ~(\E m \in Nat : Bounds(m, k))}
<1>4. Bounds(0, 0)
  OBVIOUS
<1>5. ASSUME NEW k \in 0..(n - 1), NEW m \in Nat, Bounds(m, k)
      PROVE  \E l \in Nat : Bounds(l, k + 1)
  <2>1. f[k + 1] \in Nat
    BY <1>3
  <2>2. m + f[k + 1] \in Nat /\ Bounds(m + f[k + 1], k + 1)
    BY <1>3, <1>5, <2>1
  <2>. QED  BY <2>2
<1>. HIDE DEF Bounds
<1>6. Bad = {}
  <2>1. SUFFICES ASSUME Bad # {} PROVE FALSE
    OBVIOUS
  <2>2. Bad \subseteq Nat
    BY <1>1
  <2>3. \E k \in Bad : \A j \in Bad : ~(<<j, k>> \in OpToRel(<, Nat))
    BY <2>1, <2>2, NatLessThanWellFounded, WFMin, Zenon
  <2>4. PICK k \in Bad : \A j \in Bad : ~(<<j, k>> \in OpToRel(<, Nat))
    BY <2>3
  <2>5. k \in 0..n /\ k # 0
    BY <1>4, <2>4
  <2>6. k - 1 \in Nat /\ k \in Nat /\ k - 1 < k
    BY <2>5
  <2>7. <<k - 1, k>> \in OpToRel(<, Nat)
    BY <2>6 DEF OpToRel
  <2>. DEFINE j == k - 1
  <2>8. j \notin Bad
    BY <2>4, <2>7
  <2>. HIDE DEF Bad
  <2>9. j \in 0..(n - 1) /\ j \in 0..n
    BY <1>1, <2>5
  <2>. USE DEF Bad
  <2>10. \E m \in Nat : Bounds(m, k - 1)
    BY <2>8, <2>9
  <2>11. \E l \in Nat : Bounds(l, (k - 1) + 1)
    BY <1>5, <2>9, <2>10
  <2>12. (k - 1) + 1 = k
    BY <2>6
  <2>. QED  BY <2>4, <2>11, <2>12
<1>7. PICK m \in Nat : Bounds(m, n)
  <2>1. n \in 0..n
    BY <1>1
  <2>2. ~ (n \in Bad)
    BY <1>6, Zenon
  <2>. QED  BY <2>1, <2>2
<1>8. \A x \in S : x <= m
  BY <1>1, <1>3, <1>7 DEF Bounds
<1>. HIDE DEF Bad
<1>. DEFINE T == {m - x : x \in S}
<1>9. T \subseteq Nat /\ T # {}
  <2>1. \A x \in S : m - x \in Nat
    BY <1>8
  <2>. QED  BY <2>1
<1>10. \E d \in T : \A e \in T : ~ (<<e, d>> \in OpToRel(<, Nat))
  BY <1>9, NatLessThanWellFounded, WFMin, Zenon
<1>11. PICK d \in T : \A e \in T : ~ (<<e, d>> \in OpToRel(<, Nat))
  BY <1>10
<1>12. PICK z \in S : d = m - z
  BY <1>11
<1>13. ASSUME NEW y \in S
       PROVE  y <= z
  <2>1. m - y \in Nat /\ m - z \in Nat
    BY <1>8
  <2>2. ~(<<m - y, m - z>> \in OpToRel(<, Nat))
    BY <1>11, <1>12
  <2>3. ~(m - y < m - z)
    BY <2>1, <2>2 DEF OpToRel
  <2>. QED  BY <2>1, <2>3
<1>. QED  BY <1>13

(* The blocks of a chain: one of each index up to its height.              *)
LEMMA ChainShape ==
  ASSUME NEW h \in Block \cup {NoBlock}
  PROVE  /\ OnChain(h) \subseteq Block
         /\ HeightOf(h) \in Nat
         /\ \A b, c \in OnChain(h) : Index[b] = Index[c] => b = c
         /\ h # NoBlock => \A i \in 0..HeightOf(h) : \E b \in OnChain(h) : Index[b] = i
<1>1. CASE h = NoBlock
  BY <1>1 DEF OnChain, HeightOf
<1>2. CASE h # NoBlock
  <2>1. h \in Block /\ OnChain(h) = Ancestors(h)
    BY <1>2 DEF OnChain
  <2>2. Ancestors(h) \subseteq Block
    BY <2>1, AncestorsShape
  <2>3. Len(Path[h]) \in Nat \ {0}
    BY <2>1, PathShape
  <2>4. HeightOf(h) = Len(Path[h]) - 1
    BY <1>2, <2>1, OneAncestorPerDepth DEF HeightOf
  <2>5. \A b \in Ancestors(h) : Index[b] \in Nat /\ Index[b] + 1 = Len(Path[b])
    BY <2>2, ChainAssumption, BlockAssumption
  <2>6. \A b, c \in Ancestors(h) : Index[b] = Index[c] => b = c
    BY <2>1, <2>5, OneAncestorPerDepth
  <2>7. ASSUME NEW i \in 0..HeightOf(h)
        PROVE  \E b \in Ancestors(h) : Index[b] = i
    <3>1. i + 1 \in 1..Len(Path[h])
      BY <2>3, <2>4
    <3>2. PICK b \in Ancestors(h) : Len(Path[b]) = i + 1
      BY <2>1, <3>1, OneAncestorPerDepth
    <3>. QED  BY <2>5, <3>2
  <2>. QED  BY <2>1, <2>2, <2>3, <2>4, <2>6, <2>7
<1>. QED  BY <1>1, <1>2

(* Two neighbours on a chain are parent and child.                         *)
LEMMA ChainLinks ==
  ASSUME NEW h \in Block \cup {NoBlock}, NEW x \in OnChain(h), NEW y \in OnChain(h),
         Index[y] = Index[x] + 1
  PROVE  Prev[y] = x
<1>1. h \in Block /\ x \in Ancestors(h) /\ y \in Ancestors(h)
  BY DEF OnChain
<1>2. x \in Block /\ y \in Block
  BY <1>1, AncestorsShape
<1>3. Len(Path[y]) = Len(Path[x]) + 1 /\ Len(Path[x]) \in Nat \ {0}
  BY <1>2, ChainAssumption, BlockAssumption, PathShape
<1>4. Prev[y] # NoBlock
  <2>1. ASSUME Prev[y] = NoBlock PROVE Len(Path[y]) = 1
    <3>1. Path[y] = <<y>>
      BY <1>2, <2>1, PathShape
    <3>. QED  BY <3>1
  <2>. QED  BY <1>3, <2>1
<1>5. Prev[y] \in Block /\ Len(Path[Prev[y]]) = Len(Path[x])
  BY <1>2, <1>3, <1>4, PathShape
<1>6. Prev[y] \in Ancestors(y)
  BY <1>2, <1>4, <1>5, AncestorsShape
<1>7. Prev[y] \in Ancestors(h)
  BY <1>1, <1>6, AncestorsNested
<1>. QED  BY <1>1, <1>5, <1>7, OneAncestorPerDepth

(* The range asked for has numbers, and is not empty.                      *)
LEMMA RangeShape ==
  ASSUME NEW h \in Nat
  PROVE  /\ StartIndex(h) \in Nat /\ StartIndex(h) <= h
         /\ RangeEnd(h) = h + 1
         /\ Wanted \in Nat
BY ApiAssumption DEF StartIndex, RangeEnd

(* More than half of the nodes, and the threshold of selectConsensusBlock, *)
(* meet.                                                                   *)
LEMMA MajoritiesMeet ==
  ASSUME NEW S \in SUBSET Node, NEW T \in SUBSET Node,
         2 * Cardinality(S) > Cardinality(Node), Cardinality(T) >= MajorityThreshold
  PROVE  S \cap T # {}
<1>1. IsFiniteSet(Node) /\ IsFiniteSet(S) /\ IsFiniteSet(T)
  BY ApiAssumption, FS_Subset
<1>2. Cardinality(Node) \in Nat /\ Cardinality(S) \in Nat /\ Cardinality(T) \in Nat
  BY <1>1, FS_CardinalityType
<1>3. Cardinality(S) + Cardinality(T) > Cardinality(Node)
  BY <1>2 DEF MajorityThreshold
<1>. QED  BY <1>1, <1>3, FS_MajoritiesIntersect

LEMMA ThresholdIsMajority ==
  ASSUME NEW S \in SUBSET Node
  PROVE  2 * Cardinality(S) > Cardinality(Node) <=> Cardinality(S) >= MajorityThreshold
<1>1. IsFiniteSet(Node) /\ IsFiniteSet(S)
  BY ApiAssumption, FS_Subset
<1>2. Cardinality(Node) \in Nat /\ Cardinality(S) \in Nat
  BY <1>1, FS_CardinalityType
<1>. QED  BY <1>2 DEF MajorityThreshold

------------------------------------------------------------------------------
LEMMA HeightsBounded ==
  ASSUME TypeOK, DOMAIN heights # {}
  PROVE  Max({heights[n] : n \in DOMAIN heights}) \in Nat
<1>. DEFINE S == {heights[n] : n \in DOMAIN heights}
<1>1. IsFiniteSet(DOMAIN heights)
  BY ApiAssumption, FS_Subset DEF TypeOK
<1>2. heights \in Surjection(DOMAIN heights, S)
  BY DEF TypeOK, Surjection
<1>3. IsFiniteSet(S)
  BY <1>1, <1>2, FS_Surjection
<1>4. S \subseteq Nat /\ S # {}
  BY DEF TypeOK
<1>. HIDE DEF S
<1>5. \E m \in S : \A x \in S : m >= x
  BY <1>3, <1>4, GreatestNumber
<1>6. Max(S) \in S
  BY <1>5 DEF Max
<1>. QED  BY <1>4, <1>6 DEF S

LEMMA TypeInit == Init => TypeOK
<1>. SUFFICES ASSUME Init PROVE TypeOK
  OBVIOUS
<1>1. DOMAIN heights \subseteq Node /\ heights \in [DOMAIN heights -> Nat]
  BY DEF Init
<1>2. DOMAIN result \subseteq Nat /\ result \in [DOMAIN result -> Block]
  BY DEF Init
<1>3. trail \in [Node -> Seq(Block \cup {NoBlock})]
  BY DEF Init
<1>4. /\ head \in [Node -> Block \cup {NoBlock}] /\ phase = "heights" /\ toAsk = Node
      /\ height = 0 /\ next \in [Node -> Nat] /\ read \in [Node -> SUBSET Block]
      /\ replied = {} /\ moves = 0 /\ shrunk = FALSE
  BY DEF Init
<1>5. 0 \in 0..MaxMoves
  BY ApiAssumption
<1>. QED  BY <1>1, <1>2, <1>3, <1>4, <1>5 DEF TypeOK

LEMMA TypeKept ==
  ASSUME TypeOK, [Next]_vars
  PROVE  TypeOK'
<1>. USE DEF TypeOK, nodeVars, heightVars, rangeVars
<1>1. ASSUME NEW n \in Node, NEW b \in Block, Move(n, b)
      PROVE  TypeOK'
  BY <1>1, ApiAssumption DEF Move
<1>2. ASSUME NEW n \in Node, AskHeight(n)
      PROVE  TypeOK'
  <2>1. HeightOf(head[n]) \in Nat
    BY ChainShape
  <2>2. DOMAIN heights' \subseteq Node /\ heights' \in [DOMAIN heights' -> Nat]
    BY <1>2, <2>1 DEF AskHeight
  <2>. QED  BY <1>2, <2>2 DEF AskHeight
<1>3. CASE Fail
  BY <1>3 DEF Fail
<1>4. CASE StartSearch
  <2>1. height' \in Nat
    BY <1>4, HeightsBounded DEF StartSearch
  <2>. QED  BY <1>4, <2>1 DEF StartSearch
<1>5. CASE CheckHeight
  <2>1. StartIndex(height) \in Nat /\ height' \in Nat
    BY <1>5, RangeShape DEF CheckHeight
  <2>2. next' \in [Node -> Nat] /\ phase' \in {"ranges", "search"}
    BY <1>5, <2>1 DEF CheckHeight
  <2>3. \A n \in Node : <<head[n]>> \in Seq(Block \cup {NoBlock})
    OBVIOUS
  <2>4. trail' = [n \in Node |-> <<head[n]>>] \/ trail' = trail
    BY <1>5 DEF CheckHeight
  <2>5. trail' \in [Node -> Seq(Block \cup {NoBlock})]
    BY <2>3, <2>4
  <2>. QED  BY <1>5, <2>1, <2>2, <2>5 DEF CheckHeight
<1>6. CASE NoConsensus
  BY <1>6 DEF NoConsensus
<1>7. ASSUME NEW n \in Node, ReadBlock(n)
      PROVE  TypeOK'
  <2>1. BlocksAt(head[n], next[n]) \subseteq Block
    BY ChainShape DEF BlocksAt
  <2>. QED  BY <1>7, <2>1 DEF ReadBlock
<1>8. ASSUME NEW n \in Node, Collect(n)
      PROVE  TypeOK'
  BY <1>8 DEF Collect
<1>9. CASE Process
  <2>1. DOMAIN result' \subseteq Nat /\ result' \in [DOMAIN result' -> Block]
    BY <1>9, RangeShape DEF Process
  <2>. QED  BY <1>9, <2>1 DEF Process
<1>10. CASE UNCHANGED vars
  BY <1>10 DEF vars
<1>. QED
  BY <1>1, <1>2, <1>3, <1>4, <1>5, <1>6, <1>7, <1>8, <1>9, <1>10 DEF Next, Chains, Query

(* The action of Move is the only one that touches a chain.  Every step    *)
(* other than a move, a read and CheckHeight leaves what was read alone.   *)
LEMMA QuietKept ==
  ASSUME IInv, [Next]_vars
  PROVE  QuietOK'
<1>. USE DEF IInv, TypeOK, QuietOK, Asked, nodeVars, heightVars, rangeVars
<1>1. ASSUME NEW n \in Node, NEW b \in Block, Move(n, b)
      PROVE  QuietOK'
  BY <1>1 DEF Move
<1>2. ASSUME NEW n \in Node, AskHeight(n)
      PROVE  QuietOK'
  BY <1>2 DEF AskHeight
<1>3. CASE Fail
  BY <1>3 DEF Fail
<1>4. CASE StartSearch
  BY <1>4 DEF StartSearch
<1>5. CASE CheckHeight
  BY <1>5 DEF CheckHeight
<1>6. CASE NoConsensus
  BY <1>6 DEF NoConsensus
<1>7. ASSUME NEW n \in Node, ReadBlock(n)
      PROVE  QuietOK'
  BY <1>7 DEF ReadBlock
<1>8. ASSUME NEW n \in Node, Collect(n)
      PROVE  QuietOK'
  BY <1>8 DEF Collect
<1>9. CASE Process
  BY <1>9 DEF Process
<1>10. CASE UNCHANGED vars
  BY <1>10 DEF vars
<1>. QED
  BY <1>1, <1>2, <1>3, <1>4, <1>5, <1>6, <1>7, <1>8, <1>9, <1>10 DEF Next, Chains, Query

(* The trail of a node that moves: it starts where it did, and its last    *)
(* step is the move.                                                       *)
LEMMA GrownTrail ==
  ASSUME NEW t \in Seq(Block \cup {NoBlock}), Len(t) > 0, NEW b \in Block
  PROVE  /\ Len(Append(t, b)) = Len(t) + 1 /\ Append(t, b)[Len(t) + 1] = b
         /\ Append(t, b)[1] = t[1] /\ Append(t, b)[Len(t)] = t[Len(t)]
         /\ \A i \in 1..(Len(t) - 1) : Append(t, b)[i] = t[i] /\ Append(t, b)[i + 1] = t[i + 1]
<1>1. Len(t) \in Nat
  BY LenProperties
<1>2. /\ Len(Append(t, b)) = Len(t) + 1 /\ Append(t, b)[Len(t) + 1] = b
      /\ \A i \in 1..Len(t) : Append(t, b)[i] = t[i]
  BY AppendProperties
<1>3. 1 \in 1..Len(t) /\ Len(t) \in 1..Len(t)
  BY <1>1
<1>4. \A i \in 1..(Len(t) - 1) : i \in 1..Len(t) /\ i + 1 \in 1..Len(t)
  BY <1>1
<1>. QED  BY <1>2, <1>3, <1>4, Zenon

(* Before and after the range requests there is nothing to say.            *)
LEMMA TrailKept ==
  ASSUME IInv, [Next]_vars
  PROVE  TrailOK'
<1>. USE DEF IInv, TypeOK, Asked, First, nodeVars, heightVars, rangeVars
<1>1. ASSUME NEW n \in Node, NEW b \in Block, Move(n, b)
      PROVE  TrailOK'
  <2>1. SUFFICES ASSUME Asked', NEW m \in Node
                 PROVE  /\ Len(trail'[m]) > 0
                        /\ trail'[m][Len(trail'[m])] = head'[m]
                        /\ Steady(m)' => /\ OnChain(trail'[m][1]) \subseteq OnChain(head'[m])
                                         /\ read'[m] \subseteq OnChain(head'[m])
    BY DEF TrailOK
  <2>2. Asked /\ phase = "ranges" /\ read' = read
    BY <1>1, <2>1 DEF Move
  <2>3. CASE m # n
    <3>1. trail'[m] = trail[m] /\ head'[m] = head[m]
      BY <1>1, <2>2, <2>3 DEF Move
    <3>2. Steady(m)' <=> Steady(m)
      BY <3>1 DEF Steady
    <3>. QED  BY <2>2, <3>1, <3>2 DEF TrailOK
  <2>4. CASE m = n
    <3>. DEFINE t == trail[n]
                r == trail'[n]
    <3>1. t \in Seq(Block \cup {NoBlock}) /\ Len(t) > 0 /\ t[Len(t)] = head[n] /\ Len(t) \in Nat
      BY <2>2, LenProperties DEF TrailOK
    <3>2. r = Append(t, b) /\ head'[n] = b
      BY <1>1, <2>2 DEF Move
    <3>. HIDE DEF t, r
    <3>3. /\ Len(r) = Len(t) + 1 /\ r[Len(t) + 1] = b /\ r[1] = t[1] /\ r[Len(t)] = t[Len(t)]
          /\ \A i \in 1..(Len(t) - 1) : r[i] = t[i] /\ r[i + 1] = t[i + 1]
      BY <3>1, <3>2, GrownTrail
    <3>4. ASSUME Steady(n)'
          PROVE  Steady(n) /\ OnChain(head[n]) \subseteq OnChain(b)
      <4>1. \A i \in 1..(Len(r) - 1) : OnChain(r[i]) \subseteq OnChain(r[i + 1])
        BY <3>4 DEF Steady, r
      <4>2. \A i \in 1..(Len(t) - 1) : i \in 1..(Len(r) - 1)
        BY <3>1, <3>3
      <4>3. Len(t) \in 1..(Len(r) - 1)
        BY <3>1, <3>3
      <4>4. \A i \in 1..(Len(t) - 1) : OnChain(t[i]) \subseteq OnChain(t[i + 1])
        BY <3>3, <4>1, <4>2, Zenon
      <4>5. OnChain(t[Len(t)]) \subseteq OnChain(b)
        BY <3>3, <4>1, <4>3, Zenon
      <4>. QED  BY <3>1, <4>4, <4>5 DEF Steady, t
    <3>5. Steady(n)' => OnChain(t[1]) \subseteq OnChain(b) /\ read[n] \subseteq OnChain(b)
      BY <2>2, <3>4 DEF TrailOK, t
    <3>. QED  BY <2>2, <2>4, <3>1, <3>2, <3>3, <3>5 DEF r
  <2>. QED  BY <2>3, <2>4
<1>2. ASSUME NEW n \in Node, AskHeight(n)
      PROVE  TrailOK'
  BY <1>2 DEF AskHeight, TrailOK
<1>3. CASE Fail
  BY <1>3 DEF Fail, TrailOK
<1>4. CASE StartSearch
  BY <1>4 DEF StartSearch, TrailOK
<1>5. CASE CheckHeight
  <2>1. ASSUME Asked', NEW m \in Node
        PROVE  /\ Len(trail'[m]) = 1 /\ trail'[m][1] = head'[m] /\ read'[m] = {}
    <3>1. phase' = "ranges" /\ trail'[m] = <<head[m]>> /\ head' = head /\ read' = read
      BY <1>5, <2>1 DEF CheckHeight
    <3>2. read[m] = {}
      BY <1>5 DEF CheckHeight, QuietOK
    <3>. QED  BY <3>1, <3>2
  <2>. QED  BY <2>1 DEF TrailOK
<1>6. CASE NoConsensus
  BY <1>6 DEF NoConsensus, TrailOK
<1>7. ASSUME NEW n \in Node, ReadBlock(n)
      PROVE  TrailOK'
  <2>1. Asked /\ trail' = trail /\ head' = head
    BY <1>7 DEF ReadBlock, QuietOK
  <2>2. \A m \in Node : read'[m] \subseteq read[m] \cup OnChain(head[m])
    BY <1>7 DEF ReadBlock, BlocksAt
  <2>3. \A m \in Node : Steady(m)' <=> Steady(m)
    BY <2>1 DEF Steady
  <2>. QED  BY <2>1, <2>2, <2>3 DEF TrailOK
<1>8. ASSUME NEW n \in Node, Collect(n)
      PROVE  TrailOK'
  BY <1>8 DEF Collect, TrailOK, Steady
<1>9. CASE Process
  BY <1>9 DEF Process, TrailOK, Steady
<1>10. CASE UNCHANGED vars
  BY <1>10 DEF vars, TrailOK, Steady
<1>. QED
  BY <1>1, <1>2, <1>3, <1>4, <1>5, <1>6, <1>7, <1>8, <1>9, <1>10 DEF Next, Chains, Query

LEMMA ReadKept ==
  ASSUME IInv, [Next]_vars
  PROVE  ReadOK'
<1>. USE DEF IInv, TypeOK, Asked, First, nodeVars, heightVars, rangeVars
<1>1. ASSUME NEW n \in Node, NEW b \in Block, Move(n, b)
      PROVE  ReadOK'
  <2>1. ASSUME Asked'
        PROVE  /\ Asked /\ UNCHANGED <<height, read, next, replied>>
               /\ \A m \in Node : trail'[m][1] = trail[m][1] /\ (Steady(m)' => Steady(m))
    <3>1. Asked /\ phase = "ranges" /\ UNCHANGED <<height, read, next, replied>>
      BY <1>1, <2>1 DEF Move
    <3>2. ASSUME NEW m \in Node
          PROVE  trail'[m][1] = trail[m][1] /\ (Steady(m)' => Steady(m))
      <4>1. CASE m # n
        BY <1>1, <3>1, <4>1 DEF Move, Steady
      <4>2. CASE m = n
        <5>1. trail[n] \in Seq(Block \cup {NoBlock}) /\ Len(trail[n]) > 0 /\ Len(trail[n]) \in Nat
          BY <3>1, LenProperties DEF TrailOK
        <5>2. trail'[n] = Append(trail[n], b)
          BY <1>1, <3>1 DEF Move
        <5>. DEFINE t == trail[n]
                    r == trail'[n]
        <5>. HIDE DEF t, r
        <5>3. /\ Len(r) = Len(t) + 1 /\ r[1] = t[1]
              /\ \A i \in 1..(Len(t) - 1) : r[i] = t[i] /\ r[i + 1] = t[i + 1]
          BY <5>1, <5>2, GrownTrail DEF t, r
        <5>4. ASSUME Steady(n)' PROVE Steady(n)
          <6>1. \A i \in 1..(Len(r) - 1) : OnChain(r[i]) \subseteq OnChain(r[i + 1])
            BY <5>4 DEF Steady, r
          <6>2. \A i \in 1..(Len(t) - 1) : i \in 1..(Len(r) - 1)
            BY <5>1, <5>3 DEF t
          <6>3. \A i \in 1..(Len(t) - 1) : OnChain(t[i]) \subseteq OnChain(t[i + 1])
            BY <5>3, <6>1, <6>2, Zenon
          <6>. QED  BY <6>3 DEF Steady, t
        <5>. QED  BY <4>2, <5>3, <5>4 DEF t, r
      <4>. QED  BY <4>1, <4>2
    <3>. QED  BY <3>1, <3>2
  <2>. QED  BY <2>1 DEF ReadOK
<1>2. ASSUME NEW n \in Node, AskHeight(n)
      PROVE  ReadOK'
  BY <1>2 DEF AskHeight, ReadOK
<1>3. CASE Fail
  BY <1>3 DEF Fail, ReadOK
<1>4. CASE StartSearch
  BY <1>4 DEF StartSearch, ReadOK
<1>5. CASE CheckHeight
  <2>1. ASSUME Asked', NEW m \in Node
        PROVE  /\ read'[m] = {} /\ m \notin replied' /\ next'[m] = StartIndex(height')
               /\ StartIndex(height') \in Nat
    <3>1. phase' = "ranges" /\ next'[m] = StartIndex(height) /\ height' = height
      BY <1>5, <2>1 DEF CheckHeight
    <3>2. read' = read /\ replied' = replied /\ read[m] = {} /\ replied = {}
      BY <1>5 DEF CheckHeight, QuietOK
    <3>. QED  BY <3>1, <3>2, RangeShape
  <2>2. ASSUME Asked', NEW m \in Node
        PROVE  \A b \in OnChain(trail'[m][1]) : Index[b] \in Nat
    <3>1. trail'[m][1] = head[m] /\ head[m] \in Block \cup {NoBlock}
      BY <1>5, <2>2 DEF CheckHeight
    <3>2. OnChain(head[m]) \subseteq Block
      BY <3>1, ChainShape
    <3>. QED  BY <3>1, <3>2, BlockAssumption
  <2>. QED  BY <2>1, <2>2 DEF ReadOK
<1>6. CASE NoConsensus
  BY <1>6 DEF NoConsensus, ReadOK
<1>7. ASSUME NEW n \in Node, ReadBlock(n)
      PROVE  ReadOK'
  <2>1. Asked /\ UNCHANGED <<trail, head, height, replied>>
    BY <1>7 DEF ReadBlock, QuietOK
  <2>2. \A m \in Node : (Steady(m)' <=> Steady(m)) /\ trail'[m][1] = trail[m][1]
    BY <2>1 DEF Steady
  <2>. DEFINE Good(m) ==
          /\ StartIndex(height) <= next'[m]
          /\ \A b \in read'[m] : StartIndex(height) <= Index[b] /\ Index[b] < next'[m]
          /\ \A b, c \in read'[m] : Index[b] = Index[c] => b = c
          /\ m \in replied => RangeEnd(height) <= next'[m]
          /\ Steady(m) => \A b \in OnChain(First(m)) :
                 StartIndex(height) <= Index[b] /\ Index[b] < next'[m] => b \in read'[m]
  <2>3. \A m \in Node : m # n => Good(m)
    BY <1>7, <2>1 DEF ReadBlock, ReadOK
  <2>4. Good(n)
    <3>. DEFINE i == next[n]
                B == BlocksAt(head[n], i)
    <3>1. next'[n] = i + 1 /\ read'[n] = read[n] \cup B /\ i \in Nat /\ i < RangeEnd(height)
      BY <1>7 DEF ReadBlock
    <3>2. OnChain(head[n]) \subseteq Block /\ \A b, c \in OnChain(head[n]) : Index[b] = Index[c] => b = c
      BY ChainShape
    <3>3. B \subseteq OnChain(head[n]) /\ (\A b \in B : Index[b] = i) /\ (\A b, c \in B : b = c)
      BY <3>2 DEF BlocksAt
    <3>4. StartIndex(height) \in Nat /\ RangeEnd(height) \in Nat
      BY RangeShape
    <3>5. \A b \in Block : Index[b] \in Nat
      BY BlockAssumption
    <3>6. /\ StartIndex(height) <= i
          /\ \A b \in read[n] : StartIndex(height) <= Index[b] /\ Index[b] < i
          /\ \A b, c \in read[n] : Index[b] = Index[c] => b = c
          /\ n \in replied => RangeEnd(height) <= i
          /\ Steady(n) => \A b \in OnChain(First(n)) :
                 StartIndex(height) <= Index[b] /\ Index[b] < i => b \in read[n]
      BY <2>1 DEF ReadOK
    <3>7. Steady(n) => OnChain(First(n)) \subseteq OnChain(head[n])
      BY <2>1 DEF TrailOK
    <3>8. \A b \in OnChain(head[n]) : Index[b] = i => b \in B
      BY DEF BlocksAt
    <3>. HIDE DEF i, B, First
    <3>9. /\ StartIndex(height) <= next'[n]
          /\ n \in replied => RangeEnd(height) <= next'[n]
      BY <3>1, <3>4, <3>6
    <3>10. \A b \in read'[n] : StartIndex(height) <= Index[b] /\ Index[b] < next'[n]
      BY <3>1, <3>2, <3>3, <3>4, <3>5, <3>6
    <3>11. \A b, c \in read'[n] : Index[b] = Index[c] => b = c
      BY <3>1, <3>2, <3>3, <3>5, <3>6
    <3>12. ASSUME Steady(n), NEW b \in OnChain(First(n)),
                  StartIndex(height) <= Index[b], Index[b] < next'[n]
           PROVE  b \in read'[n]
      <4>1. b \in OnChain(head[n]) /\ Index[b] \in Nat
        BY <3>2, <3>5, <3>7, <3>12
      <4>2. Index[b] < i \/ Index[b] = i
        BY <3>1, <3>12, <4>1
      <4>. QED  BY <3>1, <3>6, <3>8, <3>12, <4>1, <4>2
    <3>. QED  BY <3>9, <3>10, <3>11, <3>12
  <2>. QED  BY <2>1, <2>2, <2>3, <2>4 DEF ReadOK
<1>8. ASSUME NEW n \in Node, Collect(n)
      PROVE  ReadOK'
  BY <1>8 DEF Collect, ReadOK, Steady
<1>9. CASE Process
  BY <1>9 DEF Process, ReadOK, Steady
<1>10. CASE UNCHANGED vars
  BY <1>10 DEF vars, ReadOK, Steady
<1>. QED
  BY <1>1, <1>2, <1>3, <1>4, <1>5, <1>6, <1>7, <1>8, <1>9, <1>10 DEF Next, Chains, Query

LEMMA CoverKept ==
  ASSUME IInv, [Next]_vars
  PROVE  CoverOK'
<1>. USE DEF IInv, TypeOK, Asked, nodeVars, heightVars, rangeVars
<1>1. ASSUME NEW n \in Node, NEW b \in Block, Move(n, b)
      PROVE  CoverOK'
  <2>1. UNCHANGED <<phase, height, heights, read, next>>
    BY <1>1 DEF Move
  <2>2. ASSUME ~shrunk'
        PROVE  ~shrunk /\ \A m \in Node : HeightOf(head[m]) <= HeightOf(head'[m])
    <3>1. ~shrunk /\ ~(HeightOf(b) < HeightOf(head[n])) /\ head' = [head EXCEPT ![n] = b]
      BY <1>1, <2>2 DEF Move
    <3>2. HeightOf(b) \in Nat /\ \A m \in Node : HeightOf(head[m]) \in Nat
      BY ChainShape
    <3>. QED  BY <3>1, <3>2
  <2>3. \A m \in Node : HeightOf(head[m]) \in Nat /\ HeightOf(head'[m]) \in Nat
    BY <1>1, ChainShape DEF Move
  <2>4. ASSUME ~shrunk', NEW m \in DOMAIN heights
        PROVE  heights[m] <= HeightOf(head'[m])
    <3>1. heights[m] <= HeightOf(head[m]) /\ heights[m] \in Nat /\ m \in Node
      BY <2>2, <2>4 DEF CoverOK
    <3>. QED  BY <2>2, <2>3, <2>4, <3>1
  <2>5. ~shrunk' => ~shrunk
    BY <2>2
  <2>. QED  BY <2>1, <2>4, <2>5 DEF CoverOK
<1>2. ASSUME NEW n \in Node, AskHeight(n)
      PROVE  CoverOK'
  <2>1. ~Asked /\ ~Asked' /\ UNCHANGED <<head, shrunk>>
    BY <1>2 DEF AskHeight
  <2>2. ASSUME ~shrunk
        PROVE  \A m \in DOMAIN heights' : heights'[m] <= HeightOf(head[m])
    <3>1. HeightOf(head[n]) \in Nat
      BY ChainShape
    <3>. QED  BY <1>2, <2>2, <3>1 DEF AskHeight, CoverOK
  <2>. QED  BY <2>1, <2>2 DEF CoverOK
<1>3. CASE Fail
  BY <1>3 DEF Fail, CoverOK
<1>4. CASE StartSearch
  BY <1>4 DEF StartSearch, CoverOK
<1>5. CASE CheckHeight
  <2>1. UNCHANGED <<head, heights, shrunk, read>>
    BY <1>5 DEF CheckHeight
  <2>2. ASSUME Asked'
        PROVE  /\ \E m \in DOMAIN heights : height' <= heights[m]
               /\ \A m \in Node : next'[m] = StartIndex(height')
    <3>1. PICK answered \in RequestBlock(height) : Cardinality(answered) >= HeightThreshold
      BY <1>5, <2>2 DEF CheckHeight
    <3>2. height' = height /\ next' = [m \in Node |-> StartIndex(height)]
      BY <1>5, <2>2 DEF CheckHeight
    <3>3. IsFiniteSet(DOMAIN heights)
      BY ApiAssumption, FS_Subset
    <3>4. HeightThreshold > 0
      BY <3>3, FS_CardinalityType DEF HeightThreshold
    <3>5. answered # {}
      <4>1. Cardinality({}) = 0 /\ HeightThreshold \in Int
        BY <3>3, FS_EmptySet, FS_CardinalityType DEF HeightThreshold
      <4>2. ASSUME answered = {}
            PROVE  FALSE
        <5>1. Cardinality(answered) = 0
          BY <4>1, <4>2
        <5>. QED  BY <3>1, <3>4, <4>1, <5>1
      <4>. QED  BY <4>2
    <3>6. answered \subseteq {m \in DOMAIN heights : heights[m] >= height}
      BY <3>1 DEF RequestBlock, Claim
    <3>. QED  BY <3>2, <3>5, <3>6
  <2>3. StartIndex(height') \in Nat
    BY <1>5, RangeShape DEF CheckHeight
  <2>. QED  BY <2>1, <2>2, <2>3 DEF CoverOK
<1>6. CASE NoConsensus
  BY <1>6 DEF NoConsensus, CoverOK
<1>7. ASSUME NEW n \in Node, ReadBlock(n)
      PROVE  CoverOK'
  <2>1. Asked /\ Asked' /\ UNCHANGED <<head, heights, height, shrunk>>
    BY <1>7 DEF ReadBlock, QuietOK
  <2>2. ASSUME ~shrunk, NEW m \in DOMAIN heights, height <= heights[m],
               NEW i \in StartIndex(height)..height, i < next'[m]
        PROVE  \E b \in read'[m] : Index[b] = i
    <3>1. CASE i < next[m]
      <4>1. PICK b \in read[m] : Index[b] = i
        BY <2>1, <2>2, <3>1 DEF CoverOK
      <4>2. b \in read'[m]
        BY <1>7, <4>1 DEF ReadBlock
      <4>. QED  BY <4>1, <4>2
    <3>2. CASE ~(i < next[m])
      <4>1. i \in Nat /\ StartIndex(height) \in Nat
        BY RangeShape
      <4>2. m = n /\ i = next[n]
        BY <1>7, <2>2, <3>2, <4>1 DEF ReadBlock
      <4>3. heights[m] <= HeightOf(head[m]) /\ heights[m] \in Nat /\ HeightOf(head[m]) \in Nat
        BY <2>2, ChainShape DEF CoverOK
      <4>4. i \in 0..HeightOf(head[n])
        BY <2>2, <4>1, <4>2, <4>3
      <4>5. head[n] # NoBlock
        BY <2>1, <2>2, <4>2, <4>3 DEF HeightOf
      <4>6. PICK b \in OnChain(head[n]) : Index[b] = i
        BY <4>4, <4>5, ChainShape
      <4>7. b \in read'[n]
        BY <1>7, <4>2, <4>6 DEF ReadBlock, BlocksAt
      <4>. QED  BY <4>2, <4>6, <4>7
    <3>. QED  BY <3>1, <3>2
  <2>. QED  BY <2>1, <2>2 DEF CoverOK
<1>8. ASSUME NEW n \in Node, Collect(n)
      PROVE  CoverOK'
  BY <1>8 DEF Collect, CoverOK
<1>9. CASE Process
  BY <1>9 DEF Process, CoverOK
<1>10. CASE UNCHANGED vars
  BY <1>10 DEF vars, CoverOK
<1>. QED
  BY <1>1, <1>2, <1>3, <1>4, <1>5, <1>6, <1>7, <1>8, <1>9, <1>10 DEF Next, Chains, Query

(* A query that is over takes no step; only Process ends one with a height.*)
LEMMA DoneKept ==
  ASSUME IInv, [Next]_vars
  PROVE  DoneOK'
<1>. USE DEF IInv, TypeOK, nodeVars, heightVars, rangeVars
<1>1. ASSUME NEW n \in Node, NEW b \in Block, Move(n, b)
      PROVE  DoneOK'
  BY <1>1 DEF Move, DoneOK
<1>2. ASSUME NEW n \in Node, AskHeight(n)
      PROVE  DoneOK'
  BY <1>2 DEF AskHeight, DoneOK
<1>3. CASE Fail
  BY <1>3 DEF Fail, DoneOK
<1>4. CASE StartSearch
  BY <1>4 DEF StartSearch, DoneOK
<1>5. CASE CheckHeight
  BY <1>5 DEF CheckHeight, DoneOK
<1>6. CASE NoConsensus
  BY <1>6 DEF NoConsensus, DoneOK
<1>7. ASSUME NEW n \in Node, ReadBlock(n)
      PROVE  DoneOK'
  BY <1>7 DEF ReadBlock, DoneOK
<1>8. ASSUME NEW n \in Node, Collect(n)
      PROVE  DoneOK'
  BY <1>8 DEF Collect, DoneOK
<1>9. CASE Process
  <2>. DEFINE indices == {i \in StartIndex(height)..height : Candidates(i) # {}}
  <2>1. UNCHANGED <<height, replied, read>>
    BY <1>9 DEF Process
  <2>2. DOMAIN result' = indices /\ \A i \in indices : result'[i] \in Selected(i)
    BY <1>9 DEF Process
  <2>3. /\ {i \in StartIndex(height)..height : Candidates(i) # {}}' = indices
        /\ \A i : Selected(i)' = Selected(i)
    BY <2>1 DEF Candidates, Selected, Votes
  <2>. HIDE DEF indices
  <2>. QED  BY <2>2, <2>3 DEF DoneOK
<1>10. CASE UNCHANGED vars
  <2>1. UNCHANGED <<phase, height, replied, read, result>>
    BY <1>10 DEF vars
  <2>2. (\A i : Candidates(i)' = Candidates(i)) /\ \A i : Selected(i)' = Selected(i)
    BY <2>1 DEF Candidates, Selected, Votes
  <2>. QED  BY <2>1, <2>2 DEF DoneOK
<1>. QED
  BY <1>1, <1>2, <1>3, <1>4, <1>5, <1>6, <1>7, <1>8, <1>9, <1>10 DEF Next, Chains, Query

(* IInv holds initially and every step keeps it.                           *)
THEOREM Inductive == Spec => []IInv
<1>1. Init => IInv
  <2>. SUFFICES ASSUME Init PROVE IInv
    OBVIOUS
  <2>1. TypeOK
    BY TypeInit
  <2>2. ~Asked /\ phase = "heights" /\ DOMAIN heights = {} /\ replied = {}
        /\ DOMAIN result = {} /\ \A n \in Node : read[n] = {}
    BY DEF Init, Asked
  <2>. QED  BY <2>1, <2>2 DEF IInv, QuietOK, TrailOK, ReadOK, CoverOK, DoneOK
<1>2. IInv /\ [Next]_vars => IInv'
  <2>. SUFFICES ASSUME IInv, [Next]_vars PROVE IInv'
    OBVIOUS
  <2>1. TypeOK'
    BY TypeKept DEF IInv
  <2>. QED
    BY <2>1, QuietKept, TrailKept, ReadKept, CoverKept, DoneKept DEF IInv
<1>. QED  BY <1>1, <1>2, PTL DEF Spec

------------------------------------------------------------------------------
(* What a majority voted for, and what any node of it read.                *)
LEMMA VotersMeet ==
  ASSUME IInv, NEW x, NEW y,
         Votes(x) >= MajorityThreshold, Votes(y) >= MajorityThreshold
  PROVE  \E n \in replied : x \in read[n] /\ y \in read[n]
<1>. DEFINE S == {n \in replied : x \in read[n]}
            T == {n \in replied : y \in read[n]}
<1>1. S \subseteq Node /\ T \subseteq Node
  BY DEF IInv, TypeOK
<1>2. 2 * Cardinality(S) > Cardinality(Node)
  BY <1>1, ThresholdIsMajority DEF Votes
<1>3. Cardinality(T) >= MajorityThreshold
  BY DEF Votes
<1>. HIDE DEF S, T
<1>4. S \cap T # {}
  BY <1>1, <1>2, <1>3, MajoritiesMeet
<1>. QED  BY <1>4 DEF S, T

(* If all who read both blocks are torn, their votes share only those: the *)
(* sum is at most the number of nodes and the torn responses.              *)
LEMMA SteadyVoter ==
  ASSUME IInv, NEW x, NEW y,
         Votes(x) + Votes(y) >= 2 * MajorityThreshold + Torn(x, y)
  PROVE  \E n \in replied : Steady(n) /\ x \in read[n] /\ y \in read[n]
<1>. DEFINE S == {n \in replied : x \in read[n]}
            T == {n \in replied : y \in read[n]}
            U == {n \in replied : ~Steady(n) /\ x \in read[n] /\ y \in read[n]}
<1>1. /\ S \subseteq Node /\ T \subseteq Node /\ U \subseteq Node
      /\ S \cup T \subseteq Node /\ S \cap T \subseteq Node
  BY DEF IInv, TypeOK
<1>2. Cardinality(S) + Cardinality(T) >= 2 * MajorityThreshold + Cardinality(U)
  BY DEF Votes, Torn
<1>3. SUFFICES ASSUME S \cap T \subseteq U PROVE FALSE
  OBVIOUS
<1>. HIDE DEF S, T, U
<1>4. /\ IsFiniteSet(Node) /\ IsFiniteSet(S) /\ IsFiniteSet(T) /\ IsFiniteSet(U)
      /\ IsFiniteSet(S \cup T) /\ IsFiniteSet(S \cap T)
  BY <1>1, ApiAssumption, FS_Subset
<1>5. /\ Cardinality(Node) \in Nat /\ Cardinality(S) \in Nat /\ Cardinality(T) \in Nat
      /\ Cardinality(U) \in Nat /\ Cardinality(S \cup T) \in Nat
      /\ Cardinality(S \cap T) \in Nat
  BY <1>4, FS_CardinalityType
<1>6. Cardinality(S \cup T) <= Cardinality(Node) /\ Cardinality(S \cap T) <= Cardinality(U)
  BY <1>1, <1>3, <1>4, FS_Subset
<1>7. Cardinality(S \cup T) = Cardinality(S) + Cardinality(T) - Cardinality(S \cap T)
  BY <1>4, FS_Union
<1>8. MajorityThreshold \in Nat /\ 2 * MajorityThreshold > Cardinality(Node)
  BY <1>5 DEF MajorityThreshold
<1>. QED  BY <1>2, <1>5, <1>6, <1>7, <1>8

LEMMA LinksFromIInv == IInv => MajorityLinks
<1>. SUFFICES ASSUME IInv, NEW i \in DOMAIN result,
                     i + 1 \in DOMAIN result,
                     Votes(result[i]) + Votes(result[i + 1])
                         >= 2 * MajorityThreshold + Torn(result[i], result[i + 1])
              PROVE  Prev[result[i + 1]] = result[i]
  BY DEF MajorityLinks
<1>1. Asked /\ phase = "done" /\ height > 0
  BY DEF IInv, QuietOK, Asked, TypeOK
<1>2. result[i] \in Candidates(i) /\ result[i + 1] \in Candidates(i + 1)
  BY <1>1 DEF IInv, DoneOK, Selected
<1>3. Index[result[i]] = i /\ Index[result[i + 1]] = i + 1
  BY <1>2 DEF Candidates
<1>4. PICK n \in replied : Steady(n) /\ result[i] \in read[n] /\ result[i + 1] \in read[n]
  BY SteadyVoter
<1>5. n \in Node /\ head[n] \in Block \cup {NoBlock}
  BY DEF IInv, TypeOK
<1>6. result[i] \in OnChain(head[n]) /\ result[i + 1] \in OnChain(head[n])
  BY <1>1, <1>4, <1>5 DEF IInv, TrailOK
<1>. QED  BY <1>3, <1>5, <1>6, ChainLinks

LEMMA WinsFromIInv == IInv => MajorityWins
<1>. DEFINE S(b) == {n \in replied : Steady(n) /\ b \in OnChain(trail[n][1])}
<1>. SUFFICES ASSUME IInv, phase = "done", NEW b \in Block,
                     Index[b] \in StartIndex(height)..height,
                     2 * Cardinality(S(b)) > Cardinality(Node)
              PROVE  Index[b] \in DOMAIN result /\ result[Index[b]] = b
  BY DEF MajorityWins
<1>1. replied \subseteq Node /\ IsFiniteSet(Node) /\ IsFiniteSet(replied) /\ IsFiniteSet(S(b))
  <2>1. replied \subseteq Node /\ S(b) \subseteq Node /\ IsFiniteSet(Node)
    BY ApiAssumption DEF IInv, TypeOK
  <2>. QED  BY <2>1, FS_Subset
<1>2. S(b) # {}
  <2>1. Cardinality({}) = 0 /\ Cardinality(Node) \in Nat
    BY <1>1, FS_EmptySet, FS_CardinalityType
  <2>2. ASSUME S(b) = {}
        PROVE  FALSE
    <3>1. Cardinality(S(b)) = 0
      BY <2>1, <2>2
    <3>. HIDE DEF S
    <3>. QED  BY <2>1, <3>1
  <2>. QED  BY <2>2
<1>3. Asked /\ height > 0
  BY <1>2 DEF IInv, QuietOK, Asked
<1>4. ASSUME NEW n \in S(b)
      PROVE  b \in read[n]
  <2>1. n \in Node /\ n \in replied /\ Steady(n) /\ b \in OnChain(First(n))
    BY <1>1 DEF First
  <2>2. RangeEnd(height) <= next[n] /\ next[n] \in Nat /\ height \in Nat
    BY <1>3, <2>1 DEF IInv, ReadOK, TypeOK
  <2>3. Index[b] \in Nat /\ Index[b] <= height /\ StartIndex(height) <= Index[b]
    BY <2>2, RangeShape, BlockAssumption
  <2>4. Index[b] < next[n]
    BY <2>2, <2>3, RangeShape
  <2>. QED  BY <1>3, <2>1, <2>3, <2>4 DEF IInv, ReadOK
<1>. DEFINE T == {n \in replied : b \in read[n]}
<1>5. Votes(b) >= MajorityThreshold
  <2>1. S(b) \subseteq T /\ IsFiniteSet(T) /\ T \subseteq Node
    BY <1>1, <1>4, FS_Subset
  <2>2. Cardinality(S(b)) <= Cardinality(T)
    BY <2>1, FS_Subset
  <2>3. Cardinality(S(b)) \in Nat /\ Cardinality(T) \in Nat /\ Cardinality(Node) \in Nat
    BY <1>1, <2>1, FS_CardinalityType
  <2>4. 2 * Cardinality(T) > Cardinality(Node)
    BY <2>2, <2>3
  <2>. QED  BY <2>1, <2>4, ThresholdIsMajority DEF Votes
<1>6. b \in Candidates(Index[b])
  BY <1>2, <1>4 DEF Candidates
<1>7. ASSUME NEW c \in Candidates(Index[b]), Votes(c) >= MajorityThreshold
      PROVE  c = b
  <2>1. PICK n \in replied : c \in read[n] /\ b \in read[n]
    BY <1>5, <1>7, VotersMeet
  <2>2. n \in Node /\ Index[c] = Index[b]
    BY <1>1, <1>7 DEF Candidates
  <2>. QED  BY <1>3, <2>1, <2>2 DEF IInv, ReadOK
<1>8. Selected(Index[b]) = {b}
  BY <1>5, <1>6, <1>7 DEF Selected
<1>9. Index[b] \in DOMAIN result
  BY <1>3, <1>6 DEF IInv, DoneOK
<1>. QED  BY <1>3, <1>8, <1>9 DEF IInv, DoneOK

LEMMA FullFromIInv == IInv => FullAnswer
<1>. SUFFICES ASSUME IInv, phase = "done", replied = Node, ~shrunk
              PROVE  /\ DOMAIN result = StartIndex(height)..height
                     /\ Cardinality(DOMAIN result) = Min({Wanted, height + 1})
  BY DEF FullAnswer
<1>1. Asked /\ height > 0
  BY ApiAssumption DEF IInv, QuietOK, Asked
<1>2. height \in Nat /\ StartIndex(height) \in Nat /\ StartIndex(height) <= height /\ Wanted \in Nat
  BY RangeShape DEF IInv, TypeOK
<1>3. PICK n \in DOMAIN heights : height <= heights[n]
  BY <1>1 DEF IInv, CoverOK
<1>4. n \in Node /\ next[n] \in Nat /\ height + 1 <= next[n]
  BY <1>1, <1>2, RangeShape DEF IInv, TypeOK, ReadOK
<1>5. ASSUME NEW i \in StartIndex(height)..height
      PROVE  Candidates(i) # {}
  <2>1. i < next[n]
    BY <1>2, <1>4
  <2>2. PICK b \in read[n] : Index[b] = i
    BY <1>1, <1>3, <2>1 DEF IInv, CoverOK
  <2>. QED  BY <1>4, <2>2 DEF Candidates
<1>6. DOMAIN result = StartIndex(height)..height
  BY <1>1, <1>5 DEF IInv, DoneOK
<1>7. Cardinality(DOMAIN result) = height - StartIndex(height) + 1
  BY <1>2, <1>6, FS_Interval
<1>8. Min({Wanted, height + 1}) = IF height >= Wanted THEN Wanted ELSE height + 1
  BY <1>2 DEF Min
<1>. QED  BY <1>2, <1>6, <1>7, <1>8 DEF StartIndex

------------------------------------------------------------------------------
(* The query keeps its types.                                              *)
THEOREM ApiTypeCorrect == Spec => []TypeOK
<1>1. IInv => TypeOK
  BY DEF IInv
<1>. QED  BY <1>1, Inductive, PTL

(* Neighbours in the answer whose votes exceed two majorities by as many   *)
(* as there are responses that mix them are parent and child, whoever else *)
(* reorganizes inside a range: getConsensusBlocks checks no links.         *)
THEOREM AlwaysMajorityLinks == Spec => []MajorityLinks
BY Inductive, LinksFromIInv, PTL

(* What a majority of the nodes had and kept is what the answer shows,     *)
(* however the minority moved between the reads of its range responses.    *)
THEOREM AlwaysMajorityWins == Spec => []MajorityWins
BY Inductive, WinsFromIInv, PTL

(* When every node answered and no chain shrank, the answer has a block    *)
(* for each of the last n indices up to the consensus height.              *)
THEOREM AlwaysFullAnswer == Spec => []FullAnswer
BY Inductive, FullFromIInv, PTL
==============================================================================
