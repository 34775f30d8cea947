-------------------------- MODULE BlockTreeTheorems --------------------------
(***************************************************************************)
(* What BlockTree's operators return, for every universe of blocks that    *)
(* satisfies BlockAssumption.  Path is recursive, so facts about it need   *)
(* an induction; MinimalBlock is that induction, stated as the existence   *)
(* of a smallest counterexample.                                           *)
(***************************************************************************)
EXTENDS BlockTree, Integers, TLAPS, WellFoundedInduction, SequenceTheorems, FiniteSetTheorems

(* The indices of the blocks of S have an upper bound.                     *)
Bounded(S) == \E n \in Nat : \A b \in S : Index[b] <= n

(* Path[b] ends with b and is one longer than its parent's.                *)
LEMMA PathShape ==
  ASSUME NEW b \in Block
  PROVE  /\ Path[b] \in Seq(Block)
         /\ Len(Path[b]) \in Nat \ {0}
         /\ DOMAIN Path[b] = 1..Len(Path[b])
         /\ Prev[b] = NoBlock => Path[b] = <<b>>
         /\ Prev[b] # NoBlock =>
              /\ Prev[b] \in Block
              /\ Path[Prev[b]] \in Seq(Block)
              /\ Path[b] = Append(Path[Prev[b]], b)
              /\ Len(Path[b]) = Len(Path[Prev[b]]) + 1
<1>1. Path[b] \in Seq(Block)
  BY BlockAssumption
<1>2. Len(Path[b]) \in Nat /\ DOMAIN Path[b] = 1..Len(Path[b])
  BY <1>1, LenProperties
<1>3. Prev[b] = NoBlock => Path[b] = <<b>>
  BY BlockAssumption
<1>4. ASSUME Prev[b] # NoBlock
      PROVE  /\ Prev[b] \in Block
             /\ Path[Prev[b]] \in Seq(Block)
             /\ Path[b] = Append(Path[Prev[b]], b)
             /\ Len(Path[b]) = Len(Path[Prev[b]]) + 1
  BY <1>4, BlockAssumption, AppendProperties
<1>5. Len(Path[b]) # 0
  <2>1. CASE Prev[b] = NoBlock
    BY <2>1, <1>3
  <2>2. CASE Prev[b] # NoBlock
    BY <2>2, <1>4, LenProperties
  <2>. QED  BY <2>1, <2>2
<1>. QED  BY <1>1, <1>2, <1>3, <1>4, <1>5

(* A set of blocks has a member whose parent is outside the set.           *)
LEMMA MinimalBlock ==
  ASSUME NEW S \in SUBSET Block, S # {}
  PROVE  \E b \in S : Prev[b] \notin S
<1>. DEFINE T == {Len(Path[b]) : b \in S}
<1>1. T \subseteq Nat /\ T # {}
  BY PathShape
<1>2. \E x \in T : \A y \in T : ~ (<<y, x>> \in OpToRel(<, Nat))
  BY <1>1, NatLessThanWellFounded, WFMin, Zenon
<1>3. PICK x \in T : \A y \in T : ~ (<<y, x>> \in OpToRel(<, Nat))
  BY <1>2
<1>4. PICK b \in S : x = Len(Path[b])
  BY <1>3
<1>5. ASSUME Prev[b] \in S
      PROVE  FALSE
  <2>1. Prev[b] # NoBlock
    BY <1>5, BlockAssumption
  <2>2. Len(Path[b]) = Len(Path[Prev[b]]) + 1 /\ Len(Path[Prev[b]]) \in Nat
    BY <2>1, <1>5, PathShape
  <2>3. Len(Path[Prev[b]]) \in T
    BY <1>5
  <2>4. <<Len(Path[Prev[b]]), x>> \in OpToRel(<, Nat)
    BY <2>2, <1>4 DEF OpToRel
  <2>. QED  BY <2>3, <2>4, <1>3
<1>. QED  BY <1>5

(* The ancestors of a block are itself and its parent's ancestors.         *)
LEMMA AncestorsShape ==
  ASSUME NEW b \in Block
  PROVE  /\ b \in Ancestors(b)
         /\ Ancestors(b) \subseteq Block
         /\ Path[b][1] \in Ancestors(b)
         /\ Prev[b] = NoBlock => Ancestors(b) = {b}
         /\ Prev[b] # NoBlock => /\ Ancestors(b) = Ancestors(Prev[b]) \cup {b}
                                 /\ Path[b][1] = Path[Prev[b]][1]
<1>1. Path[b] \in Seq(Block) /\ Len(Path[b]) \in Nat \ {0} /\ DOMAIN Path[b] = 1..Len(Path[b])
  BY PathShape
<1>2. Ancestors(b) \subseteq Block
  BY <1>1, ElementOfSeq DEF Ancestors
<1>3. Path[b][1] \in Ancestors(b)
  BY <1>1 DEF Ancestors
<1>4. ASSUME Prev[b] = NoBlock
      PROVE  Ancestors(b) = {b}
  <2>1. Path[b] = <<b>>
    BY <1>4, PathShape
  <2>2. DOMAIN Path[b] = {1} /\ Path[b][1] = b
    BY <2>1
  <2>. QED  BY <2>2 DEF Ancestors
<1>5. ASSUME Prev[b] # NoBlock
      PROVE  /\ Ancestors(b) = Ancestors(Prev[b]) \cup {b}
             /\ Path[b][1] = Path[Prev[b]][1]
  <2>. DEFINE p == Path[Prev[b]]
  <2>1. /\ p \in Seq(Block) /\ Len(p) \in Nat \ {0} /\ DOMAIN p = 1..Len(p)
        /\ Path[b] = Append(p, b)
        /\ Len(Path[b]) = Len(p) + 1
    BY <1>5, PathShape
  <2>2. /\ Path[b][Len(p) + 1] = b
        /\ \A i \in 1..Len(p) : Path[b][i] = p[i]
    BY <2>1, AppendProperties
  <2>. HIDE DEF p
  <2>3. ASSUME NEW c \in Ancestors(b)
        PROVE  c \in {p[i] : i \in DOMAIN p} \cup {b}
    <3>1. PICK i \in 1..(Len(p) + 1) : c = Path[b][i]
      BY <1>1, <2>1 DEF Ancestors
    <3>2. i = Len(p) + 1 \/ i \in 1..Len(p)
      BY <2>1
    <3>. QED  BY <3>1, <3>2, <2>1, <2>2
  <2>4. ASSUME NEW c \in {p[i] : i \in DOMAIN p} \cup {b}
        PROVE  c \in Ancestors(b)
    <3>1. CASE c = b
      BY <3>1, <1>1, <2>1, <2>2 DEF Ancestors
    <3>2. ASSUME NEW i \in 1..Len(p), c = p[i]
          PROVE  c \in Ancestors(b)
      <4>1. i \in DOMAIN Path[b] /\ c = Path[b][i]
        BY <3>2, <1>1, <2>1, <2>2
      <4>. QED  BY <4>1 DEF Ancestors
    <3>. QED  BY <3>1, <3>2, <2>1
  <2>5. Ancestors(Prev[b]) = {p[i] : i \in DOMAIN p}
    BY DEF Ancestors, p
  <2>6. Path[b][1] = p[1]
    BY <2>1, <2>2
  <2>. QED  BY <2>3, <2>4, <2>5, <2>6 DEF p
<1>6. b \in Ancestors(b)
  BY <1>4, <1>5
<1>. QED  BY <1>2, <1>3, <1>4, <1>5, <1>6

(* The ancestors of an ancestor are ancestors.                             *)
LEMMA AncestorsNested ==
  ASSUME NEW b \in Block, NEW c \in Ancestors(b)
  PROVE  Ancestors(c) \subseteq Ancestors(b)
<1>. DEFINE Bad == {d \in Block : \E e \in Ancestors(d) : ~(Ancestors(e) \subseteq Ancestors(d))}
<1>1. ASSUME Bad # {}
      PROVE  FALSE
  <2>1. PICK d \in Bad : Prev[d] \notin Bad
    BY <1>1, MinimalBlock
  <2>2. PICK e \in Ancestors(d) : ~(Ancestors(e) \subseteq Ancestors(d))
    BY <2>1
  <2>3. CASE Prev[d] = NoBlock
    BY <2>1, <2>2, <2>3, AncestorsShape
  <2>4. CASE Prev[d] # NoBlock
    <3>1. Prev[d] \in Block
      BY <2>1, <2>4, BlockAssumption
    <3>2. Ancestors(d) = Ancestors(Prev[d]) \cup {d}
      BY <2>1, <2>4, AncestorsShape
    <3>3. e # d
      BY <2>2
    <3>4. Ancestors(e) \subseteq Ancestors(Prev[d])
      BY <2>1, <2>2, <3>1, <3>2, <3>3
    <3>. QED  BY <2>2, <3>2, <3>4
  <2>. QED  BY <2>3, <2>4
<1>. QED  BY <1>1

(* A path starts at a block without a parent.                              *)
LEMMA PathRoot ==
  ASSUME NEW b \in Block
  PROVE  Path[b][1] \in Block /\ Prev[Path[b][1]] = NoBlock
<1>. DEFINE Bad == {d \in Block : Prev[Path[d][1]] # NoBlock}
<1>1. ASSUME Bad # {}
      PROVE  FALSE
  <2>1. PICK d \in Bad : Prev[d] \notin Bad
    BY <1>1, MinimalBlock
  <2>2. CASE Prev[d] = NoBlock
    BY <2>1, <2>2, PathShape
  <2>3. CASE Prev[d] # NoBlock
    BY <2>1, <2>3, AncestorsShape, BlockAssumption
  <2>. QED  BY <2>2, <2>3
<1>. QED  BY <1>1, AncestorsShape

(* Connected keeps whole ancestries.                                       *)
LEMMA ConnectedClosed ==
  ASSUME NEW S \in SUBSET Block
  PROVE  \A b \in Connected(S) : Ancestors(b) \subseteq Connected(S)
BY AncestorsNested, AncestorsShape DEF Connected

(* A bounded set of blocks has a longest member.                           *)
LEMMA LongestExists ==
  ASSUME NEW S \in SUBSET Block, S # {}, Bounded(S)
  PROVE  \E m \in S : \A b \in S : Index[b] <= Index[m]
<1>1. PICK n \in Nat : \A b \in S : Index[b] <= n
  BY DEF Bounded
<1>. DEFINE T == {n - Index[b] : b \in S}
<1>2. \A b \in S : Index[b] \in Nat
  BY BlockAssumption
<1>3. T \subseteq Nat /\ T # {}
  BY <1>1, <1>2
<1>4. \E x \in T : \A y \in T : ~ (<<y, x>> \in OpToRel(<, Nat))
  BY <1>3, NatLessThanWellFounded, WFMin, Zenon
<1>5. PICK x \in T : \A y \in T : ~ (<<y, x>> \in OpToRel(<, Nat))
  BY <1>4
<1>6. PICK m \in S : x = n - Index[m]
  BY <1>5
<1>7. ASSUME NEW b \in S
      PROVE  Index[b] <= Index[m]
  <2>1. ~ (n - Index[b] < n - Index[m])
    BY <1>3, <1>5, <1>6 DEF OpToRel
  <2>. QED  BY <2>1, <1>2
<1>. QED  BY <1>7

(* When indices count the distance to the root, a longest block is a tip,  *)
(* so the longest tip is a longest block.                                  *)
LEMMA LongestTipIsLongest ==
  ASSUME NEW S \in SUBSET Block, Bounded(S),
         \A b \in S : Index[b] + 1 = Len(Path[b]),
         NEW m \in Longest(Tips(S)), NEW b \in S
  PROVE  Index[b] <= Index[m]
<1>1. PICK t \in S : \A c \in S : Index[c] <= Index[t]
  BY LongestExists
<1>2. ASSUME NEW c \in S, Prev[c] = t
      PROVE  FALSE
  <2>1. Len(Path[c]) = Len(Path[t]) + 1
    BY <1>2, PathShape, BlockAssumption
  <2>2. Index[c] <= Index[t]
    BY <1>1
  <2>. QED  BY <2>1, <2>2, PathShape, BlockAssumption
<1>3. t \in Tips(S)
  BY <1>2 DEF Tips
<1>4. Index[t] <= Index[m]
  BY <1>3 DEF Longest
<1>5. m \in Block /\ t \in Block /\ b \in Block
  BY DEF Longest, Tips
<1>. QED  BY <1>1, <1>4, <1>5, BlockAssumption

(* The i-th block of a path is i links deep.                               *)
LEMMA AncestorDepth ==
  ASSUME NEW b \in Block
  PROVE  \A i \in DOMAIN Path[b] : Path[b][i] \in Block /\ Len(Path[Path[b][i]]) = i
<1>. DEFINE Bad == {d \in Block : \E i \in DOMAIN Path[d] : Len(Path[Path[d][i]]) # i}
<1>1. ASSUME Bad # {}
      PROVE  FALSE
  <2>1. PICK d \in Bad : Prev[d] \notin Bad
    BY <1>1, MinimalBlock
  <2>2. PICK i \in DOMAIN Path[d] : Len(Path[Path[d][i]]) # i
    BY <2>1
  <2>3. CASE Prev[d] = NoBlock
    <3>1. Path[d] = <<d>>
      BY <2>1, <2>3, PathShape
    <3>2. i = 1 /\ Path[d][i] = d /\ Len(Path[d]) = 1
      BY <2>2, <3>1
    <3>. QED  BY <2>2, <3>2
  <2>4. CASE Prev[d] # NoBlock
    <3>. DEFINE p == Path[Prev[d]]
    <3>1. /\ Prev[d] \in Block /\ p \in Seq(Block) /\ Len(p) \in Nat /\ DOMAIN p = 1..Len(p)
          /\ Path[d] = Append(p, d) /\ Len(Path[d]) = Len(p) + 1
          /\ DOMAIN Path[d] = 1..(Len(p) + 1)
      BY <2>1, <2>4, PathShape
    <3>2. Path[d][Len(p) + 1] = d /\ \A j \in 1..Len(p) : Path[d][j] = p[j]
      BY <3>1, AppendProperties
    <3>3. \A j \in 1..Len(p) : Len(Path[p[j]]) = j
      BY <2>1, <3>1
    <3>. HIDE DEF p
    <3>4. i = Len(p) + 1 \/ i \in 1..Len(p)
      BY <2>2, <3>1
    <3>. QED  BY <2>2, <3>1, <3>2, <3>3, <3>4
  <2>. QED  BY <2>3, <2>4
<1>2. \A i \in DOMAIN Path[b] : Len(Path[Path[b][i]]) = i
  BY <1>1
<1>3. \A i \in DOMAIN Path[b] : Path[b][i] \in Block
  BY PathShape, ElementOfSeq
<1>. QED  BY <1>2, <1>3

(* A chain has one block of each depth, down to its head, and as many      *)
(* blocks as its head is deep.                                             *)
LEMMA OneAncestorPerDepth ==
  ASSUME NEW b \in Block
  PROVE  /\ \A c, d \in Ancestors(b) : Len(Path[c]) = Len(Path[d]) => c = d
         /\ \A i \in 1..Len(Path[b]) : \E c \in Ancestors(b) : Len(Path[c]) = i
         /\ \A c \in Ancestors(b) : Len(Path[c]) <= Len(Path[b])
         /\ IsFiniteSet(Ancestors(b)) /\ Cardinality(Ancestors(b)) = Len(Path[b])
<1>1. /\ Path[b] \in Seq(Block) /\ Len(Path[b]) \in Nat /\ DOMAIN Path[b] = 1..Len(Path[b])
  BY PathShape
<1>2. \A i \in 1..Len(Path[b]) : Path[b][i] \in Block /\ Len(Path[Path[b][i]]) = i
  BY <1>1, AncestorDepth
<1>3. \A c \in Ancestors(b) : \E i \in 1..Len(Path[b]) : c = Path[b][i]
  BY <1>1 DEF Ancestors
<1>4. \A c, d \in Ancestors(b) : Len(Path[c]) = Len(Path[d]) => c = d
  BY <1>2, <1>3
<1>5. \A i \in 1..Len(Path[b]) : Path[b][i] \in Ancestors(b)
  BY <1>1 DEF Ancestors
<1>6. \A c \in Ancestors(b) : Len(Path[c]) <= Len(Path[b])
  BY <1>1, <1>2, <1>3
<1>. DEFINE f == [i \in 1..Len(Path[b]) |-> Path[b][i]]
<1>7. f \in Bijection(1..Len(Path[b]), Ancestors(b))
  <2>1. f \in [1..Len(Path[b]) -> Ancestors(b)]
    BY <1>5
  <2>2. \A i, j \in 1..Len(Path[b]) : f[i] = f[j] => i = j
    BY <1>2
  <2>3. \A c \in Ancestors(b) : \E i \in 1..Len(Path[b]) : f[i] = c
    BY <1>3
  <2>. HIDE DEF f
  <2>4. f \in Injection(1..Len(Path[b]), Ancestors(b))
    BY <2>1, <2>2 DEF Injection, IsInjective
  <2>5. f \in Surjection(1..Len(Path[b]), Ancestors(b))
    BY <2>1, <2>3 DEF Surjection
  <2>. QED  BY <2>4, <2>5 DEF Bijection
<1>8. ExistsBijection(1..Len(Path[b]), Ancestors(b))
  BY <1>7 DEF ExistsBijection
<1>9. Cardinality(Ancestors(b)) = Len(Path[b]) /\ IsFiniteSet(Ancestors(b))
  BY <1>1, <1>8, FS_CountingElements, FS_NatBijection
<1>. QED  BY <1>2, <1>4, <1>5, <1>6, <1>9
==============================================================================
