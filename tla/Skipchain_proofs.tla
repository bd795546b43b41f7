-------------------------- MODULE Skipchain_proofs --------------------------
(***************************************************************************)
(* Proofs about module Skipchain, for any number of servers, of calls, of  *)
(* blocks and of heights, with the mishaps of any scenario: a forward-link *)
(* fits the back-links of the block it leads to, and links of a block are  *)
(* only ever added to.                                                     *)
(***************************************************************************)
EXTENDS Skipchain, WellFoundedInduction, TLAPS

(* A set of numbers that is not empty has a least element. *)
LEMMA MinExists ==
    ASSUME NEW S \in SUBSET Nat, S # {}
    PROVE  \E m \in S : \A x \in S : m <= x
<1>1. PICK m \in S : \A x \in S : ~(<<x, m>> \in OpToRel(<, Nat))
  BY NatLessThanWellFounded, WFMin, Zenon
<1>2. \A x \in S : ~(x < m)
  BY <1>1, Zenon DEF OpToRel
<1> QED
  BY <1>2

(* A walk from node to node of D, as long as there is a next one, in which *)
(* every step goes up: the recursion that computes its end has a solution. *)
LEMMA WalkExists ==
    ASSUME NEW M \in Nat, NEW D, NEW len \in [D -> 0..M], NEW G \in SUBSET D,
           NEW next \in [G -> D], \A c \in G : len[next[c]] > len[c]
    PROVE  \E f : f = [c \in D |-> IF c \in G THEN f[next[c]] ELSE c]
<1> DEFINE Top(n) == {c \in D : len[c] + n > M}
           Solves(f, n) == /\ DOMAIN f = Top(n)
                           /\ f = [c \in Top(n) |-> IF c \in G THEN f[next[c]] ELSE c]
           Open == {n \in Nat : ~\E f : Solves(f, n)}
<1>1. \A n \in Nat : \A c \in G \cap Top(n) : next[c] \in Top(n)
  <2> SUFFICES ASSUME NEW n \in Nat, NEW c \in G, len[c] + n > M
               PROVE  next[c] \in D /\ len[next[c]] + n > M
    BY Zenon
  <2>1. next[c] \in D /\ c \in D
    BY Zenon
  <2>2. len[c] \in 0..M /\ len[next[c]] \in 0..M /\ len[next[c]] > len[c]
    BY <2>1, Zenon
  <2> QED
    BY <2>1, <2>2
<1>2. \A n \in Nat : \A c \in G \cap Top(n + 1) : next[c] \in Top(n)
  <2> SUFFICES ASSUME NEW n \in Nat, NEW c \in G, len[c] + (n + 1) > M
               PROVE  next[c] \in D /\ len[next[c]] + n > M
    BY Zenon
  <2>1. next[c] \in D /\ c \in D
    OBVIOUS
  <2>2. len[c] \in 0..M /\ len[next[c]] \in 0..M /\ len[next[c]] > len[c]
    BY <2>1, Zenon
  <2> QED
    BY <2>1, <2>2
<1>3. Top(0) = {} /\ Top(M + 1) = D /\ M + 1 \in Nat
  <2>1. \A c \in D : len[c] \in 0..M
    OBVIOUS
  <2> QED
    BY <2>1
<1>4. \A n \in Nat : Top(n) \subseteq Top(n + 1)
  <2>1. \A c \in D : len[c] \in 0..M
    OBVIOUS
  <2> QED
    BY <2>1
<1> HIDE DEF Top
<1>5. 0 \notin Open
  <2> DEFINE e == [c \in {} |-> c]
  <2>1. e = [c \in {} |-> IF c \in G THEN e[next[c]] ELSE c] /\ DOMAIN e = {}
    OBVIOUS
  <2>2. Solves(e, 0)
    BY <1>3, <2>1, Zenon
  <2> QED
    BY <2>2, Zenon
<1>6. ASSUME NEW n \in Nat, n \notin Open PROVE n + 1 \notin Open
  <2>1. PICK f : Solves(f, n)
    BY <1>6, Zenon
  <2> DEFINE g == [c \in Top(n + 1) |-> IF c \in G THEN f[next[c]] ELSE c]
  <2>2. \A c \in Top(n) : f[c] = g[c]
    BY <1>4, <2>1, Zenon
  <2>3. \A c \in Top(n + 1) : (IF c \in G THEN f[next[c]] ELSE c)
                                = (IF c \in G THEN g[next[c]] ELSE c)
    <3> HIDE DEF g
    <3> QED
      BY <1>2, <2>2, Zenon
  <2>4. g = [c \in Top(n + 1) |-> IF c \in G THEN g[next[c]] ELSE c]
    <3> DEFINE S == Top(n + 1)
    <3>1. \A c \in S : (IF c \in G THEN f[next[c]] ELSE c)
                         = (IF c \in G THEN g[next[c]] ELSE c)
      BY <2>3, Zenon
    <3>2. g = [c \in S |-> IF c \in G THEN f[next[c]] ELSE c]
      BY Zenon
    <3> HIDE DEF g, S
    <3> QED
      BY <3>1, <3>2, Zenon DEF S
  <2>5. DOMAIN g = Top(n + 1)
    BY Zenon
  <2> HIDE DEF g
  <2>6. Solves(g, n + 1)
    BY <2>4, <2>5, Zenon
  <2> QED
    BY <2>6, Zenon
<1>7. Open = {}
  <2> SUFFICES ASSUME Open # {} PROVE FALSE
    BY Zenon
  <2>1. Open \in SUBSET Nat
    BY Zenon
  <2>2. \A n \in Nat : n \notin Open => n + 1 \notin Open
    BY <1>6, Zenon
  <2> HIDE DEF Open
  <2>3. PICK m \in Open : \A x \in Open : m <= x
    BY <2>1, MinExists, Zenon
  <2>4. m \in Nat /\ m # 0
    BY <1>5, <2>1, Zenon
  <2>5. m - 1 \in Nat /\ ~(m <= m - 1) /\ (m - 1) + 1 = m
    BY <2>4
  <2>6. m - 1 \notin Open
    BY <2>3, <2>5, Zenon
  <2> QED
    BY <2>2, <2>3, <2>5, <2>6, Zenon
<1>8. \E f : Solves(f, M + 1)
  BY <1>3, <1>7, Zenon
<1> QED
  BY <1>3, <1>8, Zenon

(* The end of such a walk has no next node. *)
LEMMA WalkEnds ==
    ASSUME NEW M \in Nat, NEW D, NEW len \in [D -> 0..M], NEW G \in SUBSET D,
           NEW next \in [G -> D], \A c \in G : len[next[c]] > len[c],
           NEW f, f = [c \in D |-> IF c \in G THEN f[next[c]] ELSE c]
    PROVE  \A c \in D : f[c] \in D \ G
<1>1. \A c \in D : f[c] = IF c \in G THEN f[next[c]] ELSE c
  BY Zenon
<1> DEFINE Bad == {c \in D : f[c] \notin D \ G}
           Left == {M - len[c] : c \in Bad}
<1> SUFFICES ASSUME Bad # {} PROVE FALSE
  BY Zenon
<1>2. Left \in SUBSET Nat /\ Left # {}
  <2>1. \A c \in Bad : len[c] \in 0..M
    BY Zenon
  <2>2. \A c \in Bad : M - len[c] \in Nat
    BY <2>1
  <2> HIDE DEF Bad
  <2>3. PICK c : c \in Bad
    BY Zenon
  <2>4. M - len[c] \in Left
    BY <2>3, Zenon
  <2>5. \A x \in Left : x \in Nat
    BY <2>2, Zenon
  <2> HIDE DEF Left
  <2> QED
    BY <2>4, <2>5, Zenon
<1>3. PICK m \in Left : \A x \in Left : m <= x
  <2> HIDE DEF Left
  <2> QED
    BY <1>2, MinExists, Zenon
<1>4. PICK c \in Bad : m = M - len[c]
  BY <1>3, Zenon
<1>5. c \in G
  BY <1>1, <1>4
<1>6. next[c] \in D /\ len[c] \in 0..M /\ len[next[c]] \in 0..M /\ len[next[c]] > len[c]
  <2>1. next[c] \in D /\ c \in D
    BY <1>5
  <2> QED
    BY <1>5, <2>1
<1>7. next[c] \in Bad
  BY <1>1, <1>4, <1>5, <1>6, Zenon
<1>8. M - len[next[c]] \in Left
  BY <1>7, Zenon
<1>9. ~(m <= M - len[next[c]])
  BY <1>4, <1>6
<1> QED
  BY <1>3, <1>8, <1>9, Zenon

(* What Max gives for a bounded set of numbers. *)
LEMMA MaxFacts ==
    ASSUME NEW n \in Nat, NEW S \in SUBSET (0..n), S # {}
    PROVE  Max(S) \in S /\ \A x \in S : Max(S) >= x
<1>1. \E m \in S : \A x \in S : m >= x
  <2> DEFINE T == {y \in 0..n : n - y \in S}
  <2>1. T \in SUBSET Nat
    OBVIOUS
  <2>2. T # {}
    <3>1. PICK x \in S : TRUE
      BY Zenon
    <3>2. n - x \in T
      OBVIOUS
    <3> QED
      BY <3>2, Zenon
  <2> HIDE DEF T
  <2>3. PICK m \in T : \A x \in T : m <= x
    BY <2>1, <2>2, MinExists
  <2>4. n - m \in S /\ m \in 0..n
    BY DEF T
  <2>5. ASSUME NEW x \in S PROVE n - m >= x
    <3>1. x \in 0..n /\ n - x \in T
      BY DEF T
    <3>2. m <= n - x
      BY <2>3, <3>1
    <3> QED
      BY <2>4, <3>1, <3>2
  <2> QED
    BY <2>4, <2>5
<1> QED
  BY <1>1, Zenon DEF Max

HeightAt(i) == Height(i, BaseHeight, MaximumHeight)

(* A block has a height of at least one, at most the maximum. *)
LEMMA HeightBounds ==
    ASSUME NEW i \in Nat
    PROVE  HeightAt(i) \in 1..MaximumHeight
<1>1. MaximumHeight \in Nat /\ MaximumHeight >= 1
  BY HeightAssumption
<1>2. CASE i = 0
  BY <1>1, <1>2 DEF HeightAt, Height
<1>3. CASE i # 0
  <2> DEFINE S == {1} \cup {h \in 2..MaximumHeight : Divides(BaseHeight, h - 1, i)}
  <2>1. S \in SUBSET (0..MaximumHeight) /\ S # {} /\ S \in SUBSET (1..MaximumHeight)
    BY <1>1
  <2>2. HeightAt(i) = Max(S)
    BY <1>3 DEF HeightAt, Height
  <2> HIDE DEF S
  <2>3. Max(S) \in S
    BY <1>1, <2>1, MaxFacts, Zenon
  <2> QED
    BY <2>1, <2>2, <2>3, Zenon
<1> QED
  BY <1>2, <1>3

(* Back-links lead to earlier blocks, those of higher levels further back, *)
(* and that of level 0 to the block before.                                *)
LEMMA BackLinkFacts ==
    ASSUME NEW i \in Nat \ {0}
    PROVE  LET back(h) == BackLink(i, h, BaseHeight, MaximumHeight)
           IN  /\ \A h \in 0..(HeightAt(i) - 1) : back(h) \in 0..(i - 1)
               /\ \A g, h \in 0..(HeightAt(i) - 1) : g <= h => back(h) <= back(g)
               /\ back(0) = i - 1
<1> DEFINE S(h) == {j \in 0..(i - 1) : HeightAt(j) > h}
           back(h) == BackLink(i, h, BaseHeight, MaximumHeight)
<1>1. i - 1 \in Nat /\ MaximumHeight \in Nat
  BY HeightAssumption
<1>2. HeightAt(i) \in 1..MaximumHeight
  BY HeightBounds
<1>3. \A h : back(h) = Max(S(h))
  BY DEF BackLink, HeightAt
<1>4. HeightAt(0) = MaximumHeight
  BY DEF HeightAt, Height
<1>5. ASSUME NEW h \in 0..(HeightAt(i) - 1)
      PROVE  /\ S(h) \in SUBSET (0..(i - 1)) /\ 0 \in S(h)
             /\ back(h) \in S(h) /\ \A x \in S(h) : back(h) >= x
  <2>1. S(h) \in SUBSET (0..(i - 1)) /\ 0 \in S(h)
    BY <1>1, <1>2, <1>4
  <2> HIDE DEF S
  <2> QED
    BY <1>1, <1>3, <2>1, MaxFacts, Zenon
<1>6. \A h \in 0..(HeightAt(i) - 1) : back(h) \in 0..(i - 1)
  BY <1>5
<1>7. ASSUME NEW g \in 0..(HeightAt(i) - 1), NEW h \in 0..(HeightAt(i) - 1), g <= h
      PROVE  back(h) <= back(g)
  <2>1. back(h) \in S(h)
    BY <1>5
  <2>2. \A j \in 0..(i - 1) : HeightAt(j) \in Int
    BY HeightBounds
  <2>3. back(h) \in S(g)
    BY <1>2, <1>7, <2>1, <2>2
  <2>4. back(g) >= back(h) /\ back(g) \in 0..(i - 1) /\ back(h) \in 0..(i - 1)
    BY <1>5, <2>3
  <2> HIDE DEF back
  <2> QED
    BY <2>4
<1>8. back(0) = i - 1
  <2>1. 0 \in 0..(HeightAt(i) - 1)
    BY <1>2, HeightAssumption
  <2>2. HeightAt(i - 1) \in 1..MaximumHeight
    BY <1>1, HeightBounds
  <2>3. i - 1 \in S(0)
    BY <1>1, <2>2
  <2>4. back(0) >= i - 1 /\ back(0) \in 0..(i - 1)
    BY <1>5, <2>1, <2>3
  <2> HIDE DEF back
  <2> QED
    BY <1>1, <2>4
<1> QED
  BY <1>6, <1>7, <1>8

(* Blocks are short sequences of data, and so are their prefixes. *)
LEMMA BlockFacts ==
    /\ \A b \in Block : b \in Seq(Data) /\ Len(b) \in 0..MaxBlock
    /\ \A b \in Seq(Data) : Len(b) <= MaxBlock => b \in Block
    /\ \A b \in Block : \A n \in 0..Len(b) : SubSeq(b, 1, n) \in Block
    /\ Genesis \in Block
<1>1. \A b \in Block : b \in Seq(Data) /\ Len(b) \in 0..MaxBlock
  BY HeightAssumption DEF Block
<1>2. ASSUME NEW b \in Seq(Data), Len(b) <= MaxBlock PROVE b \in Block
  <2>1. Len(b) \in 0..MaxBlock /\ b \in [1..Len(b) -> Data]
    BY <1>2, HeightAssumption
  <2> QED
    BY <2>1 DEF Block
<1>3. ASSUME NEW b \in Block, NEW n \in 0..Len(b)
      PROVE  SubSeq(b, 1, n) \in Block
  <2>1. b \in Seq(Data) /\ Len(b) \in 0..MaxBlock
    BY <1>1
  <2>2. SubSeq(b, 1, n) \in Seq(Data) /\ Len(SubSeq(b, 1, n)) = n
    BY <2>1
  <2>3. Len(SubSeq(b, 1, n)) <= MaxBlock
    BY <2>1, <2>2, HeightAssumption
  <2> QED
    BY <1>2, <2>2, <2>3, Zenon
<1>4. Genesis \in Block
  <2>1. <<>> \in Seq(Data) /\ Len(<<>>) = 0
    OBVIOUS
  <2>2. Len(<<>>) <= MaxBlock
    BY <2>1, HeightAssumption
  <2> QED
    BY <1>2, <2>1, <2>2, Zenon DEF Genesis
<1> QED
  BY <1>1, <1>2, <1>3, <1>4

(* The height of a block. *)
LEMMA HeightOfFacts ==
    ASSUME NEW b \in Block
    PROVE  HeightOf(b) \in Nat /\ HeightOf(b) >= 1
<1>1. Len(b) \in Nat
  BY BlockFacts
<1>2. HeightOf(b) = HeightAt(Len(b))
  BY DEF HeightOf, HeightAt
<1> QED
  BY <1>1, <1>2, HeightBounds, HeightAssumption

(* The back-links of a block that is not the genesis block are prefixes of *)
(* it, of at least the length of the highest one; the first is the block   *)
(* without its last datum.                                                 *)
LEMMA BackLinkIDFacts ==
    ASSUME NEW b \in Block, b # Genesis
    PROVE  /\ \A h \in 0..(HeightOf(b) - 1) :
                LET l == Len(BackLinkID(b, h))
                IN  /\ BackLinkID(b, h) = SubSeq(b, 1, l)
                    /\ l \in Len(BackLinkID(b, HeightOf(b) - 1))..(Len(b) - 1)
                    /\ BackLinkID(b, h) \in Block
           /\ BackLinkID(b, 0) = Previous(b)
           /\ Len(BackLinkID(b, HeightOf(b) - 1)) \in Nat
<1> DEFINE i == Len(b)
           back(h) == BackLink(i, h, BaseHeight, MaximumHeight)
<1>1. b \in Seq(Data) /\ i \in Nat \ {0}
  BY BlockFacts DEF Genesis
<1>2. HeightOf(b) = HeightAt(i)
  BY DEF HeightOf, HeightAt
<1>3. /\ \A h \in 0..(HeightAt(i) - 1) : back(h) \in 0..(i - 1)
      /\ \A g, h \in 0..(HeightAt(i) - 1) : g <= h => back(h) <= back(g)
      /\ back(0) = i - 1
  BY <1>1, BackLinkFacts
<1>4. HeightAt(i) \in Nat /\ HeightAt(i) >= 1
  BY <1>2, HeightOfFacts
<1>5. \A h : BackLinkID(b, h) = SubSeq(b, 1, back(h))
  BY DEF BackLinkID
<1> HIDE DEF back
<1>6. \A h \in 0..(HeightAt(i) - 1) :
        Len(BackLinkID(b, h)) = back(h) /\ BackLinkID(b, h) \in Block
  <2> TAKE h \in 0..(HeightAt(i) - 1)
  <2>1. back(h) \in 0..(i - 1)
    BY <1>3
  <2>2. Len(SubSeq(b, 1, back(h))) = back(h)
    BY <1>1, <2>1
  <2>3. SubSeq(b, 1, back(h)) \in Block
    BY <1>1, <2>1, BlockFacts
  <2> QED
    BY <1>5, <2>2, <2>3, Zenon
<1>7. ASSUME NEW h \in 0..(HeightAt(i) - 1)
      PROVE  /\ BackLinkID(b, h) = SubSeq(b, 1, Len(BackLinkID(b, h)))
             /\ Len(BackLinkID(b, h))
                  \in Len(BackLinkID(b, HeightAt(i) - 1))..(i - 1)
             /\ BackLinkID(b, h) \in Block
  <2>1. /\ HeightAt(i) - 1 \in 0..(HeightAt(i) - 1)
        /\ h <= HeightAt(i) - 1
    BY <1>4
  <2>2. /\ back(HeightAt(i) - 1) <= back(h)
        /\ back(HeightAt(i) - 1) \in 0..(i - 1) /\ back(h) \in 0..(i - 1)
    BY <1>3, <2>1
  <2> QED
    BY <1>5, <1>6, <2>1, <2>2
<1>8. BackLinkID(b, 0) = Previous(b)
  BY <1>3, <1>5 DEF Previous
<1>9. Len(BackLinkID(b, HeightAt(i) - 1)) \in Nat
  BY <1>3, <1>4, <1>6
<1> QED
  BY <1>2, <1>7, <1>8, <1>9

(* Links that fit stay so when more that fit are added. *)
LEMMA LinkListFacts ==
    ASSUME NEW b
    PROVE  /\ <<>> \in LinkList(b)
           /\ \A links \in LinkList(b), t \in Block :
                Fits(b, t) => Append(links, t) \in LinkList(b)
           /\ \A l1, l2 \in LinkList(b) : \A n \in Nat \ {0} :
                l1 \o SubSeq(l2, n, Len(l2)) \in LinkList(b)
<1>1. <<>> \in LinkList(b)
  BY DEF LinkList
<1>2. ASSUME NEW links \in LinkList(b), NEW t \in Block, Fits(b, t)
      PROVE  Append(links, t) \in LinkList(b)
  <2>1. links \in Seq(Block) /\ \A i \in 1..Len(links) : Fits(b, links[i])
    BY DEF LinkList
  <2> DEFINE new == Append(links, t)
  <2>2. /\ new \in Seq(Block) /\ DOMAIN new = 1..(Len(links) + 1)
        /\ \A i \in 1..Len(links) : new[i] = links[i]
        /\ new[Len(links) + 1] = t
    BY <2>1
  <2> HIDE DEF new
  <2>3. \A i \in DOMAIN new : Fits(b, new[i])
    BY <1>2, <2>1, <2>2
  <2>4. new \in LinkList(b)
    BY <2>2, <2>3 DEF LinkList
  <2> QED
    BY <2>4 DEF new
<1>3. ASSUME NEW l1 \in LinkList(b), NEW l2 \in LinkList(b), NEW n \in Nat \ {0}
      PROVE  l1 \o SubSeq(l2, n, Len(l2)) \in LinkList(b)
  <2>1. /\ l1 \in Seq(Block) /\ \A i \in 1..Len(l1) : Fits(b, l1[i])
        /\ l2 \in Seq(Block) /\ \A i \in 1..Len(l2) : Fits(b, l2[i])
    BY DEF LinkList
  <2> DEFINE rest == SubSeq(l2, n, Len(l2))
             new == l1 \o rest
  <2>2. /\ rest \in Seq(Block)
        /\ \A i \in 1..Len(rest) : \E j \in 1..Len(l2) : rest[i] = l2[j]
    BY <2>1
  <2>3. \A i \in 1..Len(rest) : Fits(b, rest[i])
    BY <2>1, <2>2
  <2> HIDE DEF rest
  <2>4. /\ new \in Seq(Block) /\ DOMAIN new = 1..(Len(l1) + Len(rest))
        /\ \A i \in 1..(Len(l1) + Len(rest)) :
             new[i] = IF i <= Len(l1) THEN l1[i] ELSE rest[i - Len(l1)]
    BY <2>1, <2>2
  <2> HIDE DEF new
  <2>5. ASSUME NEW i \in DOMAIN new PROVE Fits(b, new[i])
    <3>1. CASE i <= Len(l1)
      BY <2>1, <2>4, <3>1
    <3>2. CASE ~(i <= Len(l1))
      <4>1. i - Len(l1) \in 1..Len(rest)
        BY <2>1, <2>2, <2>4, <3>2
      <4> QED
        BY <2>1, <2>3, <2>4, <3>2, <4>1
    <3> QED
      BY <3>1, <3>2
  <2>6. new \in LinkList(b)
    BY <2>4, <2>5 DEF LinkList
  <2> QED
    BY <2>6 DEF new, rest
<1> QED
  BY <1>1, <1>2, <1>3

-----------------------------------------------------------------------------
(* A map keeps its blocks and their links and may get more. *)
Grows(m1, m2) ==
    \A b \in DOMAIN m1 : b \in DOMAIN m2 /\ Precedes(m1[b], m2[b])

(* A map that is left alone has grown. *)
LEMMA GrowsReflexive ==
    ASSUME NEW map, IsSkipBlockMap(map)
    PROVE  Grows(map, map)
BY DEF Grows, Precedes, IsSkipBlockMap

(* SkipBlockMap.Store makes a map of a map and keeps what is there. *)
LEMMA StoreFacts ==
    ASSUME NEW map, IsSkipBlockMap(map), NEW sb \in Block, NEW links \in LinkList(sb)
    PROVE  IsSkipBlockMap(Store(map, sb, links)) /\ Grows(map, Store(map, sb, links))
<1> DEFINE new == Store(map, sb, links)
<1>1. DOMAIN new = DOMAIN map \cup {sb} /\ DOMAIN map \subseteq Block
  BY DEF Store, IsSkipBlockMap
<1>2. \A b \in DOMAIN map : b # sb => new[b] = map[b]
  BY DEF Store
<1>3. sb \notin DOMAIN map => new[sb] = links
  BY DEF Store
<1>4. sb \in DOMAIN map =>
        new[sb] = map[sb] \o SubSeq(links, Len(map[sb]) + 1, Len(links))
  BY DEF Store
<1>5. new = [b \in DOMAIN new |-> new[b]]
  BY Zenon DEF Store
<1> HIDE DEF new
<1>6. \A b \in DOMAIN map : map[b] \in LinkList(b) /\ map[b] \in Seq(Block)
  BY DEF IsSkipBlockMap
<1>7. sb \in DOMAIN map => /\ new[sb] \in LinkList(sb)
                           /\ Precedes(map[sb], new[sb])
  <2> SUFFICES ASSUME sb \in DOMAIN map
               PROVE  new[sb] \in LinkList(sb) /\ Precedes(map[sb], new[sb])
    OBVIOUS
  <2>1. map[sb] \in Seq(Block) /\ Len(map[sb]) + 1 \in Nat \ {0}
    BY <1>6
  <2>2. new[sb] \in LinkList(sb)
    BY <1>4, <1>6, <2>1, LinkListFacts, Zenon
  <2>3. links \in Seq(Block)
    BY DEF LinkList
  <2>4. SubSeq(links, Len(map[sb]) + 1, Len(links)) \in Seq(Block)
    BY <2>1, <2>3
  <2>5. Precedes(map[sb], new[sb])
    BY <1>4, <2>1, <2>4 DEF Precedes
  <2> QED
    BY <2>2, <2>5
<1>8. \A b \in DOMAIN new : new[b] \in LinkList(b)
  BY <1>1, <1>2, <1>3, <1>6, <1>7
<1>9. \A b \in DOMAIN new : new[b] \in Seq(Block)
  BY <1>8 DEF LinkList
<1>10. IsSkipBlockMap(new)
  BY <1>1, <1>5, <1>8, <1>9 DEF IsSkipBlockMap
<1>11. Grows(map, new)
  BY <1>1, <1>2, <1>6, <1>7 DEF Grows, Precedes
<1> QED
  BY <1>10, <1>11 DEF new

(* A signature is added at the end of the links of its target. *)
LEMMA AddLinkFacts ==
    ASSUME NEW map, IsSkipBlockMap(map), NEW b \in DOMAIN map, NEW t \in Block,
           Fits(b, t)
    PROVE  LET new == [map EXCEPT ![b] = Append(@, t)]
           IN  IsSkipBlockMap(new) /\ Grows(map, new) /\ new[b] # <<>>
<1> DEFINE new == [map EXCEPT ![b] = Append(@, t)]
<1>1. /\ map[b] \in Seq(Block) /\ map[b] \in LinkList(b)
      /\ map \in [DOMAIN map -> Seq(Block)]
  BY DEF IsSkipBlockMap
<1>2. /\ Append(map[b], t) \in Seq(Block) /\ Append(map[b], t) \in LinkList(b)
      /\ Append(map[b], t) # <<>> /\ Precedes(map[b], Append(map[b], t))
  <2>1. Append(map[b], t) \in LinkList(b)
    BY <1>1, LinkListFacts
  <2>2. Append(map[b], t) \in Seq(Block) /\ Append(map[b], t) # <<>>
    BY <1>1
  <2>3. Precedes(map[b], Append(map[b], t))
    BY <1>1 DEF Precedes
  <2> QED
    BY <2>1, <2>2, <2>3
<1>3. /\ DOMAIN new = DOMAIN map /\ new[b] = Append(map[b], t)
      /\ \A d \in DOMAIN map : d # b => new[d] = map[d]
      /\ new \in [DOMAIN map -> Seq(Block)]
  BY <1>1, <1>2
<1> HIDE DEF new
<1>4. IsSkipBlockMap(new)
  BY <1>2, <1>3, Zenon DEF IsSkipBlockMap
<1>5. Grows(map, new)
  BY <1>2, <1>3, GrowsReflexive, Zenon DEF Grows
<1> QED
  BY <1>2, <1>3, <1>4, <1>5 DEF new

(* What holds of a call goes on to hold while its leader's map grows. *)
LEMMA CallKept ==
    ASSUME NEW c, NEW m1, NEW m2, CallOK(c, m1),
           c.pc \in {"bft", "signed", "changed"} =>
             IsSkipBlockMap(m1[c.leader]) /\ Grows(m1[c.leader], m2[c.leader])
    PROVE  CallOK(c, m2)
<1>1. CASE c = NoCall \/ (c \in PropagateCall /\ PropagateOK(c))
  BY <1>1, Zenon DEF CallOK
<1>2. CASE c \in BFTCall /\ BFTOK(c, m1)
  BY <1>2, Zenon DEF CallOK, BFTCall, BFTOK, KnowsBackLinks, Grows
<1>3. CASE c \in SignedCall /\ SignedOK(c, m1)
  <2>1. c.pc = "signed" /\ c.newest \in Block /\ KnowsBackLinks(c, m1)
    BY <1>3 DEF SignedCall, SignedOK
  <2>2. IsSkipBlockMap(m1[c.leader]) /\ Grows(m1[c.leader], m2[c.leader])
    BY <2>1
  <2>3. KnowsBackLinks(c, m2)
    BY <2>1, <2>2 DEF KnowsBackLinks, Grows
  <2>4. Previous(c.newest) \in DOMAIN m1[c.leader]
    <3>1. BackLinkID(c.newest, 0) = Previous(c.newest)
      BY <2>1, BackLinkIDFacts DEF KnowsBackLinks
    <3>2. 0 \in 0..(HeightOf(c.newest) - 1)
      BY <2>1, HeightOfFacts
    <3> QED
      BY <2>1, <3>1, <3>2 DEF KnowsBackLinks
  <2>5. /\ m1[c.leader][Previous(c.newest)] \in Seq(Block)
        /\ m1[c.leader][Previous(c.newest)] # <<>>
        /\ Precedes(m1[c.leader][Previous(c.newest)], m2[c.leader][Previous(c.newest)])
    BY <1>3, <2>2, <2>4, Zenon DEF SignedOK, IsSkipBlockMap, Grows
  <2>6. m2[c.leader][Previous(c.newest)] # <<>>
    BY <2>5 DEF Precedes
  <2> QED
    BY <1>3, <2>3, <2>6 DEF CallOK, SignedOK
<1>4. CASE c \in ChangedCall /\ ChangedOK(c, m1)
  BY <1>4 DEF CallOK, ChangedCall, ChangedOK, Grows
<1> QED
  BY <1>1, <1>2, <1>3, <1>4 DEF CallOK

-----------------------------------------------------------------------------
(* Blocks that are settled, while the maps grow. *)

(* The stages of a call and what it consists of at each. *)
LEMMA CallStages ==
    ASSUME NEW c, NEW maps, CallOK(c, maps)
    PROVE  /\ c.pc = "bft" => c \in BFTCall /\ BFTOK(c, maps)
           /\ c.pc = "signed" => c \in SignedCall /\ SignedOK(c, maps)
           /\ c.pc = "changed" => c \in ChangedCall /\ ChangedOK(c, maps)
           /\ c.pc = "propagate" => c \in PropagateCall /\ PropagateOK(c)
           /\ c = NoCall \/ c.pc \in {"bft", "signed", "changed", "propagate"}
           /\ c.pc \in {"bft", "signed", "changed"} => c.leader \in Server
BY DEF CallOK, NoCall, BFTCall, SignedCall, ChangedCall, PropagateCall

(* The same of the calls of a state. *)
LEMMA CallTypes ==
    ASSUME IInv, NEW k \in Client \cup Worker
    PROVE  LET c == call[k]
           IN  /\ c.pc = "bft" => c \in BFTCall /\ BFTOK(c, sbm)
               /\ c.pc = "signed" => c \in SignedCall /\ SignedOK(c, sbm)
               /\ c.pc = "changed" => c \in ChangedCall /\ ChangedOK(c, sbm)
               /\ c.pc = "propagate" => c \in PropagateCall /\ PropagateOK(c)
               /\ c = NoCall \/ c.pc \in {"bft", "signed", "changed", "propagate"}
               /\ c.pc \in {"bft", "signed", "changed"} => c.leader \in Server
BY CallStages DEF IInv

(* Numbers in order. *)
LEMMA NatOrder ==
    /\ \A m, n \in Nat : m < n \/ m >= n
    /\ \A l, m, n \in Nat : l >= n /\ l <= m => m >= n
OBVIOUS

(* The elements of a sequence of blocks with their links. *)
LEMMA NextSent ==
    \A s \in Seq(Block \X Seq(Block)) : \A i \in 0..(Len(s) - 1) :
      /\ i + 1 \in DOMAIN s /\ i + 1 \in 0..Len(s)
      /\ s[i + 1][1] \in Block /\ s[i + 1][2] \in Seq(Block)
<1> SUFFICES ASSUME NEW s \in Seq(Block \X Seq(Block)), NEW i \in 0..(Len(s) - 1)
             PROVE  /\ i + 1 \in DOMAIN s /\ i + 1 \in 0..Len(s)
                    /\ s[i + 1][1] \in Block /\ s[i + 1][2] \in Seq(Block)
  OBVIOUS
<1>1. i + 1 \in DOMAIN s /\ i + 1 \in 0..Len(s)
  OBVIOUS
<1>2. s[i + 1] \in Block \X Seq(Block)
  BY <1>1
<1> QED
  BY <1>1, <1>2

(* What is in a concatenation is in one of the two sequences. *)
LEMMA ConcatElements ==
    ASSUME NEW S, NEW s \in Seq(S), NEW t \in Seq(S), NEW i \in DOMAIN (s \o t)
    PROVE  \/ \E j \in 1..Len(s) : (s \o t)[i] = s[j]
           \/ \E j \in 1..Len(t) : (s \o t)[i] = t[j]
<1>1. i \in 1..(Len(s) + Len(t)) /\ Len(s) \in Nat /\ Len(t) \in Nat
  OBVIOUS
<1>2. CASE i <= Len(s)
  BY <1>1, <1>2
<1>3. CASE i > Len(s)
  <2>1. i - Len(s) \in 1..Len(t)
    BY <1>1, <1>3
  <2>2. (s \o t)[i] = t[i - Len(s)]
    BY <1>1, <1>3
  <2> QED
    BY <2>1, <2>2
<1> QED
  BY <1>1, <1>2, <1>3

(* The same of lists of blocks. *)
LEMMA ConcatBlocks ==
    \A s, t \in Seq(Block) :
      /\ s \o t \in Seq(Block) /\ Len(s \o t) = Len(s) + Len(t)
      /\ DOMAIN (s \o t) = 1..Len(s \o t)
      /\ \A i \in DOMAIN (s \o t) :
           \/ \E j \in 1..Len(s) : (s \o t)[i] = s[j]
           \/ \E j \in 1..Len(t) : (s \o t)[i] = t[j]
<1> SUFFICES ASSUME NEW s \in Seq(Block), NEW t \in Seq(Block)
             PROVE  /\ s \o t \in Seq(Block) /\ Len(s \o t) = Len(s) + Len(t)
                    /\ DOMAIN (s \o t) = 1..Len(s \o t)
                    /\ \A i \in DOMAIN (s \o t) :
                         \/ \E j \in 1..Len(s) : (s \o t)[i] = s[j]
                         \/ \E j \in 1..Len(t) : (s \o t)[i] = t[j]
  BY Zenon
<1>1. s \o t \in Seq(Block)
  OBVIOUS
<1>2. Len(s \o t) = Len(s) + Len(t)
  OBVIOUS
<1>3. DOMAIN (s \o t) = 1..Len(s \o t)
  BY <1>1
<1> QED
  BY <1>1, <1>2, <1>3, ConcatElements

(* A list of one block, and one of two. *)
LEMMA ShortLists ==
    \A x, y : /\ \A i \in DOMAIN <<x>> : <<x>>[i] = x
              /\ \A i \in 1..Len(<<x, y>>) : <<x, y>>[i] = x \/ <<x, y>>[i] = y
OBVIOUS

MapsOf(maps) == \A s \in Server : IsSkipBlockMap(maps[s])
AllGrow(m1, m2) == \A s \in Server : Grows(m1[s], m2[s])

(* A list of links that grows keeps its first link. *)
LEMMA FirstLinkKept ==
    ASSUME NEW m1, IsSkipBlockMap(m1), NEW m2, Grows(m1, m2), NEW b \in DOMAIN m1,
           m1[b] # <<>>
    PROVE  b \in DOMAIN m2 /\ m2[b] # <<>> /\ m2[b][1] = m1[b][1]
<1>1. m1[b] \in Seq(Block) /\ b \in DOMAIN m2 /\ Precedes(m1[b], m2[b])
  BY DEF IsSkipBlockMap, Grows
<1>2. Len(m1[b]) \in Nat /\ Len(m1[b]) >= 1
  BY <1>1
<1>3. Len(m2[b]) >= 1 /\ m1[b] = SubSeq(m2[b], 1, Len(m1[b]))
  BY <1>1, <1>2 DEF Precedes
<1>4. m1[b][1] = m2[b][1]
  BY <1>2, <1>3
<1>5. m2[b] # <<>>
  BY <1>3
<1> QED
  BY <1>1, <1>4, <1>5

(* A block that is settled stays so. *)
LEMMA SettledKept ==
    ASSUME NEW t \in Block, NEW m1, NEW m2, MapsOf(m1), AllGrow(m1, m2),
           Settled(t, m1)
    PROVE  Settled(t, m2)
<1> SUFFICES ASSUME NEW s \in Server
             PROVE  /\ \A i \in 0..Len(t) : SubSeq(t, 1, i) \in DOMAIN m2[s]
                    /\ \A i \in 0..(Len(t) - 1) :
                         /\ m2[s][SubSeq(t, 1, i)] # <<>>
                         /\ m2[s][SubSeq(t, 1, i)][1] = SubSeq(t, 1, i + 1)
  BY Zenon DEF Settled
<1>1. IsSkipBlockMap(m1[s]) /\ Grows(m1[s], m2[s]) /\ Len(t) \in Nat
  BY BlockFacts DEF MapsOf, AllGrow
<1>2. /\ \A i \in 0..Len(t) : SubSeq(t, 1, i) \in DOMAIN m1[s]
      /\ \A i \in 0..(Len(t) - 1) :
           /\ m1[s][SubSeq(t, 1, i)] # <<>>
           /\ m1[s][SubSeq(t, 1, i)][1] = SubSeq(t, 1, i + 1)
  BY Zenon DEF Settled
<1>3. ASSUME NEW i \in 0..(Len(t) - 1)
      PROVE  /\ m2[s][SubSeq(t, 1, i)] # <<>>
             /\ m2[s][SubSeq(t, 1, i)][1] = SubSeq(t, 1, i + 1)
  <2>1. i \in 0..Len(t)
    BY <1>1
  <2> DEFINE b == SubSeq(t, 1, i)
  <2>2. b \in DOMAIN m1[s] /\ m1[s][b] # <<>> /\ m1[s][b][1] = SubSeq(t, 1, i + 1)
    BY <1>2, <2>1, Zenon
  <2> HIDE DEF b
  <2>3. m2[s][b] # <<>> /\ m2[s][b][1] = m1[s][b][1]
    BY <1>1, <2>2, FirstLinkKept
  <2> QED
    BY <2>2, <2>3, Zenon DEF b
<1>4. ASSUME NEW i \in 0..Len(t) PROVE SubSeq(t, 1, i) \in DOMAIN m2[s]
  BY <1>1, <1>2, Zenon DEF Grows
<1> QED
  BY <1>3, <1>4, Zenon

(* What is known, and what is known of a list of links, stays known as     *)
(* long as the blocks in work stay in work or settle.                      *)
LEMMA KnownKept ==
    ASSUME NEW m1, NEW m2, MapsOf(m1), AllGrow(m1, m2), NEW w1, NEW w2,
           \A x \in w1 : x \in w2 \/ Settled(x, m2)
    PROVE  /\ \A t \in Block : Known(t, m1, w1) => Known(t, m2, w2)
           /\ \A b \in Block, links \in Seq(Block) :
                KnownLinks(b, links, m1, w1) => KnownLinks(b, links, m2, w2)
<1>1. ASSUME NEW t \in Block, Known(t, m1, w1) PROVE Known(t, m2, w2)
  BY <1>1, SettledKept, Zenon DEF Known
<1>2. ASSUME NEW b \in Block, NEW links \in Seq(Block), KnownLinks(b, links, m1, w1)
      PROVE  KnownLinks(b, links, m2, w2)
  <2>1. \A i \in DOMAIN links : links[i] \in Block
    OBVIOUS
  <2> QED
    BY <1>1, <1>2, <2>1, Zenon DEF KnownLinks
<1> QED
  BY <1>1, <1>2, Zenon

(* The prefixes of prefixes. *)
LEMMA Prefixes ==
    ASSUME NEW t \in Block, NEW n \in 0..Len(t), NEW i \in 0..n
    PROVE  /\ SubSeq(SubSeq(t, 1, n), 1, i) = SubSeq(t, 1, i)
           /\ Len(SubSeq(t, 1, n)) = n
           /\ SubSeq(t, 1, n) \in Block
<1>1. t \in Seq(Data) /\ Len(t) \in Nat /\ SubSeq(t, 1, n) \in Block
  BY BlockFacts
<1> QED
  BY <1>1

(* The block a link leads to continues the one it comes from.              *)
LEMMA FitsFacts ==
    ASSUME NEW t \in Block, t # Genesis, NEW b, Fits(b, t)
    PROVE  Len(b) \in 0..(Len(t) - 1) /\ b = SubSeq(t, 1, Len(b)) /\ b \in Block
<1>1. PICK h \in 0..(HeightOf(t) - 1) : BackLinkID(t, h) = b
  BY DEF Fits
<1> DEFINE low == Len(BackLinkID(t, HeightOf(t) - 1))
<1>2. /\ b = SubSeq(t, 1, Len(b)) /\ b \in Block
      /\ Len(b) \in low..(Len(t) - 1) /\ low \in Nat
  BY <1>1, BackLinkIDFacts
<1>3. Len(t) \in Nat
  BY BlockFacts
<1> HIDE DEF low
<1> QED
  BY <1>2, <1>3

(* The first link of a block before a settled one is the same everywhere.  *)
LEMMA SettledFirst ==
    ASSUME NEW t \in Block, NEW maps, Settled(t, maps), NEW s \in Server,
           NEW b, Len(b) \in 0..(Len(t) - 1), b = SubSeq(t, 1, Len(b))
    PROVE  /\ b \in DOMAIN maps[s] /\ maps[s][b] # <<>>
           /\ maps[s][b][1] = SubSeq(t, 1, Len(b) + 1)
<1>1. Len(t) \in Nat /\ Len(b) \in 0..Len(t)
  BY BlockFacts
<1> QED
  BY <1>1, Zenon DEF Settled

(* The blocks before a settled one are settled. *)
LEMMA SettledPrefix ==
    ASSUME NEW t \in Block, NEW maps, Settled(t, maps), NEW n \in 0..Len(t)
    PROVE  Settled(SubSeq(t, 1, n), maps)
<1> DEFINE p == SubSeq(t, 1, n)
<1>1. Len(t) \in Nat /\ n \in Nat
  BY BlockFacts
<1>2. Len(p) = n /\ \A i \in 0..n : SubSeq(p, 1, i) = SubSeq(t, 1, i)
  <2>1. 0 \in 0..n
    BY <1>1
  <2> QED
    BY <2>1, Prefixes, Zenon
<1> HIDE DEF p
<1> SUFFICES ASSUME NEW s \in Server
             PROVE  /\ \A i \in 0..Len(p) : SubSeq(p, 1, i) \in DOMAIN maps[s]
                    /\ \A i \in 0..(Len(p) - 1) :
                         /\ maps[s][SubSeq(p, 1, i)] # <<>>
                         /\ maps[s][SubSeq(p, 1, i)][1] = SubSeq(p, 1, i + 1)
  BY Zenon DEF Settled, p
<1>3. /\ \A i \in 0..Len(t) : SubSeq(t, 1, i) \in DOMAIN maps[s]
      /\ \A i \in 0..(Len(t) - 1) :
           /\ maps[s][SubSeq(t, 1, i)] # <<>>
           /\ maps[s][SubSeq(t, 1, i)][1] = SubSeq(t, 1, i + 1)
  BY Zenon DEF Settled
<1>4. ASSUME NEW i \in 0..Len(p) PROVE SubSeq(p, 1, i) \in DOMAIN maps[s]
  <2>1. i \in 0..n /\ i \in 0..Len(t)
    BY <1>1, <1>2
  <2> QED
    BY <1>2, <1>3, <2>1, Zenon
<1>5. ASSUME NEW i \in 0..(Len(p) - 1)
      PROVE  /\ maps[s][SubSeq(p, 1, i)] # <<>>
             /\ maps[s][SubSeq(p, 1, i)][1] = SubSeq(p, 1, i + 1)
  <2>1. i \in 0..n /\ i + 1 \in 0..n /\ i \in 0..(Len(t) - 1)
    BY <1>1, <1>2
  <2> QED
    BY <1>2, <1>3, <2>1, Zenon
<1> QED
  BY <1>4, <1>5, Zenon

(* The block before a block. *)
LEMMA PreviousFacts ==
    ASSUME NEW t \in Block, t # Genesis
    PROVE  /\ Previous(t) \in Block /\ Previous(t) = SubSeq(t, 1, Len(Previous(t)))
           /\ Len(t) \in Nat \ {0} /\ Len(Previous(t)) = Len(t) - 1
           /\ Fits(Previous(t), t)
<1>1. t \in Seq(Data) /\ Len(t) \in Nat \ {0}
  BY BlockFacts DEF Genesis
<1>2. Len(t) - 1 \in 0..Len(t) /\ 0 \in 0..(Len(t) - 1)
  BY <1>1
<1>3. Previous(t) \in Block /\ Len(Previous(t)) = Len(t) - 1
  BY <1>1, <1>2, Prefixes, Zenon DEF Previous
<1>4. 0 \in 0..(HeightOf(t) - 1)
  BY HeightOfFacts
<1>5. Fits(Previous(t), t)
  BY <1>4, BackLinkIDFacts, Zenon DEF Fits
<1> QED
  BY <1>1, <1>3, <1>5 DEF Previous

(* Settled blocks are on one chain. *)
LEMMA SettledOneChain ==
    ASSUME NEW maps, NEW s \in Server, NEW a \in Block, NEW c \in Block,
           Settled(a, maps), Settled(c, maps), Len(c) <= Len(a)
    PROVE  c = SubSeq(a, 1, Len(c))
<1>1. /\ Len(a) \in Nat /\ Len(c) \in Nat /\ a \in Seq(Data) /\ c \in Seq(Data)
      /\ SubSeq(c, 1, Len(c)) = c /\ SubSeq(a, 1, 0) = SubSeq(c, 1, 0)
  BY BlockFacts
<1> DEFINE Differ == {i \in 0..Len(c) : SubSeq(a, 1, i) # SubSeq(c, 1, i)}
<1>2. ASSUME Differ # {} PROVE FALSE
  <2>1. PICK i \in Differ : \A x \in Differ : i <= x
    <3>1. Differ \in SUBSET Nat
      BY <1>1
    <3> HIDE DEF Differ
    <3> QED
      BY <1>2, <3>1, MinExists, Zenon
  <2>2. i \in 0..Len(c) /\ SubSeq(a, 1, i) # SubSeq(c, 1, i)
    BY <2>1
  <2>3. i # 0
    BY <1>1, <2>2, Zenon
  <2> DEFINE j == i - 1
  <2>4. /\ j \in 0..Len(c) /\ j \in 0..(Len(c) - 1) /\ j \in 0..(Len(a) - 1)
        /\ j + 1 = i /\ ~(i <= j)
    BY <1>1, <2>2, <2>3
  <2> HIDE DEF j
  <2>5. SubSeq(a, 1, j) = SubSeq(c, 1, j)
    BY <2>1, <2>4, Zenon
  <2>6. /\ maps[s][SubSeq(a, 1, j)][1] = SubSeq(a, 1, j + 1)
        /\ maps[s][SubSeq(c, 1, j)][1] = SubSeq(c, 1, j + 1)
    BY <2>4, Zenon DEF Settled
  <2> QED
    BY <2>2, <2>4, <2>5, <2>6, Zenon
<1>3. Len(c) \in 0..Len(c)
  BY <1>1
<1> QED
  BY <1>1, <1>2, <1>3, Zenon

(* No call, no block added. *)
LEMMA IdleAddsNot == ~Adds(NoCall) /\ ~Working(NoCall)
BY DEF Adds, Working, NoCall

(* The end of the chain that a call extends, while the maps grow. *)
LEMMA ExtendsEndKept ==
    ASSUME NEW c, c.newest \in Block, c.leader \in Server, NEW m1, NEW m2,
           MapsOf(m1), AllGrow(m1, m2), ExtendsEnd(c, m1),
           c.pc = "bft" /\ c.newest # Genesis =>
             m2[c.leader][Previous(c.newest)] = <<>>
    PROVE  ExtendsEnd(c, m2)
<1> SUFFICES ASSUME c.newest # Genesis
             PROVE  /\ Settled(Previous(c.newest), m2)
                    /\ LET links == m2[c.leader][Previous(c.newest)]
                       IN IF c.pc = "bft" THEN links = <<>>
                          ELSE links # <<>> /\ links[1] = c.newest
  BY Zenon DEF ExtendsEnd
<1> DEFINE p == Previous(c.newest)
<1>1. /\ p \in Block /\ Settled(p, m1)
      /\ c.pc # "bft" => m1[c.leader][p] # <<>> /\ m1[c.leader][p][1] = c.newest
      /\ Len(p) \in 0..Len(p) /\ p = SubSeq(p, 1, Len(p))
  <2>1. p \in Block
    BY PreviousFacts
  <2>2. p \in Seq(Data) /\ Len(p) \in Nat
    BY <2>1, BlockFacts
  <2>3. Len(p) \in 0..Len(p) /\ p = SubSeq(p, 1, Len(p))
    BY <2>2
  <2> QED
    BY <2>1, <2>3, Zenon DEF ExtendsEnd
<1> HIDE DEF p
<1>2. Settled(p, m2)
  BY <1>1, SettledKept
<1>3. p \in DOMAIN m1[c.leader]
  BY <1>1, Zenon DEF Settled
<1>4. c.pc # "bft" => m2[c.leader][p] # <<>> /\ m2[c.leader][p][1] = c.newest
  BY <1>1, <1>3, FirstLinkKept DEF MapsOf, AllGrow
<1> QED
  BY <1>2, <1>4, Zenon DEF p

(* What a propagation has delivered stays delivered. *)
LEMMA DeliversKept ==
    ASSUME NEW c \in PropagateCall, NEW m1, NEW m2, MapsOf(m1), AllGrow(m1, m2),
           NEW w1, NEW w2, \A x \in w1 : x \in w2 \/ Settled(x, m2),
           MapsOf(m2), Delivers(c, m1, w1)
    PROVE  Delivers(c, m2, w2)
<1>0. \A b \in Block, links \in Seq(Block) :
        KnownLinks(b, links, m1, w1) => KnownLinks(b, links, m2, w2)
  BY KnownKept, Zenon
<1>1. c.sent \in Seq(Block \X Seq(Block))
  BY DEF PropagateCall
<1>2. \A i \in DOMAIN c.sent : c.sent[i][1] \in Block /\ c.sent[i][2] \in Seq(Block)
  BY <1>1
<1>3. \A i \in DOMAIN c.sent : KnownLinks(c.sent[i][1], c.sent[i][2], m2, w2)
  <2> TAKE i \in DOMAIN c.sent
  <2>1. KnownLinks(c.sent[i][1], c.sent[i][2], m1, w1)
    BY Zenon DEF Delivers
  <2> QED
    BY <1>0, <1>2, <2>1, Zenon
<1>4. ASSUME NEW q \in Server, NEW i \in 1..c.stored[q]
      PROVE  /\ c.sent[i][1] \in DOMAIN m2[q]
             /\ Len(m2[q][c.sent[i][1]]) >= Len(c.sent[i][2])
  <2> DEFINE b == c.sent[i][1]
  <2>1. c.stored[q] \in 0..Len(c.sent) /\ b \in DOMAIN m1[q]
        /\ Len(m1[q][b]) >= Len(c.sent[i][2])
    BY Zenon DEF Delivers
  <2>2. i \in DOMAIN c.sent
    BY <1>1, <2>1
  <2>3. Len(c.sent[i][2]) \in Nat
    BY <1>2, <2>2
  <2> HIDE DEF b
  <2>4. /\ b \in DOMAIN m2[q] /\ Precedes(m1[q][b], m2[q][b])
        /\ m1[q][b] \in Seq(Block) /\ m2[q][b] \in Seq(Block)
    BY <2>1, Zenon DEF AllGrow, Grows, MapsOf, IsSkipBlockMap
  <2>5. Len(m1[q][b]) \in Nat /\ Len(m2[q][b]) \in Nat /\ Len(m1[q][b]) <= Len(m2[q][b])
    BY <2>4 DEF Precedes
  <2>6. Len(m2[q][b]) >= Len(c.sent[i][2])
    BY <2>1, <2>3, <2>5, NatOrder, Zenon
  <2> QED
    BY <2>4, <2>6 DEF b
<1> QED
  BY <1>3, <1>4, Zenon DEF Delivers

(* Of two lists of known links, the part by which the second is longer is  *)
(* added to the first.                                                     *)
LEMMA KnownLinksJoined ==
    ASSUME NEW b, NEW l1 \in Seq(Block), NEW l2 \in Seq(Block),
           NEW maps, NEW work,
           KnownLinks(b, l1, maps, work), KnownLinks(b, l2, maps, work)
    PROVE  LET new == l1 \o SubSeq(l2, Len(l1) + 1, Len(l2))
           IN  KnownLinks(b, new, maps, work) /\ Len(new) >= Len(l2)
<1> DEFINE rest == SubSeq(l2, Len(l1) + 1, Len(l2))
           new == l1 \o rest
<1>1. /\ rest \in Seq(Block)
      /\ Len(rest) = IF Len(l1) <= Len(l2) THEN Len(l2) - Len(l1) ELSE 0
      /\ \A i \in 1..Len(rest) : i + Len(l1) \in 1..Len(l2) /\ rest[i] = l2[i + Len(l1)]
  OBVIOUS
<1> HIDE DEF rest
<1>2. /\ new \in Seq(Block) /\ DOMAIN new = 1..Len(new) /\ Len(new) = Len(l1) + Len(rest)
      /\ Len(new) >= Len(l2)
  <2>1. new \in Seq(Block) /\ DOMAIN new = 1..Len(new) /\ Len(new) = Len(l1) + Len(rest)
    BY <1>1, ConcatBlocks, Zenon
  <2> HIDE DEF new
  <2> QED
    BY <1>1, <2>1
<1>3. ASSUME NEW i \in DOMAIN new
      PROVE  new[i] # Genesis /\ Known(new[i], maps, work)
  <2>1. CASE \E j \in 1..Len(l1) : new[i] = l1[j]
    <3>1. 1..Len(l1) = DOMAIN l1
      OBVIOUS
    <3> HIDE DEF new
    <3> QED
      BY <2>1, <3>1, Zenon DEF KnownLinks
  <2>2. CASE \E j \in 1..Len(rest) : new[i] = rest[j]
    <3>1. \E j \in DOMAIN l2 : new[i] = l2[j]
      <4>1. 1..Len(l2) = DOMAIN l2
        OBVIOUS
      <4> HIDE DEF new
      <4> QED
        BY <1>1, <2>2, <4>1, Zenon
    <3> HIDE DEF new
    <3> QED
      BY <3>1, Zenon DEF KnownLinks
  <2>3. \/ \E j \in 1..Len(l1) : new[i] = l1[j]
        \/ \E j \in 1..Len(rest) : new[i] = rest[j]
    <3>1. l1 \in Seq(Block) /\ rest \in Seq(Block) /\ i \in DOMAIN (l1 \o rest)
      BY <1>1, Zenon
    <3> HIDE DEF new
    <3>2. \/ \E j \in 1..Len(l1) : (l1 \o rest)[i] = l1[j]
          \/ \E j \in 1..Len(rest) : (l1 \o rest)[i] = rest[j]
      BY <1>1, <3>1, ConcatBlocks, Zenon
    <3> QED
      BY <3>2, Zenon DEF new
  <2> HIDE DEF new
  <2> QED
    BY <2>1, <2>2, <2>3, Zenon
<1>4. new # <<>> => Len(new[1]) = Len(b) + 1
  <2>1. CASE l1 # <<>>
    <3>1. new[1] = l1[1]
      BY <1>1, <2>1
    <3> HIDE DEF new
    <3> QED
      BY <2>1, <3>1, Zenon DEF KnownLinks
  <2>2. CASE l1 = <<>> /\ l2 # <<>>
    <3>1. new[1] = l2[1]
      <4>1. Len(l1) = 0 /\ Len(l2) >= 1
        BY <2>2
      <4>2. Len(rest) = Len(l2) /\ rest[1] = l2[1]
        BY <1>1, <4>1
      <4> QED
        BY <1>1, <4>1, <4>2
    <3> HIDE DEF new
    <3> QED
      BY <2>2, <3>1, Zenon DEF KnownLinks
  <2>3. CASE l1 = <<>> /\ l2 = <<>>
    <3>1. Len(new) = 0
      BY <1>1, <1>2, <2>3
    <3> HIDE DEF new
    <3> QED
      BY <1>2, <3>1
  <2> QED
    BY <2>1, <2>2, <2>3, Zenon
<1> HIDE DEF new
<1>5. KnownLinks(b, new, maps, work)
  BY <1>3, <1>4, Zenon DEF KnownLinks
<1> QED
  BY <1>2, <1>5, Zenon DEF new, rest

-----------------------------------------------------------------------------
(* No server's map loses anything in a step. *)
MapsGrow == \A s \in Server : Grows(sbm[s], sbm'[s])

(* A step that touches no map leaves all of them grown. *)
LEMMA UnchangedMapsGrow ==
    ASSUME MapsOK, UNCHANGED sbm
    PROVE  MapsGrow
BY GrowsReflexive DEF MapsGrow, MapsOK

(* A step that changes one call keeps what holds of the others. *)
LEMMA CallsKept ==
    ASSUME IInv, MapsGrow, NEW k \in Client \cup Worker, NEW c,
           call' = [call EXCEPT ![k] = c], CallOK(c, sbm')
    PROVE  /\ DOMAIN call' = Client \cup Worker
           /\ \A j \in Client \cup Worker : CallOK(call'[j], sbm')
<1>1. DOMAIN call = Client \cup Worker /\ \A j \in Client \cup Worker : CallOK(call[j], sbm)
  BY DEF IInv
<1>2. DOMAIN call' = Client \cup Worker
  BY <1>1
<1>3. ASSUME NEW j \in Client \cup Worker PROVE CallOK(call'[j], sbm')
  <2>1. CASE j = k
    BY <1>1, <2>1, Zenon
  <2>2. CASE j # k
    <3>1. call'[j] = call[j]
      BY <1>1, <2>2, Zenon
    <3>2. call[j].pc \in {"bft", "signed", "changed"} => call[j].leader \in Server
      BY <1>1, CallStages, Zenon
    <3>3. call[j].pc \in {"bft", "signed", "changed"} =>
            /\ IsSkipBlockMap(sbm[call[j].leader])
            /\ Grows(sbm[call[j].leader], sbm'[call[j].leader])
      BY <3>2 DEF IInv, MapsOK, MapsGrow
    <3> QED
      BY <1>1, <3>1, <3>3, CallKept
  <2> QED
    BY <2>1, <2>2
<1> QED
  BY <1>2, <1>3

(* The same of a step that changes none. *)
LEMMA NoCallChanged ==
    ASSUME IInv, MapsGrow, UNCHANGED call
    PROVE  /\ DOMAIN call' = Client \cup Worker
           /\ \A j \in Client \cup Worker : CallOK(call'[j], sbm')
<1>1. DOMAIN call = Client \cup Worker /\ \A j \in Client \cup Worker : CallOK(call[j], sbm)
  BY DEF IInv
<1>2. ASSUME NEW j \in Client \cup Worker PROVE CallOK(call[j], sbm')
  <2>1. call[j].pc \in {"bft", "signed", "changed"} => call[j].leader \in Server
    BY <1>1, CallStages, Zenon
  <2>2. call[j].pc \in {"bft", "signed", "changed"} =>
          /\ IsSkipBlockMap(sbm[call[j].leader])
          /\ Grows(sbm[call[j].leader], sbm'[call[j].leader])
    BY <2>1 DEF IInv, MapsOK, MapsGrow
  <2> QED
    BY <1>1, <2>2, CallKept, Zenon
<1> QED
  BY <1>1, <1>2

(* A call that has ended. *)
LEMMA NoCallOK == \A maps : CallOK(NoCall, maps)
BY DEF CallOK

(* The scenario and the counters, by what a step does with them. *)
LEMMA HappensFacts ==
    ASSUME IInv, UNCHANGED scenario, NEW m, Happens(m) \/ UNCHANGED mishaps
    PROVE  mishaps' \subseteq scenario'.mishaps
BY Zenon DEF IInv, Happens

(* A new chain. *)
LEMMA StoreGenesisKeeps ==
    ASSUME IInv, UNCHANGED scenario, NEW k \in Client, NEW s \in Server,
           StoreGenesis(k, s)
    PROVE  IInv' /\ MapsGrow
<1> DEFINE c == [pc |-> "changed", leader |-> s, level |-> 0, newest |-> Genesis,
                 changed |-> <<Genesis>>]
<1>1. MapsGrow
  BY UnchangedMapsGrow DEF StoreGenesis, IInv
<1>2. c \in ChangedCall
  BY BlockFacts DEF ChangedCall
<1>3. ChangedOK(c, sbm')
  BY DEF ChangedOK
<1>4. CallOK(c, sbm') /\ call' = [call EXCEPT ![k] = c]
  BY <1>2, <1>3 DEF CallOK, StoreGenesis, Change
<1> HIDE DEF c
<1>5. /\ DOMAIN call' = Client \cup Worker
      /\ \A j \in Client \cup Worker : CallOK(call'[j], sbm')
  BY <1>1, <1>4, CallsKept, Zenon
<1> QED
  BY <1>1, <1>5 DEF IInv, MapsOK, StoreGenesis

(* The guard of StoreSkipBlock has seen all the back-links. *)
LEMMA StoreSkipBlockKeeps ==
    ASSUME IInv, UNCHANGED scenario, NEW k \in Client, NEW s \in Server,
           NEW latest \in DOMAIN sbm[s], NEW data \in Data,
           StoreSkipBlock(k, s, latest, data)
    PROVE  IInv' /\ MapsGrow
<1> DEFINE prop == Append(latest, data)
           c == [pc |-> "bft", leader |-> s, level |-> 0, newest |-> prop,
                 link |-> prop, vote |-> [q \in Server |-> "none"]]
           lowest == Len(BackLinkID(prop, HeightOf(prop) - 1))
<1>1. MapsGrow
  BY UnchangedMapsGrow, Zenon DEF StoreSkipBlock, IInv
<1>2. latest \in Block /\ latest \in Seq(Data) /\ Len(latest) \in Nat /\ Len(latest) < MaxBlock
  BY BlockFacts DEF StoreSkipBlock, IInv, MapsOK, IsSkipBlockMap
<1>3. /\ prop \in Seq(Data) /\ Len(prop) = Len(latest) + 1
      /\ prop # Genesis
      /\ \A i \in 0..Len(latest) : SubSeq(prop, 1, i) = SubSeq(latest, 1, i)
  BY <1>2 DEF Genesis
<1>5. /\ \A i \in lowest..Len(latest) : SubSeq(latest, 1, i) \in DOMAIN sbm[s]
      /\ call' = [call EXCEPT ![k] = c]
      /\ sbm' = sbm
  BY DEF StoreSkipBlock, StartBFT
<1> HIDE DEF prop
<1>4. prop \in Block
  <2>1. Len(prop) <= MaxBlock
    BY <1>2, <1>3, HeightAssumption
  <2> QED
    BY <1>3, <2>1, BlockFacts, Zenon
<1>6. ASSUME NEW h \in 0..(HeightOf(prop) - 1)
      PROVE  BackLinkID(prop, h) \in DOMAIN sbm[s]
  <2> DEFINE l == Len(BackLinkID(prop, h))
  <2>1. /\ BackLinkID(prop, h) = SubSeq(prop, 1, l)
        /\ l \in lowest..(Len(prop) - 1)
        /\ lowest \in Nat
    BY <1>3, <1>4, BackLinkIDFacts
  <2> HIDE DEF l, lowest
  <2>2. l \in 0..Len(latest) /\ l \in lowest..Len(latest)
    BY <1>2, <1>3, <2>1
  <2> QED
    BY <1>3, <1>5, <2>1, <2>2, Zenon
<1>7. HeightOf(prop) \in Nat /\ HeightOf(prop) >= 1
  BY <1>4, HeightOfFacts
<1>8. c \in BFTCall
  BY <1>4, Zenon DEF BFTCall
<1>9. KnowsBackLinks(c, sbm')
  BY <1>3, <1>5, <1>6 DEF KnowsBackLinks
<1>10. 0 \in 0..(HeightOf(prop) - 1)
  BY <1>7
<1>11. BFTOK(c, sbm')
  BY <1>5, <1>6, <1>9, <1>10, Zenon DEF BFTOK
<1>12. CallOK(c, sbm')
  BY <1>8, <1>11 DEF CallOK
<1> HIDE DEF c
<1>13. /\ DOMAIN call' = Client \cup Worker
       /\ \A j \in Client \cup Worker : CallOK(call'[j], sbm')
  BY <1>1, <1>5, <1>12, CallsKept, Zenon
<1>14. mishaps' \subseteq scenario'.mishaps
  BY HappensFacts, Zenon DEF StoreSkipBlock
<1>15. calls' \in 0..scenario'.calls
  BY ScenarioAssumption DEF StoreSkipBlock, IInv
<1> QED
  BY <1>1, <1>13, <1>14, <1>15, Zenon DEF IInv, MapsOK, StoreSkipBlock

(* A server that accepts a higher link has compared it with the new block. *)
LEMMA VerifyKeeps ==
    ASSUME IInv, UNCHANGED scenario, NEW k \in Client \cup Worker, NEW q \in Server,
           Verify(k, q)
    PROVE  IInv' /\ MapsGrow
<1> DEFINE v == IF Accepts(q, call[k]) THEN "accept" ELSE "refuse"
           c == [call[k] EXCEPT !.vote[q] = v]
<1>1. MapsGrow
  BY UnchangedMapsGrow, Zenon DEF Verify, IInv
<1>2. call[k] \in BFTCall /\ BFTOK(call[k], sbm)
  BY CallTypes, Zenon DEF Verify
<1>3. call' = [call EXCEPT ![k] = c] /\ sbm' = sbm
  BY DEF Verify
<1>4. v \in {"accept", "refuse"}
  BY Zenon
<1>5. call[k].level > 0 /\ v = "accept" => call[k].link = call[k].newest
  BY <1>2 DEF Accepts, BFTCall
<1> HIDE DEF v
<1>6. /\ c \in BFTCall /\ c.level = call[k].level /\ c.leader = call[k].leader
      /\ c.newest = call[k].newest /\ c.link = call[k].link
      /\ c.vote = [call[k].vote EXCEPT ![q] = v]
  BY <1>2, <1>4, Zenon DEF BFTCall
<1> HIDE DEF c
<1>7. \A p \in Server : c.level > 0 /\ c.vote[p] = "accept" => c.link = c.newest
  <2>1. call[k].vote \in [Server -> {"none", "accept", "refuse", "lost"}]
    BY <1>2, Zenon DEF BFTCall
  <2> QED
    BY <1>2, <1>5, <1>6, <2>1 DEF BFTOK
<1>8. BFTOK(c, sbm')
  BY <1>2, <1>3, <1>6, <1>7 DEF BFTOK, KnowsBackLinks
<1>9. /\ DOMAIN call' = Client \cup Worker
      /\ \A j \in Client \cup Worker : CallOK(call'[j], sbm')
  <2>1. CallOK(c, sbm')
    BY <1>6, <1>8 DEF CallOK
  <2> QED
    BY <1>1, <1>3, <2>1, CallsKept, Zenon
<1> QED
  BY <1>1, <1>9 DEF IInv, MapsOK, Verify

(* The number of refusals below the threshold leaves a server that         *)
(* accepted, whatever the number of servers.                               *)
LEMMA SomeoneAccepted ==
    ASSUME NEW vote \in [Server -> {"none", "accept", "refuse", "lost"}],
           \A q \in Server : vote[q] \in {"accept", "refuse"},
           Cardinality({q \in Server : vote[q] = "refuse"}) < Threshold
    PROVE  \E q \in Server : vote[q] = "accept"
<1> SUFFICES ASSUME \A q \in Server : vote[q] = "refuse" PROVE FALSE
  OBVIOUS
<1>1. {q \in Server : vote[q] = "refuse"} = Server
  OBVIOUS
<1>2. Cardinality(Server) \in Nat
  BY RosterAssumption
<1> DEFINE n == Cardinality(Server)
<1>3. n < ((n + 1) * 2) \div 3
  BY <1>1, Zenon DEF Threshold
<1> HIDE DEF n
<1>4. n \in Nat
  BY <1>2 DEF n
<1> QED
  BY <1>3, <1>4

(* A signed link is one to the new block, whoever asked for it, and is     *)
(* added to one of its back-links.                                         *)
LEMMA SignedLink ==
    ASSUME IInv, NEW k \in Client \cup Worker, BFTDone(k),
           Cardinality({q \in Server : call[k].vote[q] = "refuse"}) < Threshold
    PROVE  LET c == call[k]
               target == BackLinkID(c.newest, c.level)
           IN  /\ target \in DOMAIN sbm[c.leader]
               /\ sbm' = [sbm EXCEPT ![c.leader] =
                            [sbm[c.leader] EXCEPT ![target] = Append(@, c.newest)]]
<1> DEFINE c == call[k]
           target == BackLinkID(c.newest, c.level)
<1>1. c \in BFTCall /\ BFTOK(c, sbm)
  BY CallTypes, Zenon DEF BFTDone
<1>2. /\ c.level \in Nat /\ target \in DOMAIN sbm[c.leader]
      /\ c.vote \in [Server -> {"none", "accept", "refuse", "lost"}]
  BY <1>1, Zenon DEF BFTCall, BFTOK
<1>3. c.link = c.newest
  <2>1. \A q \in Server : c.vote[q] \in {"accept", "refuse"}
    BY DEF BFTDone
  <2>2. \E q \in Server : c.vote[q] = "accept"
    BY <1>2, <2>1, SomeoneAccepted, Zenon
  <2> HIDE DEF c
  <2>3. c.level = 0 \/ c.level > 0
    BY <1>2
  <2> QED
    BY <1>1, <2>2, <2>3, Zenon DEF BFTOK
<1> QED
  BY <1>2, <1>3, Zenon DEF BFTDone, Target

(* The link leads from one of the back-links of the new block. *)
LEMMA BFTDoneKeeps ==
    ASSUME IInv, UNCHANGED scenario, NEW k \in Client \cup Worker, BFTDone(k)
    PROVE  IInv' /\ MapsGrow
<1> DEFINE c == call[k]
           target == BackLinkID(c.newest, c.level)
<1>1. c \in BFTCall /\ BFTOK(c, sbm)
  BY CallTypes, Zenon DEF BFTDone
<1>2. CASE ~(Cardinality({q \in Server : c.vote[q] = "refuse"}) < Threshold)
  <2>1. sbm' = sbm /\ call' = [call EXCEPT ![k] = NoCall]
    BY <1>2, Zenon DEF BFTDone
  <2>2. MapsGrow
    BY <2>1, UnchangedMapsGrow DEF IInv
  <2>3. /\ DOMAIN call' = Client \cup Worker
        /\ \A j \in Client \cup Worker : CallOK(call'[j], sbm')
    BY <2>1, <2>2, CallsKept, NoCallOK, Zenon
  <2> QED
    BY <2>1, <2>2, <2>3, Zenon DEF IInv, MapsOK, BFTDone
<1>3. CASE Cardinality({q \in Server : c.vote[q] = "refuse"}) < Threshold
  <2>1. /\ c.leader \in Server /\ c.level \in 0..(HeightOf(c.newest) - 1)
        /\ c.newest \in Block /\ c.level \in Nat
        /\ target \in DOMAIN sbm[c.leader]
    BY <1>1, Zenon DEF BFTCall, BFTOK
  <2>2. Fits(target, c.newest)
    BY <2>1, Zenon DEF Fits
  <2> DEFINE map == sbm[c.leader]
             new == [map EXCEPT ![target] = Append(@, c.newest)]
  <2>3. sbm' = [sbm EXCEPT ![c.leader] = new]
    BY <1>3, SignedLink, Zenon
  <2>4. IsSkipBlockMap(map)
    BY <2>1, Zenon DEF IInv, MapsOK
  <2>5. IsSkipBlockMap(new) /\ Grows(map, new) /\ new[target] # <<>>
    BY <2>1, <2>2, <2>4, AddLinkFacts, Zenon
  <2> HIDE DEF new
  <2>6. /\ DOMAIN sbm' = Server /\ sbm'[c.leader] = new
        /\ \A s \in Server : s # c.leader => sbm'[s] = sbm[s]
    BY <2>1, <2>3 DEF IInv, MapsOK
  <2>7. MapsGrow
    BY <2>5, <2>6, GrowsReflexive, Zenon DEF MapsGrow, IInv, MapsOK
  <2>8. MapsOK'
    BY <2>5, <2>6, Zenon DEF IInv, MapsOK, BFTDone
  <2>9. CASE c.level = 0
    <3> DEFINE d == [pc |-> "signed", leader |-> c.leader, newest |-> c.newest]
    <3>1. call' = [call EXCEPT ![k] = d]
      BY <1>3, <2>9, Zenon DEF BFTDone
    <3>2. d \in SignedCall
      BY <2>1 DEF SignedCall
    <3>3. KnowsBackLinks(c, sbm)
      BY <1>1, <2>9, Zenon DEF BFTOK
    <3>4. KnowsBackLinks(d, sbm')
      BY <2>1, <2>7, <3>3, Zenon DEF KnowsBackLinks, MapsGrow, Grows
    <3>5. target = Previous(c.newest)
      BY <2>1, <2>9, <3>3, BackLinkIDFacts, Zenon DEF KnowsBackLinks
    <3>6. SignedOK(d, sbm')
      BY <2>5, <2>6, <3>4, <3>5, Zenon DEF SignedOK
    <3>7. CallOK(d, sbm')
      BY <3>2, <3>6 DEF CallOK
    <3> HIDE DEF d
    <3>8. /\ DOMAIN call' = Client \cup Worker
          /\ \A j \in Client \cup Worker : CallOK(call'[j], sbm')
      BY <2>7, <3>1, <3>7, CallsKept, Zenon
    <3> QED
      BY <2>7, <2>8, <3>8, Zenon DEF IInv, BFTDone
  <2>10. CASE c.level # 0
    <3> DEFINE d == [pc |-> "changed", leader |-> c.leader, level |-> c.level,
                     newest |-> c.newest, changed |-> <<target>>]
    <3>1. call' = [call EXCEPT ![k] = d]
      BY <1>3, <2>10, Zenon DEF BFTDone, Change, Target
    <3>2. target \in Block
      BY <2>1, <2>4, Zenon DEF IsSkipBlockMap
    <3>3. d \in ChangedCall
      BY <2>1, <3>2 DEF ChangedCall
    <3>4. target \in DOMAIN sbm'[c.leader]
      BY <2>1, <2>7, Zenon DEF MapsGrow, Grows
    <3>5. ChangedOK(d, sbm')
      BY <3>4, ShortLists, Zenon DEF ChangedOK
    <3>6. CallOK(d, sbm')
      BY <3>3, <3>5 DEF CallOK
    <3> HIDE DEF d
    <3>7. /\ DOMAIN call' = Client \cup Worker
          /\ \A j \in Client \cup Worker : CallOK(call'[j], sbm')
      BY <2>7, <3>1, <3>6, CallsKept, Zenon
    <3> QED
      BY <2>7, <2>8, <3>7, Zenon DEF IInv, BFTDone
  <2> QED
    BY <2>9, <2>10, Zenon
<1> QED
  BY <1>2, <1>3, Zenon

(* A round that ends without a signature. *)
LEMMA BFTTimeoutKeeps ==
    ASSUME IInv, UNCHANGED scenario, NEW k \in Client \cup Worker, BFTTimeout(k)
    PROVE  IInv' /\ MapsGrow
<1>1. MapsGrow
  BY UnchangedMapsGrow, ZenonT(30) DEF BFTTimeout, IInv
<1>2. call' = [call EXCEPT ![k] = NoCall]
  BY Zenon DEF BFTTimeout
<1>3. /\ DOMAIN call' = Client \cup Worker
      /\ \A j \in Client \cup Worker : CallOK(call'[j], sbm')
  BY <1>1, <1>2, CallsKept, NoCallOK, Zenon
<1>4. mishaps' \subseteq scenario'.mishaps
  BY HappensFacts DEF BFTTimeout
<1> QED
  BY <1>1, <1>3, <1>4, Zenon DEF IInv, MapsOK, BFTTimeout

(* The requests name levels of the new block, and the changed blocks are   *)
(* ones the leader knows, or the new one.                                  *)
LEMMA RequestHigherLinksKeeps ==
    ASSUME IInv, UNCHANGED scenario, NEW k \in Client \cup Worker,
           RequestHigherLinks(k)
    PROVE  /\ IInv' /\ MapsGrow
           /\ \E tail \in Seq(Block) : call' = [call EXCEPT ![k] =
                [pc |-> "changed", leader |-> call[k].leader, level |-> 0,
                 newest |-> call[k].newest,
                 changed |-> <<Previous(call[k].newest), call[k].newest>> \o tail]]
<1> DEFINE c == call[k]
           levels == {TargetHeight(i) : i \in 0..(HeightOf(c.newest) - 2)}
           link == sbm[c.leader][Previous(c.newest)][1]
<1>1. MapsGrow
  BY UnchangedMapsGrow, Zenon DEF RequestHigherLinks, IInv
<1>2. c \in SignedCall /\ SignedOK(c, sbm)
  BY CallTypes, Zenon DEF RequestHigherLinks
<1>3. /\ c.leader \in Server /\ c.newest \in Block /\ c.newest # Genesis
      /\ KnowsBackLinks(c, sbm)
      /\ sbm[c.leader][Previous(c.newest)] # <<>>
  BY <1>2 DEF SignedCall, SignedOK, KnowsBackLinks
<1>4. HeightOf(c.newest) \in Nat /\ HeightOf(c.newest) >= 1
  BY <1>3, HeightOfFacts, Zenon
<1>5. /\ BackLinkID(c.newest, 0) = Previous(c.newest)
      /\ \A h \in 0..(HeightOf(c.newest) - 1) :
           BackLinkID(c.newest, h) \in Block /\ BackLinkID(c.newest, h) \in DOMAIN sbm[c.leader]
  BY <1>3, BackLinkIDFacts DEF KnowsBackLinks
<1>6. 0 \in 0..(HeightOf(c.newest) - 1)
  BY <1>4
<1>7. Previous(c.newest) \in Block /\ Previous(c.newest) \in DOMAIN sbm[c.leader]
  BY <1>5, <1>6, Zenon
<1>8. link \in Block
  <2>1. sbm[c.leader][Previous(c.newest)] \in Seq(Block)
    BY <1>3, <1>7, Zenon DEF IInv, MapsOK, IsSkipBlockMap
  <2> QED
    BY <1>3, <2>1
<1>9. PICK sent \in SUBSET levels :
        /\ IF sent = levels THEN UNCHANGED mishaps ELSE Happens("failure")
        /\ \E to \in [sent -> Server] :
             fwdSigs' = fwdSigs \cup
               {[to |-> to[h], level |-> h, newest |-> c.newest,
                 link |-> link] : h \in sent}
        /\ \E n \in 0..(HeightOf(c.newest) - 1) : \E level \in [1..n -> sent] :
             Change(k, c.leader, 0, c.newest,
                    <<Previous(c.newest), c.newest>>
                      \o [i \in DOMAIN level |-> BackLinkID(c.newest, level[i])])
  BY Zenon DEF RequestHigherLinks
<1>10. \A h \in sent : /\ h \in 1..(HeightOf(c.newest) - 1)
                       /\ h \in 0..(HeightOf(c.newest) - 1) /\ h \in Nat
  BY <1>4 DEF TargetHeight
<1>12. \A m \in fwdSigs' : ForwardOK(m)
  <2>1. PICK to \in [sent -> Server] :
          fwdSigs' = fwdSigs \cup
            {[to |-> to[h], level |-> h, newest |-> c.newest,
              link |-> link] : h \in sent}
    BY <1>9, Zenon
  <2>2. ASSUME NEW h \in sent
        PROVE  ForwardOK([to |-> to[h], level |-> h, newest |-> c.newest, link |-> link])
    <3>1. h \in 1..(HeightOf(c.newest) - 1) /\ h \in Nat /\ to[h] \in Server
      BY <1>10, <2>1, Zenon
    <3> HIDE DEF link
    <3> QED
      BY <1>3, <1>8, <3>1, Zenon DEF ForwardOK
  <2> QED
    BY <2>1, <2>2, Zenon DEF IInv
<1>11. PICK n \in 0..(HeightOf(c.newest) - 1) : \E level \in [1..n -> sent] :
         Change(k, c.leader, 0, c.newest,
                <<Previous(c.newest), c.newest>>
                  \o [i \in DOMAIN level |-> BackLinkID(c.newest, level[i])])
  BY <1>9, Zenon
<1>13. PICK level \in [1..n -> sent] :
         Change(k, c.leader, 0, c.newest,
                <<Previous(c.newest), c.newest>>
                  \o [i \in DOMAIN level |-> BackLinkID(c.newest, level[i])])
  BY <1>11, Zenon
<1> DEFINE tail == [i \in 1..n |-> BackLinkID(c.newest, level[i])]
           head == <<Previous(c.newest), c.newest>>
           d == [pc |-> "changed", leader |-> c.leader, level |-> 0,
                 newest |-> c.newest, changed |-> head \o tail]
<1>14. call' = [call EXCEPT ![k] = d]
  BY <1>13, Zenon DEF Change
<1>15. \A i \in 1..n : /\ tail[i] \in Block
                       /\ tail[i] \in DOMAIN sbm[c.leader]
  <2> SUFFICES ASSUME NEW i \in 1..n
               PROVE  tail[i] \in Block /\ tail[i] \in DOMAIN sbm[c.leader]
    OBVIOUS
  <2>1. level[i] \in sent
    BY <1>13
  <2>2. level[i] \in 0..(HeightOf(c.newest) - 1)
    BY <1>10, <2>1, Zenon
  <2> QED
    BY <1>5, <2>2, Zenon
<1>16. tail \in Seq(Block) /\ Len(tail) = n
  BY <1>4, <1>11, <1>15
<1> HIDE DEF tail
<1>17. \E t \in Seq(Block) : call' = [call EXCEPT ![k] =
         [pc |-> "changed", leader |-> c.leader, level |-> 0, newest |-> c.newest,
          changed |-> <<Previous(c.newest), c.newest>> \o t]]
  BY <1>14, <1>16, Zenon
<1>18. head \in Seq(Block)
  BY <1>3, <1>7
<1>h. \A j \in 1..Len(head) : head[j] = Previous(c.newest) \/ head[j] = c.newest
  OBVIOUS
<1> HIDE DEF head
<1>19. /\ head \o tail \in Seq(Block)
       /\ \A i \in DOMAIN (head \o tail) :
            \/ (head \o tail)[i] = Previous(c.newest)
            \/ (head \o tail)[i] = c.newest
            \/ \E j \in 1..n : (head \o tail)[i] = tail[j]
  <2>1. head \o tail \in Seq(Block)
    BY <1>16, <1>18, ConcatBlocks, Zenon
  <2>2. ASSUME NEW i \in DOMAIN (head \o tail)
        PROVE  \/ (head \o tail)[i] = Previous(c.newest)
               \/ (head \o tail)[i] = c.newest
               \/ \E j \in 1..n : (head \o tail)[i] = tail[j]
    <3>1. \/ \E j \in 1..Len(head) : (head \o tail)[i] = head[j]
          \/ \E j \in 1..Len(tail) : (head \o tail)[i] = tail[j]
      BY <1>16, <1>18, ConcatBlocks, Zenon
    <3> QED
      BY <1>16, <1>h, <3>1, Zenon
  <2> QED
    BY <2>1, <2>2, Zenon
<1>20. d \in ChangedCall
  BY <1>3, <1>19, Zenon DEF ChangedCall
<1>21. ChangedOK(d, sbm')
  <2>1. sbm' = sbm
    BY Zenon DEF RequestHigherLinks
  <2> QED
    BY <1>7, <1>15, <1>19, <2>1, Zenon DEF ChangedOK
<1>22. CallOK(d, sbm')
  BY <1>20, <1>21, Zenon DEF CallOK
<1> HIDE DEF d
<1>23. /\ DOMAIN call' = Client \cup Worker
       /\ \A j \in Client \cup Worker : CallOK(call'[j], sbm')
  BY <1>1, <1>14, <1>22, CallsKept, Zenon
<1>24. mishaps' \subseteq scenario'.mishaps
  BY <1>9, HappensFacts
<1> QED
  BY <1>1, <1>12, <1>17, <1>23, <1>24, Zenon DEF IInv, MapsOK, RequestHigherLinks

(* What is sent are the links the leader holds. *)
LEMMA StartPropagationKeeps ==
    ASSUME IInv, UNCHANGED scenario, NEW k \in Client \cup Worker,
           StartPropagation(k)
    PROVE  IInv' /\ MapsGrow
<1> DEFINE c == call[k]
           links(b) == IF b \in (IF c.level = 0 THEN {c.newest} ELSE {})
                       THEN <<>> ELSE sbm[c.leader][b]
           sent == [i \in DOMAIN c.changed |-> <<c.changed[i], links(c.changed[i])>>]
           d == [pc |-> "propagate", leader |-> c.leader, level |-> c.level,
                 newest |-> c.newest, sent |-> sent,
                 stored |-> [q \in Server |-> 0]]
<1>1. MapsGrow
  BY UnchangedMapsGrow, Zenon DEF StartPropagation, IInv
<1>2. c \in ChangedCall /\ ChangedOK(c, sbm)
  BY CallTypes, Zenon DEF StartPropagation
<1>3. call' = [call EXCEPT ![k] = d]
  BY DEF StartPropagation
<1>4. c.leader \in Server /\ c.changed \in Seq(Block) /\ c.level \in Nat /\ c.newest \in Block
  BY <1>2, Zenon DEF ChangedCall
<1>5. ASSUME NEW i \in DOMAIN c.changed
      PROVE  /\ links(c.changed[i]) \in LinkList(c.changed[i])
             /\ links(c.changed[i]) \in Seq(Block)
  <2>1. CASE c.level = 0 /\ c.changed[i] = c.newest
    BY <2>1, LinkListFacts
  <2>2. CASE ~(c.level = 0 /\ c.changed[i] = c.newest)
    <3>1. c.changed[i] \in DOMAIN sbm[c.leader]
      BY <1>2, <2>2, Zenon DEF ChangedOK
    <3>2. IsSkipBlockMap(sbm[c.leader])
      BY <1>4, Zenon DEF IInv, MapsOK
    <3> QED
      BY <2>2, <3>1, <3>2, Zenon DEF IsSkipBlockMap
  <2> QED
    BY <2>1, <2>2, Zenon
<1> HIDE DEF links
<1>6. sent \in Seq(Block \X Seq(Block))
  BY <1>4, <1>5
<1>7. \A i \in DOMAIN sent : sent[i][2] \in LinkList(sent[i][1])
  BY <1>5, Zenon
<1> HIDE DEF sent
<1>8. d \in PropagateCall
  BY <1>4, <1>6 DEF PropagateCall
<1>9. PropagateOK(d)
  BY <1>7, Zenon DEF PropagateOK
<1>10. CallOK(d, sbm')
  BY <1>8, <1>9 DEF CallOK
<1> HIDE DEF d
<1>11. /\ DOMAIN call' = Client \cup Worker
       /\ \A j \in Client \cup Worker : CallOK(call'[j], sbm')
  BY <1>1, <1>3, <1>10, CallsKept, Zenon
<1> QED
  BY <1>1, <1>11, Zenon DEF IInv, MapsOK, StartPropagation

(* A server stores a block with links that fit it. *)
LEMMA StoreAtKeeps ==
    ASSUME IInv, NEW q \in Server, NEW sb \in Block, NEW links \in LinkList(sb),
           sbm' = [sbm EXCEPT ![q] = Store(@, sb, links)], Save(q)
    PROVE  MapsOK' /\ MapsGrow
<1> DEFINE new == Store(sbm[q], sb, links)
<1>1. IsSkipBlockMap(new) /\ Grows(sbm[q], new)
  BY StoreFacts DEF IInv, MapsOK
<1>2. /\ DOMAIN sbm' = Server /\ sbm'[q] = new
      /\ \A s \in Server : s # q => sbm'[s] = sbm[s]
  BY Zenon DEF IInv, MapsOK
<1> HIDE DEF new
<1>3. MapsGrow
  BY <1>1, <1>2, GrowsReflexive, Zenon DEF MapsGrow, IInv, MapsOK
<1>4. \A s \in Server : IsSkipBlockMap(sbm'[s])
  BY <1>1, <1>2, Zenon DEF IInv, MapsOK
<1>5. DOMAIN saved' = Server /\ \A s \in Server : IsSkipBlockMap(saved'[s])
  BY <1>4 DEF IInv, MapsOK, Save
<1> QED
  BY <1>2, <1>3, <1>4, <1>5, Zenon DEF MapsOK

(* A block of a propagation arrives. *)
LEMMA PropagateSkipBlockKeeps ==
    ASSUME IInv, UNCHANGED scenario, NEW k \in Client \cup Worker, NEW q \in Server,
           PropagateSkipBlock(k, q)
    PROVE  IInv' /\ MapsGrow
<1> DEFINE c == call[k]
           d == [c EXCEPT !.stored[q] = @ + 1]
           i == c.stored[q] + 1
<1>1. c \in PropagateCall /\ PropagateOK(c)
  BY CallTypes, Zenon DEF PropagateSkipBlock
<1>2. /\ c.sent \in Seq(Block \X Seq(Block)) /\ c.stored \in [Server -> Int]
      /\ c.stored[q] \in 0..(Len(c.sent) - 1)
      /\ sbm' = [sbm EXCEPT ![q] = Store(@, c.sent[i][1], c.sent[i][2])]
      /\ call' = [call EXCEPT ![k] = d]
  BY <1>1, Zenon DEF PropagateCall, PropagateSkipBlock
<1>3. i \in DOMAIN c.sent
  BY <1>2, NextSent, Zenon
<1>4. c.sent[i][1] \in Block /\ c.sent[i][2] \in LinkList(c.sent[i][1])
  BY <1>1, <1>2, <1>3, NextSent, Zenon DEF PropagateOK
<1>5. MapsOK' /\ MapsGrow
  BY <1>2, <1>4, StoreAtKeeps, Zenon DEF PropagateSkipBlock
<1>6. d \in PropagateCall /\ d.sent = c.sent
  <2> DEFINE stored == [c.stored EXCEPT ![q] = @ + 1]
  <2>1. stored \in [Server -> Int]
    BY <1>2
  <2>2. d = [c EXCEPT !.stored = stored]
    BY <1>1, Zenon DEF PropagateCall
  <2> HIDE DEF stored, d
  <2> QED
    BY <1>1, <2>1, <2>2, Zenon DEF PropagateCall
<1>7. CallOK(d, sbm')
  BY <1>1, <1>6, Zenon DEF CallOK, PropagateOK
<1> HIDE DEF d
<1>8. /\ DOMAIN call' = Client \cup Worker
      /\ \A j \in Client \cup Worker : CallOK(call'[j], sbm')
  BY <1>2, <1>5, <1>7, CallsKept, Zenon
<1> QED
  BY <1>5, <1>8, Zenon DEF IInv, PropagateSkipBlock

(* A propagation has ended. *)
LEMMA ReturnKeeps ==
    ASSUME IInv, UNCHANGED scenario, NEW k \in Client \cup Worker, Return(k)
    PROVE  IInv' /\ MapsGrow
<1>1. MapsGrow
  BY UnchangedMapsGrow, Zenon DEF Return, IInv
<1>2. call[k] \in PropagateCall
  BY CallTypes, Zenon DEF Return
<1>3. call' = [call EXCEPT ![k] = NoCall] /\ sbm' = sbm
  BY DEF Return
<1>4. /\ DOMAIN call' = Client \cup Worker
      /\ \A j \in Client \cup Worker : CallOK(call'[j], sbm')
  BY <1>1, <1>3, CallsKept, NoCallOK, ZenonT(30)
<1>5. acked' \subseteq Block
  BY <1>2 DEF Return, IInv, PropagateCall
<1>6. MapsOK'
  <2>1. saved' = saved \/ saved' = [saved EXCEPT ![call[k].leader] = sbm'[call[k].leader]]
    BY Zenon DEF Return, Save
  <2> QED
    BY <1>3, <2>1, Zenon DEF IInv, MapsOK
<1> QED
  BY <1>1, <1>4, <1>5, <1>6, Zenon DEF IInv, Return

(* A server that knows the target starts to sign the higher link. *)
LEMMA ForwardSignatureKeeps ==
    ASSUME IInv, UNCHANGED scenario, NEW k \in Worker, NEW m \in fwdSigs,
           ForwardSignature(k, m)
    PROVE  IInv' /\ MapsGrow
<1> DEFINE c == [pc |-> "bft", leader |-> m.to, level |-> m.level,
                 newest |-> m.newest, link |-> m.link,
                 vote |-> [q \in Server |-> "none"]]
<1>1. MapsGrow
  BY UnchangedMapsGrow, Zenon DEF ForwardSignature, IInv
<1>2. ForwardOK(m) /\ sbm' = sbm
  BY Zenon DEF ForwardSignature, IInv
<1>3. /\ DOMAIN call' = Client \cup Worker
      /\ \A j \in Client \cup Worker : CallOK(call'[j], sbm')
  <2>1. CASE BackLinkID(m.newest, m.level) \in DOMAIN sbm[m.to]
    <3>1. call' = [call EXCEPT ![k] = c]
      BY <2>1, Zenon DEF ForwardSignature, StartBFT
    <3>2. c \in BFTCall
      BY <1>2 DEF BFTCall, ForwardOK
    <3>3. m.level \in 0..(HeightOf(m.newest) - 1) /\ m.level > 0
      <4>1. HeightOf(m.newest) \in Nat
        BY <1>2, HeightOfFacts, Zenon DEF ForwardOK
      <4> QED
        BY <1>2, <4>1 DEF ForwardOK
    <3>4. BFTOK(c, sbm')
      BY <1>2, <2>1, <3>3 DEF BFTOK
    <3>5. CallOK(c, sbm')
      BY <3>2, <3>4, Zenon DEF CallOK
    <3> HIDE DEF c
    <3> QED
      BY <1>1, <3>1, <3>5, CallsKept, Zenon
  <2>2. CASE BackLinkID(m.newest, m.level) \notin DOMAIN sbm[m.to]
    BY <1>1, <2>2, NoCallChanged DEF ForwardSignature
  <2> QED
    BY <2>1, <2>2
<1> QED
  BY <1>1, <1>3, Zenon DEF IInv, MapsOK, ForwardSignature

(* A request is lost, or a server answers with the links it holds. *)
LEMMA MessageKeeps ==
    ASSUME IInv, UNCHANGED scenario,
           \/ \E m \in fwdSigs : LoseForwardSignature(m)
           \/ \E s, q \in Server : GetBlock(s, q)
    PROVE  IInv' /\ MapsGrow
<1>1. sbm' = sbm /\ call' = call /\ saved' = saved
  BY Zenon DEF LoseForwardSignature, GetBlock
<1>2. MapsGrow
  BY <1>1, UnchangedMapsGrow DEF IInv
<1>3. /\ DOMAIN call' = Client \cup Worker
      /\ \A j \in Client \cup Worker : CallOK(call'[j], sbm')
  BY <1>1, <1>2, NoCallChanged, Zenon
<1>4. MapsOK'
  BY <1>1, Zenon DEF IInv, MapsOK
<1>5. CASE \E m \in fwdSigs : LoseForwardSignature(m)
  <2>1. mishaps' \subseteq scenario'.mishaps
    BY <1>5, HappensFacts, Zenon DEF LoseForwardSignature
  <2> QED
    BY <1>2, <1>3, <1>4, <1>5, <2>1, Zenon DEF IInv, LoseForwardSignature
<1>6. CASE \E s, q \in Server : GetBlock(s, q)
  <2>1. PICK s \in Server, q \in Server : GetBlock(s, q)
    BY <1>6, Zenon
  <2>2. PICK b \in DOMAIN sbm[s] :
          LET next == LatestLink(sbm[s][b])
          IN  /\ next \in DOMAIN sbm[q]
              /\ replies' = replies \cup {[to |-> s, sb |-> next, links |-> sbm[q][next]]}
    BY <2>1, Zenon DEF GetBlock
  <2> DEFINE next == LatestLink(sbm[s][b])
  <2>3. next \in Block /\ sbm[q][next] \in Seq(Block) /\ sbm[q][next] \in LinkList(next)
    BY <2>2, Zenon DEF IInv, MapsOK, IsSkipBlockMap
  <2>4. replies' = replies \cup {[to |-> s, sb |-> next, links |-> sbm[q][next]]}
    BY <2>2
  <2> HIDE DEF next
  <2>5. ReplyOK([to |-> s, sb |-> next, links |-> sbm[q][next]])
    BY <2>3, Zenon DEF ReplyOK
  <2>6. \A m \in replies' : ReplyOK(m)
    BY <2>4, <2>5, Zenon DEF IInv
  <2> QED
    BY <1>2, <1>3, <1>4, <2>1, <2>6, Zenon DEF IInv, GetBlock
<1> QED
  BY <1>5, <1>6, Zenon

(* A reply is stored. *)
LEMMA GetBlockReplyKeeps ==
    ASSUME IInv, UNCHANGED scenario, NEW m \in replies, GetBlockReply(m)
    PROVE  IInv' /\ MapsGrow
<1>1. m.to \in Server /\ m.sb \in Block /\ m.links \in LinkList(m.sb)
  BY DEF IInv, ReplyOK
<1>2. MapsOK' /\ MapsGrow
  BY <1>1, StoreAtKeeps, Zenon DEF GetBlockReply
<1>3. /\ DOMAIN call' = Client \cup Worker
      /\ \A j \in Client \cup Worker : CallOK(call'[j], sbm')
  BY <1>2, NoCallChanged, ZenonT(30) DEF GetBlockReply
<1> QED
  BY <1>2, <1>3, Zenon DEF IInv, GetBlockReply

-----------------------------------------------------------------------------
(* A restart ends the calls of the server, so that none relies on a map    *)
(* that was set back; the calls of others go on without its part.          *)
LEMMA RestartKeeps ==
    ASSUME IInv, UNCHANGED scenario, NEW s \in Server, Restart(s),
           mishaps' \subseteq scenario'.mishaps
    PROVE  IInv'
<1>1. /\ DOMAIN sbm' = Server /\ sbm'[s] = saved[s] /\ saved' = saved
      /\ \A q \in Server : q # s => sbm'[q] = sbm[q]
  BY Zenon DEF Restart, IInv, MapsOK
<1>2. MapsOK'
  BY <1>1, Zenon DEF IInv, MapsOK
<1>3. DOMAIN call' = Client \cup Worker
  BY Zenon DEF Restart, IInv
<1>4. ASSUME NEW k \in Client \cup Worker PROVE CallOK(call'[k], sbm')
  <2> DEFINE c == call[k]
  <2>1. CallOK(c, sbm) /\ k \in DOMAIN call
    BY Zenon DEF IInv
  <2>2. call'[k] = CASE c.pc = "propagate" /\ c.leader = s ->
                         [c EXCEPT !.leader = "gone", !.stored[s] = -1]
                    [] c.pc = "propagate" /\ c.leader # s
                         /\ c.stored[s] < Len(c.sent) ->
                         [c EXCEPT !.stored[s] = -1]
                    [] c.pc = "bft" /\ c.leader # s ->
                         [c EXCEPT !.vote[s] = "lost"]
                    [] c.pc \in {"bft", "signed", "changed"}
                         /\ c.leader = s -> NoCall
                    [] OTHER -> c
    BY <2>1, Zenon DEF Restart
  <2> HIDE DEF c
  <2>3. CASE c.pc = "propagate"
    <3>1. c \in PropagateCall /\ PropagateOK(c)
      BY <2>1, <2>3, CallStages, Zenon
    <3>2. c.stored \in [Server -> Int] /\ -1 \in Int
      BY <3>1 DEF PropagateCall
    <3> DEFINE stored == [c.stored EXCEPT ![s] = -1]
    <3>3. stored \in [Server -> Int]
      BY <3>2, Zenon
    <3>4. CASE c.leader = s
      <4>1. call'[k] = [c EXCEPT !.leader = "gone", !.stored = stored]
        BY <2>2, <2>3, <3>1, <3>4, Zenon DEF PropagateCall
      <4> HIDE DEF stored
      <4>2. call'[k] \in PropagateCall /\ call'[k].sent = c.sent
        BY <3>1, <3>3, <4>1, Zenon DEF PropagateCall
      <4> QED
        BY <3>1, <4>2, Zenon DEF CallOK, PropagateOK
    <3>5. CASE c.leader # s /\ c.stored[s] < Len(c.sent)
      <4>1. call'[k] = [c EXCEPT !.stored = stored]
        BY <2>2, <2>3, <3>1, <3>5, Zenon DEF PropagateCall
      <4> HIDE DEF stored
      <4>2. call'[k] \in PropagateCall /\ call'[k].sent = c.sent
        BY <3>1, <3>3, <4>1, Zenon DEF PropagateCall
      <4> QED
        BY <3>1, <4>2, Zenon DEF CallOK, PropagateOK
    <3>6. CASE c.leader # s /\ ~(c.stored[s] < Len(c.sent))
      <4>1. call'[k] = c
        BY <2>2, <2>3, <3>6, Zenon
      <4> QED
        BY <3>1, <4>1, Zenon DEF CallOK
    <3> QED
      BY <3>4, <3>5, <3>6, Zenon
  <2>4. CASE c.pc \in {"bft", "signed", "changed"} /\ c.leader = s
    <3>1. call'[k] = NoCall
      BY <2>2, <2>4
    <3> QED
      BY <3>1, NoCallOK
  <2>5. CASE c.pc \in {"bft", "signed", "changed"} /\ c.leader # s
    <3>1. c.leader \in Server
      BY <2>1, <2>5, CallStages, Zenon
    <3>2. IsSkipBlockMap(sbm[c.leader]) /\ Grows(sbm[c.leader], sbm'[c.leader])
      BY <1>1, <2>5, <3>1, GrowsReflexive, Zenon DEF IInv, MapsOK
    <3>3. CallOK(c, sbm')
      BY <2>1, <3>2, CallKept, Zenon
    <3>4. CASE c.pc = "bft"
      <4>1. c \in BFTCall /\ BFTOK(c, sbm')
        BY <3>3, <3>4, CallStages, Zenon
      <4> DEFINE d == [c EXCEPT !.vote[s] = "lost"]
      <4>2. call'[k] = d
        BY <2>2, <2>5, <3>4, Zenon
      <4>3. c.vote \in [Server -> {"none", "accept", "refuse", "lost"}]
        BY <4>1 DEF BFTCall
      <4>4. /\ d \in BFTCall /\ d.level = c.level /\ d.leader = c.leader
            /\ d.newest = c.newest /\ d.link = c.link
            /\ d.vote = [c.vote EXCEPT ![s] = "lost"]
        BY <4>1 DEF BFTCall
      <4> HIDE DEF d
      <4>5. \A q \in Server : d.level > 0 /\ d.vote[q] = "accept" => d.link = d.newest
        BY <4>1, <4>3, <4>4, Zenon DEF BFTOK
      <4>6. BFTOK(d, sbm')
        BY <4>1, <4>4, <4>5, Zenon DEF BFTOK, KnowsBackLinks
      <4> QED
        BY <4>2, <4>4, <4>6, Zenon DEF CallOK
    <3>5. CASE c.pc # "bft"
      <4>1. call'[k] = c
        BY <2>2, <2>5, <3>5
      <4> QED
        BY <3>3, <4>1
    <3> QED
      BY <3>4, <3>5, Zenon
  <2>6. CASE c.pc \notin {"propagate", "bft", "signed", "changed"}
    <3>1. c = NoCall
      BY <2>1, <2>6, CallStages, Zenon
    <3>2. call'[k] = c
      BY <2>2, <2>6
    <3> QED
      BY <3>1, <3>2, NoCallOK, Zenon
  <2> QED
    BY <2>3, <2>4, <2>5, <2>6, Zenon
<1> QED
  BY <1>2, <1>3, <1>4, Zenon DEF IInv, Restart

(* What only a restart may do: a crash, or the end of a propagation that   *)
(* a server does not answer.                                               *)
LEMMA RestartsKeep ==
    ASSUME IInv, UNCHANGED scenario,
           \/ \E s \in Server : Crash(s)
           \/ \E k \in Client \cup Worker : PropagateTimeout(k)
    PROVE  IInv' /\ (MapsGrow \/ \E s \in Server : Restart(s))
<1>1. CASE \E s \in Server : Crash(s)
  <2>1. PICK s \in Server : Crash(s)
    BY <1>1, Zenon
  <2>2. Restart(s) /\ mishaps' \subseteq scenario'.mishaps
    BY <2>1, HappensFacts DEF Crash
  <2> QED
    BY <2>2, RestartKeeps
<1>2. CASE \E k \in Client \cup Worker : PropagateTimeout(k)
  <2>1. PICK k \in Client \cup Worker : PropagateTimeout(k)
    BY <1>2, Zenon
  <2>2. mishaps' \subseteq scenario'.mishaps
    BY <2>1 DEF PropagateTimeout, IInv
  <2>3. CASE call[k].leader \in Server
    <3>1. Restart(call[k].leader)
      BY <2>1, <2>3, Zenon DEF PropagateTimeout
    <3> QED
      BY <2>2, <2>3, <3>1, RestartKeeps, Zenon
  <2>4. CASE call[k].leader \notin Server
    <3>1. /\ call' = [call EXCEPT ![k] = NoCall]
          /\ UNCHANGED <<genesis, sbm, saved, fwdSigs, replies, acked, calls>>
      BY <2>1, <2>4, Zenon DEF PropagateTimeout
    <3>2. MapsGrow
      BY <3>1, UnchangedMapsGrow DEF IInv
    <3>3. /\ DOMAIN call' = Client \cup Worker
          /\ \A j \in Client \cup Worker : CallOK(call'[j], sbm')
      BY <3>1, <3>2, CallsKept, NoCallOK, Zenon
    <3> QED
      BY <2>2, <3>1, <3>2, <3>3, Zenon DEF IInv, MapsOK
  <2> QED
    BY <2>3, <2>4
<1> QED
  BY <1>1, <1>2, Zenon

(* The chain of at most two blocks all servers have at the start. *)
LEMMA InitKeeps == Init => IInv
<1> SUFFICES ASSUME Init PROVE IInv
  OBVIOUS
<1>1. /\ scenario \in Scenario /\ scenario.blocks \in 0..2 /\ scenario.calls \in Nat
      /\ scenario.mishaps \subseteq {"failure", "concurrent", "crash"}
  BY ScenarioAssumption, Zenon DEF Init
<1>2. PICK first \in {b \in Block : Len(b) = 1} :
        sbm = [s \in Server |->
                 [b \in {b \in {Genesis, first} : Len(b) < scenario.blocks} |->
                    IF b = Genesis /\ scenario.blocks = 2 THEN <<first>> ELSE <<>>]]
  BY DEF Init
<1> DEFINE D == {b \in {Genesis, first} : Len(b) < scenario.blocks}
           map == [b \in D |-> IF b = Genesis /\ scenario.blocks = 2
                               THEN <<first>> ELSE <<>>]
<1>3. Fits(Genesis, first)
  <2>1. first \in Block /\ first \in Seq(Data) /\ Len(first) = 1 /\ first # Genesis
    <3>1. first \in Block /\ Len(first) = 1
      BY <1>2
    <3>2. first \in Seq(Data)
      BY <3>1, BlockFacts
    <3>3. first # Genesis
      BY <3>1 DEF Genesis
    <3> QED
      BY <3>1, <3>2, <3>3, Zenon
  <2>2. 0 \in 0..(HeightOf(first) - 1)
    BY <2>1, HeightOfFacts
  <2>3. BackLinkID(first, 0) = Previous(first)
    BY <2>1, BackLinkIDFacts
  <2>4. Previous(first) = Genesis
    BY <2>1 DEF Previous, Genesis
  <2> QED
    BY <2>2, <2>3, <2>4, Zenon DEF Fits
<1>4. D \subseteq Block /\ first \in Block
  BY <1>2, BlockFacts, Zenon
<1>5. <<first>> \in LinkList(Genesis)
  BY <1>3, <1>4 DEF LinkList
<1>6. \A b \in D : map[b] \in LinkList(b)
  BY <1>5, LinkListFacts, Zenon
<1>7. map \in [D -> Seq(Block)] /\ DOMAIN map = D
  BY <1>4
<1>8. sbm = [s \in Server |-> map] /\ saved = sbm
  BY <1>2, Zenon DEF Init
<1> HIDE DEF map, D
<1>9. IsSkipBlockMap(map)
  BY <1>4, <1>6, <1>7 DEF IsSkipBlockMap
<1>10. MapsOK
  BY <1>8, <1>9, Zenon DEF MapsOK
<1>11. /\ DOMAIN call = Client \cup Worker
       /\ \A k \in Client \cup Worker : CallOK(call[k], sbm)
  BY NoCallOK, Zenon DEF Init
<1>12. /\ genesis \in BOOLEAN /\ acked \subseteq Block
       /\ mishaps \subseteq scenario.mishaps
       /\ \A m \in fwdSigs : ForwardOK(m)
       /\ \A m \in replies : ReplyOK(m)
  BY DEF Init
<1>13. calls \in 0..scenario.calls
  BY <1>1 DEF Init
<1> QED
  BY <1>1, <1>10, <1>11, <1>12, <1>13, Zenon DEF IInv

(* Every step keeps the invariant, and only a restart sets a map back. *)
LEMMA NextKeeps ==
    ASSUME IInv, [Next]_vars
    PROVE  /\ IInv'
           /\ \/ MapsGrow
              \/ /\ \E s \in Server : Restart(s)
                 /\ \/ \E s \in Server : Crash(s)
                    \/ \E k \in Client \cup Worker : PropagateTimeout(k)
<1>1. CASE UNCHANGED vars
  <2>1. /\ UNCHANGED <<scenario, genesis, sbm, saved, call, fwdSigs>>
        /\ UNCHANGED <<replies, acked, calls, mishaps>>
    BY <1>1, Zenon DEF vars
  <2>2. MapsGrow
    BY <2>1, UnchangedMapsGrow DEF IInv
  <2>3. /\ DOMAIN call' = Client \cup Worker
        /\ \A j \in Client \cup Worker : CallOK(call'[j], sbm')
    BY <2>1, <2>2, NoCallChanged, Zenon
  <2> QED
    BY <2>1, <2>2, <2>3, Zenon DEF IInv, MapsOK
<1>2. CASE Next
  <2>1. UNCHANGED scenario
    BY <1>2 DEF Next
  <2>2. ASSUME NEW k \in Client, NEW s \in Server,
               \/ StoreGenesis(k, s)
               \/ \E latest \in DOMAIN sbm[s], data \in Data :
                    StoreSkipBlock(k, s, latest, data)
        PROVE  IInv' /\ MapsGrow
    BY <2>1, <2>2, StoreGenesisKeeps, StoreSkipBlockKeeps, Zenon
  <2>3. ASSUME NEW k \in Worker, NEW m \in fwdSigs, ForwardSignature(k, m)
        PROVE  IInv' /\ MapsGrow
    BY <2>1, <2>3, ForwardSignatureKeeps, Zenon
  <2>4. ASSUME NEW k \in Client \cup Worker, Step(k), ~PropagateTimeout(k)
        PROVE  IInv' /\ MapsGrow
    <3>1. CASE \E q \in Server : Verify(k, q) \/ PropagateSkipBlock(k, q)
      BY <2>1, <3>1, VerifyKeeps, PropagateSkipBlockKeeps, Zenon
    <3>2. CASE BFTDone(k) \/ BFTTimeout(k)
      BY <2>1, <3>2, BFTDoneKeeps, BFTTimeoutKeeps, Zenon
    <3>3. CASE RequestHigherLinks(k) \/ StartPropagation(k)
      BY <2>1, <3>3, RequestHigherLinksKeeps, StartPropagationKeeps, Zenon
    <3>4. CASE Return(k)
      BY <2>1, <3>4, ReturnKeeps, Zenon
    <3> QED
      BY <2>4, <3>1, <3>2, <3>3, <3>4, Zenon DEF Step
  <2>5. ASSUME NEW m \in replies, GetBlockReply(m)
        PROVE  IInv' /\ MapsGrow
    BY <2>1, <2>5, GetBlockReplyKeeps, Zenon
  <2>6. CASE \/ \E m \in fwdSigs : LoseForwardSignature(m)
             \/ \E s, q \in Server : GetBlock(s, q)
    BY <2>1, <2>6, MessageKeeps, Zenon
  <2>7. CASE \/ \E s \in Server : Crash(s)
             \/ \E k \in Client \cup Worker : PropagateTimeout(k)
    BY <2>1, <2>7, RestartsKeep
  <2> QED
    BY <1>2, <2>2, <2>3, <2>4, <2>5, <2>6, <2>7, Zenon DEF Next
<1> QED
  BY <1>1, <1>2, Zenon

-----------------------------------------------------------------------------
(* Whatever calls run together, fail, are lost or are cut short by a       *)
(* restart (StoreSkipBlock, forwardSignature, startPropagation, tryLoad),  *)
(* the servers' maps and the messages under way hold only links that fit.  *)
THEOREM Invariance == Spec => []IInv
<1>1. IInv /\ [Next]_vars => IInv'
  BY NextKeeps
<1> QED
  BY <1>1, InitKeeps, PTL DEF Spec

(* For every roster, height parameters and length of the chain: a forward- *)
(* link any server holds leads to a block that has its origin among its    *)
(* back-links, so SkipBlockMap.Store and forwardSignature never join       *)
(* unrelated blocks.                                                       *)
THEOREM LinksMatchBackLinksHolds == Spec => []LinksMatchBackLinks
<1>1. IInv => LinksMatchBackLinks
  <2> SUFFICES ASSUME IInv PROVE LinksMatchBackLinks
    OBVIOUS
  <2>1. TypeOK
    <3>1. \A s \in Server : \A map \in {sbm[s], saved[s]} :
            DOMAIN map \subseteq Block /\ \A b \in DOMAIN map : map[b] \in Seq(Block)
      BY Zenon DEF IInv, MapsOK, IsSkipBlockMap
    <3>2. \A m \in fwdSigs : /\ m.to \in Server /\ m.newest \in Block
                             /\ m.level \in 1..(HeightOf(m.newest) - 1)
      BY DEF IInv, ForwardOK
    <3> QED
      BY <3>1, <3>2, Zenon DEF IInv, TypeOK
  <2>2. ASSUME NEW s \in Server, NEW b \in DOMAIN sbm[s], NEW t \in Range(sbm[s][b])
        PROVE  Fits(b, t)
    <3>1. sbm[s][b] \in LinkList(b)
      BY DEF IInv, MapsOK, IsSkipBlockMap
    <3>2. PICK i \in DOMAIN sbm[s][b] : t = sbm[s][b][i]
      BY Zenon DEF Range
    <3> QED
      BY <3>1, <3>2, Zenon DEF LinkList
  <2>3. ASSUME NEW l \in Links, NEW t \in l[2]
        PROVE  \E h \in 0..(HeightOf(t) - 1) : BackLinkID(t, h) = l[1]
    <3>1. PICK s \in Server : \E b \in DOMAIN sbm[s] : l = <<b, Range(sbm[s][b])>>
      BY DEF Links
    <3>2. PICK b \in DOMAIN sbm[s] : l = <<b, Range(sbm[s][b])>>
      BY <3>1, Zenon
    <3>3. l[1] = b /\ t \in Range(sbm[s][b])
      BY <3>2
    <3> QED
      BY <2>2, <3>3, Zenon DEF Fits
  <2> QED
    BY <2>1, <2>3 DEF LinksMatchBackLinks
<1> QED
  BY <1>1, Invariance, PTL

(* Unless a server restarts, SkipBlockMap.Store and the signing of links   *)
(* only ever add to what a server's map says of a block.                   *)
THEOREM LinksOnlyGrowHolds == Spec => LinksOnlyGrow
<1>1. IInv /\ [Next]_vars =>
        [(\A s \in Server : ~ Restart(s)) =>
           \A s \in Server : \A b \in DOMAIN sbm[s] :
             b \in DOMAIN sbm'[s] /\ Precedes(sbm[s][b], sbm'[s][b])]_vars
  BY NextKeeps DEF MapsGrow, Grows
<1> QED
  BY <1>1, Invariance, PTL DEF Spec, LinksOnlyGrow
=============================================================================
