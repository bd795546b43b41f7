-------------------------- MODULE Propagate_proofs --------------------------
(***************************************************************************)
(* Proofs about Propagate, for every tree and every set of servers that    *)
(* may crash, time out or fail to store: the root returns only the full    *)
(* count, and no reply is counted twice or lost between two live nodes.    *)
(***************************************************************************)
EXTENDS Propagate, FiniteSetTheorems, TLAPS

(* The root is a node and every other node has a parent. *)
LEMMA TreeTypes == /\ Root \in Node
                   /\ \A n \in Node : n # Root => Parent[n] \in Node
BY TreeAssumption

(* A child differs from its parent and is not the root. *)
LEMMA ChildFacts ==
    ASSUME NEW n \in Node
    PROVE  /\ \A c \in Children(n) : /\ c \in Node /\ c # Root /\ c # n
                                     /\ Parent[c] = n
           /\ n # Root => /\ Parent[n] \in Node /\ Parent[n] # n
                          /\ n \in Children(Parent[n])
<1>1. \A m \in Node : m \in Subtree[m]
  BY TreeAssumption
<1>2. \A m \in Node : \A c \in Children(m) : m \notin Subtree[c]
  BY TreeAssumption
<1>3. \A m \in Node : \A c \in Children(m) : c \in Node /\ c # Root /\ Parent[c] = m
  BY DEF Children
<1>4. n # Root => Parent[n] \in Node /\ n \in Children(Parent[n])
  BY TreeTypes DEF Children
<1> QED
  BY <1>1, <1>2, <1>3, <1>4

(* The nodes below n are those of the subtrees of its children. *)
LEMMA SubtreeFacts ==
    ASSUME NEW n \in Node
    PROVE  /\ Subtree[n] \subseteq Node
           /\ n \in Subtree[n]
           /\ Below(n) = UNION {Subtree[c] : c \in Children(n)}
           /\ \A c \in Children(n) : Subtree[c] \subseteq Below(n)
<1>1. Subtree[n] = {n} \cup UNION {Subtree[c] : c \in Children(n)}
  BY TreeAssumption
<1>2. \A c \in Children(n) : n \notin Subtree[c]
  BY TreeAssumption
<1>3. Subtree[n] \subseteq Node
  BY TreeAssumption
<1> QED
  BY <1>1, <1>2, <1>3 DEF Below

(* The subtrees of two children have no node in common. *)
LEMMA SiblingsApart ==
    ASSUME NEW n \in Node
    PROVE  \A c, d \in Children(n) : c # d => Subtree[c] \cap Subtree[d] = {}
BY TreeAssumption

(* The nodes below n are finitely many, one less than its subtree has.     *)
LEMMA BelowFacts ==
    ASSUME NEW n \in Node
    PROVE  /\ IsFiniteSet(Below(n))
           /\ Cardinality(Below(n)) = Cardinality(Subtree[n]) - 1
<1>1. Subtree[n] \in SUBSET Node /\ n \in Subtree[n]
  BY SubtreeFacts
<1>2. IsFiniteSet(Subtree[n])
  BY <1>1, TreeAssumption, FS_Subset
<1>3. /\ IsFiniteSet(Subtree[n] \ {n})
      /\ Cardinality(Subtree[n] \ {n}) = Cardinality(Subtree[n]) - 1
  BY <1>1, <1>2, FS_RemoveElement
<1> QED
  BY <1>3 DEF Below

(* Every step of Dispatch keeps the type invariant. *)
LEMMA TypeStep == TypeOK /\ [Next]_vars => TypeOK'
<1> SUFFICES ASSUME TypeOK, [Next]_vars PROVE TypeOK'
  OBVIOUS
<1>0. \A S \in SUBSET Node : Cardinality(S) \in Nat
  BY TreeAssumption, FS_Subset, FS_CardinalityType
<1> USE TreeTypes DEF TypeOK
<1>1. ASSUME NEW n \in Node, HandleData(n) PROVE TypeOK'
  <2>1. onData' \in [Node -> {"none", "stored", "rejected"}]
    BY <1>1 DEF HandleData
  <2>2. channelReply' \in [Node -> SUBSET Node]
    BY <1>1 DEF HandleData, ReplyToParent, IsRoot
  <2>3. channelSD' \in [Node -> BOOLEAN]
    <3>1. CASE IsLeaf(n)
      BY <1>1, <3>1, Zenon DEF HandleData
    <3>2. CASE ~IsLeaf(n)
      <4>1. PICK R : channelSD' = [c \in Node |-> IF c = n THEN FALSE
                                                  ELSE c \in R \/ channelSD[c]]
        BY <1>1, <3>2, Zenon DEF HandleData
      <4> QED
        BY <4>1, Zenon
    <3> QED
      BY <3>1, <3>2
  <2>4. process' \in [Node -> {"running", "returned", "exited"}]
    BY <1>1, Zenon DEF HandleData, Finish
  <2>5. result' \in Nat
    <3>1. result' \in {result, 0 + 1}
      BY <1>1, Zenon DEF HandleData, Finish
    <3> QED
      BY <3>1
  <2>6. received' \in [Node -> SUBSET Node]
    BY <1>1 DEF HandleData
  <2> QED
    BY <2>1, <2>2, <2>3, <2>4, <2>5, <2>6
<1>2. ASSUME NEW n \in Node, HandleReply(n) PROVE TypeOK'
  <2>1. PICK origin \in channelReply[n] : HandleReply(n)!2!(origin)
    BY <1>2, Zenon DEF HandleReply
  <2> DEFINE count == received[n] \cup {origin}
  <2>2. origin \in Node /\ count \in SUBSET Node
    OBVIOUS
  <2>3. received' = [received EXCEPT ![n] = count]
    BY <2>1
  <2>4. received' \in [Node -> SUBSET Node]
    BY <2>2, <2>3
  <2>5. channelReply' \in [Node -> SUBSET Node]
    BY <2>1, <2>2 DEF ReplyToParent, IsRoot
  <2>6. process' \in [Node -> {"running", "returned", "exited"}]
    BY <2>1 DEF Finish
  <2>7. Cardinality(count) \in Nat
    BY <1>0, <2>2
  <2>8. result' \in Nat
    BY <2>1, <2>7 DEF Finish
  <2> QED
    BY <1>2, <2>4, <2>5, <2>6, <2>8, Zenon DEF HandleReply
<1>3. ASSUME NEW n \in Node, Timeout(n) \/ Crash(n) PROVE TypeOK'
  BY <1>3 DEF Timeout, Crash
<1>4. CASE UNCHANGED vars
  BY <1>4 DEF vars
<1> QED
  BY <1>1, <1>2, <1>3, <1>4 DEF Next, Dispatch

(* What a parent sees of a node is its own reply and those it counted.     *)
LEMMA DataStep ==
    ASSUME IInv, TypeOK', NEW n \in Node, HandleData(n)
    PROVE  IInv'
<1> USE DEF IInv
<1>0. Root \in Node /\ Subtree[Root] = Node
  BY TreeTypes, TreeAssumption
<1>1. ~Handled(n) /\ (n # Root => Handled(Parent[n]))
  BY DEF HandleData, DataDown
<1>2. Handled(n)' /\ \A q \in Node : q # n => onData'[q] = onData[q]
  BY DEF HandleData, Handled, TypeOK
<1>3. \A q \in Node : /\ Handled(q) => Handled(q)'
                      /\ q # n => (Handled(q)' <=> Handled(q))
  BY <1>2 DEF Handled
<1>4. /\ received' = received
      /\ channelReply' = IF n = Root THEN channelReply
                         ELSE [channelReply EXCEPT ![Parent[n]] = @ \cup {n}]
  BY DEF HandleData, ReplyToParent, IsRoot
<1>5. \A q \in Node : n # Root /\ q = Parent[n] => channelReply'[q] = channelReply[q] \cup {n}
  BY <1>4 DEF TypeOK
<1>6. \A q \in Node : (n = Root \/ q # Parent[n]) => channelReply'[q] = channelReply[q]
  BY <1>4 DEF TypeOK
<1>7. \A q \in Node : n \notin channelReply[q] \cup received[q]
  BY <1>1 DEF RepliesUp
<1>8. DataDown'
  <2>1. /\ ~channelSD'[n]
        /\ \A q \in Node : q # n /\ channelSD'[q] => channelSD[q] \/ q \in Children(n)
    <3>1. CASE IsLeaf(n)
      BY <3>1 DEF HandleData, TypeOK
    <3>2. CASE ~IsLeaf(n)
      <4>1. PICK R \in Reached(n) :
              channelSD' = [c \in Node |-> IF c = n THEN FALSE
                                           ELSE c \in R \/ channelSD[c]]
        BY <3>2, Zenon DEF HandleData
      <4>2. R \subseteq Children(n)
        BY DEF Reached
      <4> QED
        BY <4>1, <4>2, Zenon
    <3> QED
      BY <3>1, <3>2
  <2>2. ASSUME NEW q \in Node, channelSD'[q] PROVE ~Handled(q)'
    <3>1. q # n
      BY <2>1, <2>2
    <3>2. CASE channelSD[q]
      BY <1>3, <3>1, <3>2 DEF DataDown
    <3>3. CASE q \in Children(n)
      <4>1. q # Root /\ Parent[q] = n
        BY <3>3, ChildFacts
      <4>2. ~Handled(q)
        BY <1>1, <4>1 DEF DataDown
      <4> QED
        BY <1>3, <3>1, <4>2
    <3> QED
      BY <2>1, <2>2, <3>1, <3>2, <3>3
  <2>3. ASSUME NEW q \in Node \ {Root}, channelSD'[q] \/ Handled(q)'
        PROVE  Handled(Parent[q])'
    <3>0. Parent[q] \in Node
      BY TreeTypes
    <3>1. CASE q = n
      BY <1>1, <1>3, <3>0, <3>1
    <3>2. CASE q # n /\ (channelSD[q] \/ Handled(q))
      BY <1>3, <3>0, <3>2 DEF DataDown
    <3>3. CASE q \in Children(n)
      <4>1. Parent[q] = n
        BY <3>3, ChildFacts
      <4> QED
        BY <1>2, <4>1
    <3> QED
      BY <1>3, <2>1, <2>3, <3>1, <3>2, <3>3
  <2> QED
    BY <2>2, <2>3 DEF DataDown
<1>9. RepliesUp'
  <2> SUFFICES ASSUME NEW q \in Node, NEW m \in channelReply'[q] \cup received'[q]
               PROVE  m \in Below(q) /\ Handled(m)' /\ Handled(q)'
    BY DEF RepliesUp
  <2>1. CASE m \in channelReply[q] \cup received[q]
    <3>1. m \in Below(q) /\ Handled(m) /\ Handled(q)
      BY <2>1 DEF RepliesUp
    <3>2. m \in Node
      BY <3>1, SubtreeFacts DEF Below
    <3> QED
      BY <1>3, <3>1, <3>2
  <2>2. CASE n # Root /\ q = Parent[n] /\ m = n
    <3>1. n \in Children(q)
      BY <2>2, ChildFacts
    <3>2. n \in Subtree[n] /\ Subtree[n] \subseteq Below(q)
      BY <3>1, SubtreeFacts
    <3> QED
      BY <1>1, <1>2, <1>3, <2>2, <3>2
  <2> QED
    BY <1>4, <1>5, <1>6, <2>1, <2>2
<1>10. CountedOnce'
  <2> SUFFICES ASSUME NEW q \in Node
               PROVE  /\ channelReply'[q] \cap received[q] = {}
                      /\ \A c \in Children(q) :
                           Subtree[c] \cap (channelReply'[q] \cup received[q]) =
                             received[c] \cup (IF onData'[c] = "none" THEN {} ELSE {c})
    BY <1>4 DEF CountedOnce
  <2>1. channelReply'[q] \cap received[q] = {}
    BY <1>5, <1>6, <1>7 DEF CountedOnce
  <2>2. ASSUME NEW c \in Children(q), c # n
        PROVE  Subtree[c] \cap (channelReply'[q] \cup received[q]) =
                 received[c] \cup (IF onData'[c] = "none" THEN {} ELSE {c})
    <3>1. c \in Node /\ c # Root /\ Parent[c] = q
      BY ChildFacts
    <3>2. n # Root /\ q = Parent[n] => n \notin Subtree[c]
      <4> SUFFICES ASSUME n # Root, q = Parent[n] PROVE n \notin Subtree[c]
        OBVIOUS
      <4>1. n \in Children(q)
        BY ChildFacts
      <4>2. Subtree[n] \cap Subtree[c] = {} /\ n \in Subtree[n]
        BY <2>2, <4>1, SiblingsApart, SubtreeFacts
      <4> QED
        BY <4>2
    <3>3. Subtree[c] \cap (channelReply'[q] \cup received[q])
            = Subtree[c] \cap (channelReply[q] \cup received[q])
      BY <1>5, <1>6, <3>2
    <3>4. onData'[c] = onData[c]
      BY <1>2, <2>2, <3>1
    <3> QED
      BY <3>3, <3>4 DEF CountedOnce
  <2>3. ASSUME n \in Children(q)
        PROVE  Subtree[n] \cap (channelReply'[q] \cup received[q]) =
                 received[n] \cup (IF onData'[n] = "none" THEN {} ELSE {n})
    <3>1. n # Root /\ q = Parent[n]
      BY <2>3, ChildFacts
    <3>2. channelReply'[q] = channelReply[q] \cup {n}
      BY <1>5, <3>1
    <3>3. n \in Subtree[n]
      BY SubtreeFacts
    <3>4. Subtree[n] \cap (channelReply[q] \cup received[q]) = received[n]
      BY <1>1, <2>3 DEF CountedOnce, Handled
    <3>5. onData'[n] # "none"
      BY <1>2 DEF Handled
    <3> QED
      BY <3>2, <3>3, <3>4, <3>5
  <2> QED
    BY <2>1, <2>2, <2>3
<1>11. Result'
  <2>1. CASE n = Root /\ IsLeaf(n)
    <3>1. Below(Root) = {}
      <4>1. Below(Root) = UNION {Subtree[c] : c \in Children(Root)}
        BY <1>0, SubtreeFacts
      <4>2. Children(Root) = {}
        BY <2>1 DEF IsLeaf
      <4> QED
        BY <4>1, <4>2
    <3>2. Node = {Root}
      BY <1>0, <3>1 DEF Below
    <3>3. Cardinality(Node) = 1
      BY <3>2, FS_Singleton
    <3>4. received[Root] = {}
      BY <1>0, <3>1 DEF RepliesUp
    <3>5. result' = 1
      BY <2>1 DEF HandleData, Finish, IsRoot
    <3> QED
      BY <1>2, <1>4, <2>1, <3>2, <3>3, <3>4, <3>5 DEF Result
  <2>2. CASE ~(n = Root /\ IsLeaf(n))
    <3>1. result' = result
      BY <2>2, Zenon DEF HandleData, Finish, IsRoot
    <3> QED
      BY <1>0, <1>3, <1>4, <3>1 DEF Result
  <2> QED
    BY <2>1, <2>2
<1> QED
  BY <1>8, <1>9, <1>10, <1>11

(* A node that takes a reply of one of its children keeps the invariant. *)
LEMMA ReplyStep ==
    ASSUME IInv, TypeOK', NEW n \in Node, HandleReply(n)
    PROVE  IInv'
<1> USE DEF IInv
<1>0. /\ Root \in Node /\ Below(Root) = Node \ {Root}
      /\ SubtreeCount(Root) = Cardinality(Node) - 1
  BY TreeTypes, TreeAssumption DEF Below, SubtreeCount
<1>a. \A S \in SUBSET Below(Root) :
        Cardinality(S) = SubtreeCount(Root) => S = Below(Root)
  <2>1. IsFiniteSet(Below(Root)) /\ Cardinality(Below(Root)) = SubtreeCount(Root)
    BY <1>0, BelowFacts DEF SubtreeCount
  <2> QED
    BY <2>1, FS_Subset
<1>b. Cardinality(Node) \in Nat
  BY TreeAssumption, FS_CardinalityType
<1>1. PICK origin \in channelReply[n] : HandleReply(n)!2!(origin)
  BY Zenon DEF HandleReply
<1>2. channelSD' = channelSD /\ onData' = onData
  BY DEF HandleReply
<1>3. origin \in Below(n) /\ origin \in Subtree[n] /\ origin # n
  BY DEF RepliesUp, Below
<1>4. origin \in Node /\ Handled(origin) /\ Handled(n)
  BY DEF RepliesUp, TypeOK
<1>5. origin \notin received[n]
  BY DEF CountedOnce
<1>6. /\ received'[n] = received[n] \cup {origin}
      /\ \A q \in Node : q # n => received'[q] = received[q]
  BY <1>1 DEF TypeOK
<1>7. channelReply' =
        IF n = Root THEN [channelReply EXCEPT ![n] = @ \ {origin}]
        ELSE [[channelReply EXCEPT ![n] = @ \ {origin}]
                EXCEPT ![Parent[n]] = @ \cup {origin}]
  BY <1>1 DEF ReplyToParent, IsRoot
<1>8. n # Root => Parent[n] \in Node /\ Parent[n] # n /\ n \in Children(Parent[n])
  BY ChildFacts
<1>9. channelReply'[n] = channelReply[n] \ {origin}
  BY <1>7, <1>8 DEF TypeOK
<1>10. \A q \in Node : n # Root /\ q = Parent[n] =>
         channelReply'[q] = channelReply[q] \cup {origin}
  BY <1>7, <1>8 DEF TypeOK
<1>11. \A q \in Node : q # n /\ (n = Root \/ q # Parent[n]) =>
         channelReply'[q] = channelReply[q]
  BY <1>7, <1>8 DEF TypeOK
<1>12. \A q \in Node : n # Root /\ q = Parent[n] =>
         origin \notin channelReply[q] \cup received[q]
  <2> SUFFICES ASSUME NEW q \in Node, n # Root, q = Parent[n]
               PROVE  origin \notin channelReply[q] \cup received[q]
    OBVIOUS
  <2>1. Subtree[n] \cap (channelReply[q] \cup received[q]) =
          received[n] \cup (IF onData[n] = "none" THEN {} ELSE {n})
    BY <1>8 DEF CountedOnce
  <2> QED
    BY <1>3, <1>5, <2>1
<1>13. DataDown'
  BY <1>2 DEF DataDown, Handled
<1>14. RepliesUp'
  <2> SUFFICES ASSUME NEW q \in Node, NEW m \in channelReply'[q] \cup received'[q]
               PROVE  m \in Below(q) /\ Handled(m) /\ Handled(q)
    BY <1>2 DEF RepliesUp, Handled
  <2>1. CASE m \in channelReply[q] \cup received[q]
    BY <2>1 DEF RepliesUp
  <2>2. CASE m = origin /\ q = n
    BY <1>3, <1>4, <2>2
  <2>3. CASE m = origin /\ n # Root /\ q = Parent[n]
    <3>1. Subtree[n] \subseteq Below(q)
      BY <1>8, <2>3, SubtreeFacts
    <3>2. Handled(q)
      BY <1>4, <2>3, Zenon DEF DataDown
    <3> QED
      BY <1>3, <1>4, <2>3, <3>1, <3>2
  <2> QED
    BY <1>6, <1>9, <1>10, <1>11, <2>1, <2>2, <2>3
<1>15. CountedOnce'
  <2> SUFFICES ASSUME NEW q \in Node
               PROVE  /\ channelReply'[q] \cap received'[q] = {}
                      /\ \A c \in Children(q) :
                           Subtree[c] \cap (channelReply'[q] \cup received'[q]) =
                             received'[c] \cup (IF onData[c] = "none" THEN {} ELSE {c})
    BY <1>2 DEF CountedOnce
  <2>1. channelReply[q] \cap received[q] = {}
    BY DEF CountedOnce
  <2>2. CASE q = n
    <3>1. channelReply'[q] \cap received'[q] = {}
      BY <1>6, <1>9, <2>1, <2>2
    <3>2. channelReply'[q] \cup received'[q] = channelReply[q] \cup received[q]
      BY <1>6, <1>9, <2>2
    <3>3. \A c \in Children(q) : received'[c] = received[c]
      BY <1>6, <2>2, ChildFacts
    <3> QED
      BY <3>1, <3>2, <3>3 DEF CountedOnce
  <2>3. CASE n # Root /\ q = Parent[n]
    <3>1. q # n /\ n \in Children(q) /\ received'[q] = received[q]
      BY <1>6, <1>8, <2>3
    <3>2. channelReply'[q] = channelReply[q] \cup {origin}
      BY <1>10, <2>3
    <3>3. channelReply'[q] \cap received'[q] = {}
      BY <1>12, <2>1, <2>3, <3>1, <3>2
    <3>4. ASSUME NEW c \in Children(q), c # n
          PROVE  Subtree[c] \cap (channelReply'[q] \cup received'[q]) =
                   received'[c] \cup (IF onData[c] = "none" THEN {} ELSE {c})
      <4>1. Subtree[n] \cap Subtree[c] = {}
        BY <3>1, <3>4, SiblingsApart
      <4>2. c \in Node /\ received'[c] = received[c]
        BY <1>6, <3>4, ChildFacts
      <4>3. Subtree[c] \cap (channelReply'[q] \cup received'[q])
              = Subtree[c] \cap (channelReply[q] \cup received[q])
        BY <1>3, <3>1, <3>2, <4>1
      <4> QED
        BY <4>2, <4>3 DEF CountedOnce
    <3>5. Subtree[n] \cap (channelReply'[q] \cup received'[q]) =
            received'[n] \cup (IF onData[n] = "none" THEN {} ELSE {n})
      <4>1. Subtree[n] \cap (channelReply[q] \cup received[q]) =
              received[n] \cup (IF onData[n] = "none" THEN {} ELSE {n})
        BY <3>1 DEF CountedOnce
      <4> QED
        BY <1>3, <1>6, <3>1, <3>2, <4>1
    <3> QED
      BY <3>3, <3>4, <3>5
  <2>4. CASE q # n /\ (n = Root \/ q # Parent[n])
    <3>1. channelReply'[q] = channelReply[q] /\ received'[q] = received[q]
      BY <1>6, <1>11, <2>4
    <3>2. \A c \in Children(q) : c # n /\ received'[c] = received[c]
      BY <1>6, <2>4, ChildFacts
    <3> QED
      BY <2>1, <3>1, <3>2 DEF CountedOnce
  <2> QED
    BY <2>2, <2>3, <2>4
<1>16. Result'
  <2>1. CASE n = Root /\ Cardinality(received[n] \cup {origin}) = SubtreeCount(n)
    <3>1. received[n] \cup {origin} = Below(Root)
      <4>1. received[n] \cup {origin} \in SUBSET Below(Root)
        BY <1>3, <2>1 DEF RepliesUp
      <4> QED
        BY <1>a, <2>1, <4>1
    <3>2. result' = SubtreeCount(Root) + 1
      BY <1>1, <2>1 DEF Finish, IsRoot
    <3>3. result' = Cardinality(Node)
      BY <1>0, <1>b, <3>2
    <3> QED
      BY <1>0, <1>2, <1>4, <1>6, <2>1, <3>1, <3>3 DEF Result, Handled
  <2>2. CASE n = Root /\ Cardinality(received[n] \cup {origin}) # SubtreeCount(n)
    <3>1. result' = result
      BY <1>1, <2>2
    <3>2. result = 0
      BY <1>0, <1>3, <1>5, <2>2 DEF Result
    <3> QED
      BY <3>1, <3>2 DEF Result
  <2>3. CASE n # Root
    <3>1. result' = result
      BY <1>1, <2>3 DEF Finish, IsRoot
    <3> QED
      BY <1>0, <1>2, <1>6, <2>3, <3>1 DEF Result, Handled
  <2> QED
    BY <2>1, <2>2, <2>3
<1> QED
  BY <1>13, <1>14, <1>15, <1>16

(* Every step of Dispatch keeps the invariant. *)
LEMMA InvStep == IInv /\ [Next]_vars => IInv'
<1> SUFFICES ASSUME IInv, [Next]_vars PROVE IInv'
  OBVIOUS
<1>1. TypeOK'
  BY TypeStep DEF IInv
<1>2. ASSUME UNCHANGED <<channelSD, channelReply, received, onData, result>>
      PROVE  IInv'
  BY <1>1, <1>2 DEF IInv, DataDown, RepliesUp, CountedOnce, Result, Handled
<1>3. ASSUME NEW n \in Node, HandleData(n) PROVE IInv'
  BY <1>1, <1>3, DataStep
<1>4. ASSUME NEW n \in Node, HandleReply(n) PROVE IInv'
  BY <1>1, <1>4, ReplyStep
<1>5. ASSUME NEW n \in Node, Timeout(n) \/ Crash(n) PROVE IInv'
  BY <1>2, <1>5 DEF Timeout, Crash
<1>6. CASE UNCHANGED vars
  BY <1>2, <1>6 DEF vars
<1> QED
  BY <1>3, <1>4, <1>5, <1>6 DEF Next, Dispatch

(* The inductive invariant holds on every tree, whatever fails. *)
THEOREM Invariance == Spec => []IInv
<1>1. Init => IInv
  <2> SUFFICES ASSUME Init PROVE IInv
    OBVIOUS
  <2>1. TypeOK
    BY TreeTypes DEF Init, TypeOK
  <2>2. DataDown
    BY Zenon DEF Init, DataDown, Handled
  <2>3. RepliesUp
    BY DEF Init, RepliesUp
  <2>4. CountedOnce
    BY ChildFacts DEF Init, CountedOnce
  <2>5. Result
    BY DEF Init, Result
  <2> QED
    BY <2>1, <2>2, <2>3, <2>4, <2>5 DEF IInv
<1> QED
  BY <1>1, InvStep, PTL DEF Spec

(* Every reply is counted once on its way to the root. *)
THEOREM RepliesCountedOnce == Spec => []CountedOnce
<1>1. IInv => CountedOnce
  BY DEF IInv
<1> QED
  BY <1>1, Invariance, PTL

(* PropagationFunc returns only the size of the roster, and only after     *)
(* every server ran its storing function.                                  *)
THEOREM ReturnsFullCount == Spec => []ReturnsWhenAllHandled
<1>1. IInv => ReturnsWhenAllHandled
  <2> SUFFICES ASSUME IInv, result # 0
               PROVE  /\ result = Cardinality(Node)
                      /\ \A n \in Node : onData[n] # "none"
    BY DEF ReturnsWhenAllHandled
  <2>1. /\ result = Cardinality(Node) /\ Handled(Root)
        /\ received[Root] = Node \ {Root}
    BY DEF IInv, Result
  <2>2. \A n \in received[Root] : Handled(n)
    BY TreeTypes DEF IInv, RepliesUp
  <2> QED
    BY <2>1, <2>2 DEF Handled
<1> QED
  BY <1>1, Invariance, PTL
=============================================================================
