---------------------------- MODULE Gossip_proofs ----------------------------
(***************************************************************************)
(* Proofs about module Gossip, for every tree, every order of the values   *)
(* and every number of picks and of timeouts: the root elects one value    *)
(* and everybody is told that one, and the protocol ends from the leaves   *)
(* up to the root.                                                         *)
(*                                                                         *)
(* The steps are taken apart by what they leave alone: gossiping does not  *)
(* touch the election, the election does not touch the counts.             *)
(***************************************************************************)
EXTENDS Gossip, FiniteSetTheorems, SequenceTheorems, TLAPS

(* The root is a node and every other node has a parent. *)
LEMMA TreeTypes == /\ Root \in Node
                   /\ \A n \in Node : n # Root => Parent[n] \in Node
BY TreeAssumption

(* A child differs from its parent and is not the root. *)
LEMMA ChildFacts ==
    ASSUME NEW n \in Node
    PROVE  /\ \A c \in Children(n) : /\ c \in Node /\ c # Root /\ c # n
                                     /\ Parent[c] = n
           /\ n # Root => /\ Parent[n] \in Node /\ Parent[n] # n
                          /\ n \in Children(Parent[n])
<1>1. \A m \in Node : m \in Subtree[m]
  BY TreeAssumption
<1>2. \A m \in Node : \A c \in Children(m) : m \notin Subtree[c]
  BY TreeAssumption
<1>3. \A m \in Node : \A c \in Children(m) : c \in Node /\ c # Root /\ Parent[c] = m
  BY DEF Children
<1>4. n # Root => Parent[n] \in Node /\ n \in Children(Parent[n])
  BY TreeTypes DEF Children
<1> QED
  BY <1>1, <1>2, <1>3, <1>4

(* The nodes below n are those of the subtrees of its children. *)
LEMMA SubtreeFacts ==
    ASSUME NEW n \in Node
    PROVE  /\ Subtree[n] \subseteq Node
           /\ n \in Subtree[n]
           /\ Below(n) = UNION {Subtree[c] : c \in Children(n)}
           /\ \A c \in Children(n) : Subtree[c] \subseteq Below(n)
<1>1. Subtree[n] = {n} \cup UNION {Subtree[c] : c \in Children(n)}
  BY TreeAssumption
<1>2. \A c \in Children(n) : n \notin Subtree[c]
  BY TreeAssumption
<1>3. Subtree[n] \subseteq Node
  BY TreeAssumption
<1> QED
  BY <1>1, <1>2, <1>3 DEF Below

endState == <<dispatch, told, valueFound, sentFinished, finished>>

(* Children of nodes are finite sets, so that they can be counted. *)
LEMMA ChildrenFinite ==
    ASSUME NEW n \in Node
    PROVE  /\ IsFiniteSet(Children(n))
           /\ Cardinality(Children(n)) \in Nat
           /\ \A S \in SUBSET Children(n) :
                /\ IsFiniteSet(S) /\ Cardinality(S) \in Nat
                /\ Cardinality(S) <= Cardinality(Children(n))
                /\ Cardinality(S) = Cardinality(Children(n)) => S = Children(n)
<1>1. Children(n) \subseteq Node
  BY DEF Children
<1>2. IsFiniteSet(Children(n))
  BY <1>1, TreeAssumption, FS_Subset
<1> QED
  BY <1>2, FS_Subset, FS_CardinalityType

(* gossip sends values of nodes, and to nodes that are there. *)
LEMMA SendGossipTypes ==
    ASSUME incoming \in [Node -> SUBSET Node], NEW n, NEW v \in Node,
           SendGossip(n, v)
    PROVE  incoming' \in [Node -> SUBSET Node]
<1>1. PICK S : incoming' = [m \in Node |-> IF m \in S /\ Delivers(m)
                                           THEN incoming[m] \cup {v}
                                           ELSE incoming[m]]
  BY Zenon DEF SendGossip
<1> QED
  BY <1>1

(* The initial state satisfies the invariant. *)
LEMMA InitKeeps == Init => IInv
<1> SUFFICES ASSUME Init PROVE IInv
  OBVIOUS
<1> USE DEF Init
<1>1. Types
  <2>1. Cardinality(Children(Root)) \in Nat
    BY TreeTypes, ChildrenFinite
  <2> QED
    BY <2>1 DEF Types, NoCount, NoMax
<1>2. Elected
  BY DEF Elected, NoMax
<1>3. ToldDownward
  BY TreeTypes DEF ToldDownward
<1>4. \A n \in Node : ~Ended(n)
  BY DEF Ended
<1>5. CountedOnce
  <2>1. \A n \in Node : Reported(n) = {}
    BY <1>4 DEF Reported, Children
  <2> QED
    BY <2>1, FS_EmptySet, Zenon DEF CountedOnce, NoCount
<1>6. DoneBottomUp
  BY <1>4 DEF DoneBottomUp, Ended
<1> QED
  BY <1>1, <1>2, <1>3, <1>5, <1>6 DEF IInv

(* The end of the protocol depends only on endState. *)
LEMMA EndUntouched ==
    ASSUME IInv, UNCHANGED endState
    PROVE  ToldDownward' /\ CountedOnce' /\ DoneBottomUp'
<1>1. \A n : Ended(n)' = Ended(n)
  BY DEF Ended, endState
<1>2. \A n : Reported(n)' = Reported(n)
  BY <1>1 DEF Reported, endState
<1> QED
  BY <1>1, <1>2 DEF IInv, ToldDownward, CountedOnce, DoneBottomUp, endState

(* Steps of the gossip itself: values move, and the root may forget what   *)
(* it has counted.                                                         *)
LEMMA GossipStep ==
    ASSUME IInv, UNCHANGED <<endState, newRootValue, found>>,
           lowest' \in [Node -> Node], incoming' \in [Node -> SUBSET Node],
           \/ UNCHANGED <<counter, max>>
           \/ counter' = NoCount /\ max' = NoMax
    PROVE  IInv'
<1>1. ToldDownward' /\ CountedOnce' /\ DoneBottomUp'
  BY EndUntouched
<1>2. Types'
  BY DEF IInv, Types, endState, NoCount, NoMax
<1>3. Elected'
  BY DEF IInv, Elected, endState, NoMax
<1> QED
  BY <1>1, <1>2, <1>3 DEF IInv

(* Start and the timeouts only gossip. *)
LEMMA StartKeeps == IInv /\ Start => IInv'
<1> SUFFICES ASSUME IInv, Start PROVE IInv'
  OBVIOUS
<1>1. incoming' \in [Node -> SUBSET Node]
  BY TreeTypes, SendGossipTypes DEF Start, IInv, Types
<1> QED
  BY <1>1, GossipStep, Zenon
  DEF Start, IInv, Types, rootVars, endVars, endState

(* A timeout, at which a node gossips its lowest value again, keeps it. *)
LEMMA TimeoutKeeps ==
    ASSUME IInv, NEW n \in Node, Timeout(n)
    PROVE  IInv'
<1>1. incoming' \in [Node -> SUBSET Node]
  BY SendGossipTypes DEF Timeout, IInv, Types
<1> QED
  BY <1>1, GossipStep, Zenon DEF Timeout, IInv, Types, endVars, endState

(* A message that makes an instance ends nothing. *)
LEMMA CreatedKeepsEnded ==
    ASSUME dispatch \in [Node -> {"new", "running", "stopping", "stopped"}],
           NEW n \in Node, Delivers(n),
           dispatch' = [dispatch EXCEPT ![n] = Created(n)]
    PROVE  /\ dispatch' \in [Node -> {"new", "running", "stopping", "stopped"}]
           /\ \A m \in Node : Ended(m)' = Ended(m)
BY DEF Delivers, Created, Ended

(* If the same nodes are done as before and no Finished moves, the counts  *)
(* are what they were.                                                     *)
LEMMA CountsUntouched ==
    ASSUME IInv, \A m \in Node : Ended(m)' = Ended(m),
           UNCHANGED <<sentFinished, finished>>
    PROVE  CountedOnce'
<1>1. \A n \in Node : Reported(n)' = Reported(n)
  BY DEF Reported, Children
<1>2. \A m \in sentFinished : m \in Node
  BY DEF IInv, Types
<1> QED
  BY <1>1, <1>2 DEF IInv, CountedOnce

(* A value arrives. *)
LEMMA ReceiveValueKeeps ==
    ASSUME IInv, NEW n \in Node, ReceiveValue(n)
    PROVE  IInv'
<1> USE DEF IInv
<1>1. UNCHANGED <<newRootValue, counter, max, found, valueFound, told,
                  sentFinished, finished>>
  BY DEF ReceiveValue, rootVars, endVars
<1>2. PICK v \in incoming[n] :
        /\ incoming' = [incoming EXCEPT ![n] = @ \ {v}]
        /\ lowest' = [lowest EXCEPT ![n] = IF Less(v, @) THEN v ELSE @]
  BY Zenon DEF ReceiveValue
<1>3. /\ dispatch' \in [Node -> {"new", "running", "stopping", "stopped"}]
      /\ \A m \in Node : Ended(m)' = Ended(m)
  BY CreatedKeepsEnded, Zenon DEF ReceiveValue, Types
<1>4. /\ incoming' \in [Node -> SUBSET Node]
      /\ lowest' \in [Node -> Node]
  BY <1>2, Zenon DEF Types
<1>5. Types'
  BY <1>1, <1>3, <1>4, Zenon DEF Types
<1>6. Elected' /\ ToldDownward'
  BY <1>1, Zenon DEF Elected, ToldDownward
<1>7. CountedOnce'
  BY <1>1, <1>3, CountsUntouched
<1>8. DoneBottomUp'
  BY <1>1, <1>3, SubtreeFacts DEF DoneBottomUp, Ended
<1> QED
  BY <1>5, <1>6, <1>7, <1>8

(* The root's handler puts a value on newRootValue, or waits with it: the  *)
(* channel holds its capacity and one value at most.                       *)
LEMMA ReceiveRootValueKeeps == IInv /\ ReceiveRootValue => IInv'
<1> SUFFICES ASSUME IInv, ReceiveRootValue PROVE IInv'
  OBVIOUS
<1>1. UNCHANGED <<endState, counter, max, found, lowest, incoming>>
  BY DEF ReceiveRootValue, endVars, endState
<1>2. PICK v \in Node : newRootValue' = Append(newRootValue, v)
  BY DEF ReceiveRootValue
<1>3. newRootValue \in Seq(Node) /\ Len(newRootValue) <= Cardinality(Children(Root))
  BY DEF ReceiveRootValue, HandlerFree, IInv, Types
<1>4. Cardinality(Children(Root)) \in Nat
  BY TreeTypes, ChildrenFinite
<1>5. /\ newRootValue' \in Seq(Node)
      /\ Len(newRootValue') <= Cardinality(Children(Root)) + 1
  BY <1>2, <1>3, <1>4
<1>6. Types'
  BY <1>1, <1>5, Zenon DEF IInv, Types, endState
<1>7. Elected'
  BY <1>1, Zenon DEF IInv, Elected, endState
<1> QED
  BY <1>1, <1>6, <1>7, EndUntouched DEF IInv

(* valueCounter.Put: the maximum is a value that was put. *)
LEMMA PutFacts ==
    ASSUME counter \in [Node -> Nat],
           max \in [value : Node \cup {None}, count : Nat],
           max.count > 0 => max.value # None, NEW v \in Node, Put(v)
    PROVE  /\ counter' \in [Node -> Nat]
           /\ max' \in [value : Node \cup {None}, count : Nat]
           /\ max'.count > 0 => max'.value # None
<1>1. v # None
  BY GossipAssumption
<1>2. counter' \in [Node -> Nat] /\ counter'[v] \in Nat
  BY DEF Put
<1> QED
  BY <1>1, <1>2 DEF Put

(* The root's Dispatch takes a value.  Only the message that passes the    *)
(* threshold first decides, and nobody has been told anything before it.   *)
LEMMA DispatchRootValueKeeps == IInv /\ DispatchRootValue => IInv'
<1> SUFFICES ASSUME IInv, DispatchRootValue PROVE IInv'
  OBVIOUS
<1> USE DEF IInv
<1>1. /\ newRootValue # <<>> /\ newRootValue' = Tail(newRootValue)
      /\ UNCHANGED <<dispatch, lowest, incoming, sentFinished, finished>>
  BY DEF DispatchRootValue, TakeRootValue, gossipVars
<1>2. newRootValue \in Seq(Node) /\ Cardinality(Children(Root)) \in Nat
  BY TreeTypes, ChildrenFinite DEF Types
<1>3. /\ newRootValue' \in Seq(Node) /\ Head(newRootValue) \in Node
      /\ Len(newRootValue') <= Cardinality(Children(Root)) + 1
  BY <1>1, <1>2 DEF Types
<1>4. \A n : Ended(n)' = Ended(n)
  BY <1>1 DEF Ended
<1>5. CountedOnce'
  BY <1>1, <1>4, CountsUntouched
<1>6. CASE UNCHANGED <<counter, max, found, valueFound, told>>
  <2>1. Types'
    BY <1>1, <1>3, <1>6, Zenon DEF Types
  <2>2. Elected' /\ ToldDownward' /\ DoneBottomUp'
    BY <1>1, <1>6 DEF Elected, ToldDownward, DoneBottomUp
  <2> QED
    BY <2>1, <2>2, <1>5
<1>7. CASE /\ found = <<>> /\ Put(Head(newRootValue))
           /\ UNCHANGED <<found, valueFound, told>>
  <2>1. /\ counter' \in [Node -> Nat]
        /\ max' \in [value : Node \cup {None}, count : Nat]
        /\ max'.count > 0 => max'.value # None
    BY <1>3, <1>7, PutFacts DEF Types, Elected
  <2>2. Types'
    BY <1>1, <1>3, <1>7, <2>1, Zenon DEF Types
  <2>3. Elected' /\ ToldDownward' /\ DoneBottomUp'
    BY <1>1, <1>7, <2>1 DEF Elected, ToldDownward, DoneBottomUp
  <2> QED
    BY <2>2, <2>3, <1>5
<1>8. CASE /\ found = <<>> /\ Put(Head(newRootValue)) /\ max'.count > Threshold
           /\ found' = Append(found, max'.value)
           /\ valueFound' = [n \in Node |-> IF n \in Children(Root)
                                THEN max'.value ELSE valueFound[n]]
           /\ told' = [told EXCEPT ![Root] = max'.value]
  <2>1. /\ counter' \in [Node -> Nat]
        /\ max' \in [value : Node \cup {None}, count : Nat]
        /\ max'.count > 0 => max'.value # None
    BY <1>3, <1>8, PutFacts DEF Types, Elected
  <2>2. Threshold \in Nat
    BY TreeAssumption, FS_CardinalityType DEF Threshold
  <2>3. max'.count \in Nat /\ max'.count > 0
    BY <1>8, <2>1, <2>2
  <2>4. max'.value \in Node /\ max'.value # None
    BY <2>1, <2>3
  <2>5. found' = <<max'.value>>
    BY <1>8, <2>4
  <2>6. Types'
    <3>1. found' \in Seq(Node)
      BY <2>4, <2>5
    <3>2. valueFound' \in [Node -> Node \cup {None}]
      BY <1>8, <2>4 DEF Types
    <3>3. told' \in [Node -> Node \cup {None}]
      BY <1>8, <2>4, TreeTypes DEF Types
    <3> QED
      BY <1>1, <1>3, <2>1, <3>1, <3>2, <3>3, Zenon DEF Types
  <2>7. \A n \in Node : told[n] = None /\ valueFound[n] = None
    BY <1>8, Zenon DEF Elected
  <2>8. Elected'
    <3> DEFINE won == max'.value
    <3>1. Len(found') <= 1 /\ found' # <<>> /\ found'[1] = won
      BY <2>4, <2>5
    <3>2. \A n \in Node : told'[n] \in {None, won} /\ valueFound'[n] \in {None, won}
      BY <1>8, <2>7, Zenon DEF Types
    <3> HIDE DEF won
    <3> QED
      BY <2>1, <3>1, <3>2, Zenon DEF Elected
  <2>9. ToldDownward'
    BY <1>8, <2>4, <2>7, TreeTypes, Zenon DEF ToldDownward, Types, Children
  <2>10. DoneBottomUp'
    <3>1. \A n \in Node : ~Ended(n)
      BY <2>7, SubtreeFacts DEF DoneBottomUp, Ended
    <3> QED
      BY <3>1, <1>4 DEF DoneBottomUp, Ended
  <2> QED
    BY <2>6, <2>8, <2>9, <2>10, <1>5
<1> QED
  BY <1>6, <1>7, <1>8 DEF DispatchRootValue, TakeRootValue

(* A ValueFound arrives: the node passes it on, and a leaf is done.        *)
LEMMA ReceiveValueFoundKeeps ==
    ASSUME IInv, NEW n \in Node, ReceiveValueFound(n)
    PROVE  IInv'
<1> USE DEF IInv
<1> DEFINE v == valueFound[n]
<1>1. /\ Delivers(n) /\ v # None
      /\ told' = [told EXCEPT ![n] = v]
      /\ valueFound' = [c \in Node |-> IF c = n THEN None
                                       ELSE IF c \in Children(n) THEN v
                                       ELSE valueFound[c]]
      /\ UNCHANGED <<lowest, incoming, newRootValue, counter, max, found,
                     finished>>
  BY DEF ReceiveValueFound, gossipVars, rootVars
<1>2. v \in Node /\ found # <<>> /\ v = found[1]
  BY <1>1, Zenon DEF Types, Elected
<1>3. /\ told' \in [Node -> Node \cup {None}]
      /\ valueFound' \in [Node -> Node \cup {None}]
      /\ \A m \in Node : told'[m] = IF m = n THEN v ELSE told[m]
  BY <1>1, <1>2, Zenon DEF Types
<1>4. Elected'
  BY <1>1, <1>2, <1>3, Zenon DEF Elected
<1>5. ToldDownward'
  <2> SUFFICES ASSUME NEW m \in Node \ {Root},
                      told'[m] # None \/ valueFound'[m] # None
               PROVE  told'[Parent[m]] # None
    BY DEF ToldDownward
  <2>1. Parent[m] \in Node
    BY TreeTypes
  <2>2. CASE Parent[m] = n
    BY <1>1, <1>3, <2>2
  <2>3. CASE Parent[m] # n
    <3>1. told[m] # None \/ valueFound[m] # None
      BY <1>1, <1>3, <2>3 DEF Children
    <3>2. told[Parent[m]] # None
      BY <3>1 DEF ToldDownward
    <3> QED
      BY <3>2, <1>3, <2>1, <2>3
  <2> QED
    BY <2>2, <2>3
<1>6. \A m \in Node : told[m] # None => told'[m] # None
  BY <1>1, <1>3
<1>7. ~Ended(n)
  BY <1>1 DEF Delivers, Ended
<1>8. CASE ~IsLeaf(n)
  <2>1. /\ dispatch' = [dispatch EXCEPT ![n] = Created(n)]
        /\ UNCHANGED sentFinished
    BY <1>8 DEF ReceiveValueFound
  <2>2. /\ dispatch' \in [Node -> {"new", "running", "stopping", "stopped"}]
        /\ \A m \in Node : Ended(m)' = Ended(m)
    BY <1>1, <2>1, CreatedKeepsEnded, Zenon DEF Types
  <2>3. Types'
    BY <1>1, <1>3, <2>1, <2>2, Zenon DEF Types
  <2>4. CountedOnce'
    BY <1>1, <2>1, <2>2, CountsUntouched
  <2>5. DoneBottomUp'
    BY <1>6, <2>2, SubtreeFacts DEF DoneBottomUp, Ended
  <2> QED
    BY <1>4, <1>5, <2>3, <2>4, <2>5
<1>9. CASE IsLeaf(n)
  <2>1. /\ dispatch' = [dispatch EXCEPT ![n] = "stopping"]
        /\ sentFinished' = sentFinished \cup {n}
    BY <1>9 DEF ReceiveValueFound
  <2>2. /\ dispatch' \in [Node -> {"new", "running", "stopping", "stopped"}]
        /\ \A m \in Node : Ended(m)' = (Ended(m) \/ m = n)
    BY <2>1 DEF Types, Ended
  <2>3. Types'
    BY <1>1, <1>3, <2>1, <2>2 DEF Types
  <2>4. CountedOnce'
    <3>1. \A m \in Node : Reported(m)' = Reported(m)
      BY <1>7, <2>1, <2>2, Zenon DEF Reported, Children
    <3>2. \A m \in sentFinished' : Ended(m)'
      BY <2>1, <2>2, Zenon DEF Types, CountedOnce
    <3> QED
      BY <1>1, <3>1, <3>2 DEF CountedOnce
  <2>5. DoneBottomUp'
    <3>1. Subtree[n] = {n}
      BY <1>9, TreeAssumption DEF IsLeaf
    <3>2. told'[n] # None
      BY <1>1, <1>3
    <3> QED
      BY <1>6, <2>2, <3>1, <3>2, SubtreeFacts DEF DoneBottomUp, Ended
  <2> QED
    BY <1>4, <1>5, <2>3, <2>4, <2>5
<1> QED
  BY <1>8, <1>9

(* A Finished arrives.  The last one finds all children done and, through  *)
(* them, everybody below; that some child was told says that the node was. *)
LEMMA ReceiveFinishedKeeps ==
    ASSUME IInv, NEW n \in Node, ReceiveFinished(n)
    PROVE  IInv'
<1> USE DEF IInv
<1>1. PICK c \in Children(n) \cap sentFinished :
        /\ finished' = [finished EXCEPT ![n] = @ + 1]
        /\ IF finished'[n] >= Cardinality(Children(n))
           THEN /\ sentFinished' = (sentFinished \ {c}) \cup ({n} \ {Root})
                /\ dispatch' = [dispatch EXCEPT ![n] = "stopping"]
           ELSE /\ sentFinished' = sentFinished \ {c}
                /\ UNCHANGED dispatch
  BY DEF ReceiveFinished, FinishAt
<1>2. /\ Delivers(n)
      /\ UNCHANGED <<lowest, incoming, newRootValue, counter, max, found,
                     valueFound, told>>
  BY DEF ReceiveFinished, FinishAt, gossipVars, rootVars
<1>3. c \in Node /\ c # n /\ c # Root /\ Parent[c] = n
  BY ChildFacts
<1>4. ~Ended(n) /\ Ended(c)
  BY <1>2 DEF Delivers, Ended, CountedOnce
<1>5. /\ finished' \in [Node -> Nat] /\ finished[n] \in Nat
      /\ finished'[n] = finished[n] + 1
      /\ \A m \in Node : m # n => finished'[m] = finished[m]
  BY <1>1 DEF Types
<1>6. Elected' /\ ToldDownward'
  BY <1>2, Zenon DEF Elected, ToldDownward
<1>7. /\ Reported(n) \cup {c} \subseteq Children(n) /\ c \notin Reported(n)
      /\ Cardinality(Reported(n) \cup {c}) = finished[n] + 1
  <2>1. Reported(n) \subseteq Children(n) /\ c \notin Reported(n)
    BY DEF Reported
  <2>2. IsFiniteSet(Reported(n))
    BY <2>1, ChildrenFinite
  <2>3. Cardinality(Reported(n) \cup {c}) = Cardinality(Reported(n)) + 1
    BY <2>1, <2>2, FS_AddElement, Zenon
  <2> QED
    BY <2>1, <2>3 DEF CountedOnce
<1>8. CASE finished'[n] < Cardinality(Children(n))
  <2>1. sentFinished' = sentFinished \ {c} /\ UNCHANGED dispatch
    BY <1>1, <1>5, <1>8, ChildrenFinite
  <2>2. \A m : Ended(m)' = Ended(m)
    BY <2>1 DEF Ended
  <2>3. Types'
    BY <1>2, <1>5, <2>1, Zenon DEF Types
  <2>4. Reported(n)' = Reported(n) \cup {c}
    BY <1>4, <2>1, <2>2 DEF Reported
  <2>5. \A m \in Node : m # n => Reported(m)' = Reported(m)
    BY <1>3, <2>1, <2>2 DEF Reported, Children
  <2>6. CountedOnce'
    BY <1>5, <1>7, <2>1, <2>2, <2>4, <2>5, Zenon DEF CountedOnce
  <2>7. DoneBottomUp'
    BY <1>2, <2>1 DEF DoneBottomUp
  <2> QED
    BY <1>6, <2>3, <2>6, <2>7
<1>9. CASE finished'[n] >= Cardinality(Children(n))
  <2>1. /\ sentFinished' = (sentFinished \ {c}) \cup ({n} \ {Root})
        /\ dispatch' = [dispatch EXCEPT ![n] = "stopping"]
    BY <1>1, <1>9
  <2>2. /\ dispatch' \in [Node -> {"new", "running", "stopping", "stopped"}]
        /\ \A m \in Node : Ended(m)' = (Ended(m) \/ m = n)
    BY <2>1 DEF Types, Ended
  <2>3. Types'
    BY <1>2, <1>5, <2>1, <2>2, SMTT(20) DEF Types
  <2>4. Reported(n) \cup {c} = Children(n)
    <3> DEFINE S == Reported(n) \cup {c}
    <3>1. /\ Cardinality(S) \in Nat /\ Cardinality(Children(n)) \in Nat
          /\ Cardinality(S) <= Cardinality(Children(n))
          /\ Cardinality(S) = Cardinality(Children(n)) => S = Children(n)
      BY <1>7, ChildrenFinite
    <3>2. Cardinality(S) >= Cardinality(Children(n))
      BY <1>5, <1>7, <1>9
    <3> HIDE DEF S
    <3>3. Cardinality(S) = Cardinality(Children(n))
      BY <3>1, <3>2
    <3> QED
      BY <3>1, <3>3 DEF S
  <2>5. \A m \in Children(n) : Ended(m)
    BY <1>4, <2>4 DEF Reported
  <2>6. Reported(n)' = Reported(n) \cup {c}
    <3>1. \A d \in Children(n) : d \in Node /\ d # n
      BY ChildFacts
    <3>2. \A d \in Children(n) : Ended(d)' /\ d \notin sentFinished'
      BY <2>1, <2>2, <2>4, <2>5, <3>1, Zenon DEF Reported
    <3> QED
      BY <2>4, <3>2 DEF Reported
  <2>7. \A m \in Node : m # n => Reported(m)' = Reported(m)
    <3> SUFFICES ASSUME NEW m \in Node, m # n, NEW d \in Children(m)
                 PROVE  (Ended(d)' /\ d \notin sentFinished')
                           = (Ended(d) /\ d \notin sentFinished)
      BY DEF Reported
    <3>1. d \in Node /\ d # Root /\ Parent[d] = m
      BY ChildFacts
    <3>2. CASE d = n
      BY <1>4, <2>1, <2>2, <3>1, <3>2
    <3>3. CASE d # n
      BY <1>3, <2>1, <2>2, <3>1, <3>3, Zenon
    <3> QED
      BY <3>2, <3>3
  <2>8. CountedOnce'
    <3>1. \A m \in sentFinished' : Ended(m)'
      BY <2>1, <2>2, Zenon DEF Types, CountedOnce
    <3> QED
      BY <1>5, <1>7, <2>6, <2>7, <3>1, Zenon DEF CountedOnce
  <2>9. DoneBottomUp'
    <3>1. \A d \in Children(n) : \A m \in Subtree[d] : Ended(m) /\ told[m] # None
      BY <2>5, ChildFacts DEF DoneBottomUp, Ended
    <3>2. \A m \in Below(n) : Ended(m) /\ told[m] # None
      BY <3>1, SubtreeFacts
    <3>3. told[n] # None
      BY <1>3, <1>4, SubtreeFacts, Zenon DEF ToldDownward, DoneBottomUp, Ended
    <3>4. \A m \in Subtree[n] : Ended(m)' /\ told'[m] # None
      BY <1>2, <2>2, <3>2, <3>3, SubtreeFacts, ZenonT(30) DEF Below
    <3> QED
      BY <1>2, <2>2, <3>4, SubtreeFacts DEF DoneBottomUp, Ended
  <2> QED
    BY <1>6, <2>3, <2>8, <2>9
<1> QED
  BY <1>5, <1>8, <1>9, ChildrenFinite

(* Dispatch returns; the node was done already. *)
LEMMA StopDispatchKeeps ==
    ASSUME IInv, NEW n \in Node, StopDispatch(n)
    PROVE  IInv'
<1> USE DEF IInv
<1>1. /\ dispatch[n] = "stopping" /\ dispatch' = [dispatch EXCEPT ![n] = "stopped"]
      /\ UNCHANGED <<lowest, incoming, newRootValue, counter, max, found,
                     valueFound, told, sentFinished, finished>>
  BY DEF StopDispatch, gossipVars, rootVars, endVars
<1>2. /\ dispatch' \in [Node -> {"new", "running", "stopping", "stopped"}]
      /\ \A m \in Node : Ended(m)' = Ended(m)
  BY <1>1 DEF Types, Ended
<1>3. Types'
  BY <1>1, <1>2, SMTT(20) DEF Types
<1>4. Elected' /\ ToldDownward'
  BY <1>1 DEF Elected, ToldDownward
<1>5. CountedOnce'
  BY <1>1, <1>2, CountsUntouched
<1>6. DoneBottomUp'
  BY <1>1, <1>2, SubtreeFacts DEF DoneBottomUp, Ended
<1> QED
  BY <1>3, <1>4, <1>5, <1>6

(* Every step keeps the invariant. *)
LEMMA NextKeeps == IInv /\ [Next]_vars => IInv'
<1> SUFFICES ASSUME IInv, [Next]_vars PROVE IInv'
  OBVIOUS
<1>1. CASE UNCHANGED vars
  <2>1. UNCHANGED <<endState, newRootValue, counter, max, found, lowest, incoming>>
    BY <1>1 DEF vars, endState
  <2> QED
    BY <2>1, GossipStep, Zenon DEF IInv, Types
<1>2. CASE Next
  BY <1>2, StartKeeps, ReceiveRootValueKeeps, DispatchRootValueKeeps, TimeoutKeeps,
     ReceiveValueKeeps, ReceiveValueFoundKeeps, ReceiveFinishedKeeps,
     StopDispatchKeeps DEF Next
<1> QED
  BY <1>1, <1>2

(* The invariant always holds. *)
THEOREM Invariance == Spec => []IInv
BY InitKeeps, NextKeeps, PTL DEF Spec

(* The root decides once and every node that is told a value is told what  *)
(* the root's callback got: gossip.go's Dispatch drops what reaches        *)
(* newRootValue after that, although timeouts reset the counts in between. *)
THEOREM OneElectedHolds == Spec => []OneElected
<1>1. IInv => OneElected
  <2> SUFFICES ASSUME IInv PROVE OneElected
    OBVIOUS
  <2>1. \A n \in Node : finished[n] \in 0..Cardinality(Node)
    <3> TAKE n \in Node
    <3>1. Reported(n) \subseteq Node
      BY DEF Reported, Children
    <3>2. /\ Cardinality(Reported(n)) \in Nat /\ Cardinality(Node) \in Nat
          /\ Cardinality(Reported(n)) <= Cardinality(Node)
      BY <3>1, TreeAssumption, FS_Subset, FS_CardinalityType
    <3> QED
      BY <3>2 DEF IInv, CountedOnce
  <2>2. TypeOK
    BY <2>1 DEF IInv, Types, TypeOK
  <2> QED
    BY <2>2 DEF IInv, Elected, OneElected
<1> QED
  BY <1>1, Invariance, PTL

(* WaitFinish returns, and a node is done, only when everybody below has   *)
(* been told the value and is done (ReceiveFinished, sendValueFound).      *)
THEOREM DoneBottomUpHolds == Spec => []DoneBottomUp
BY Invariance, PTL DEF IInv
=============================================================================
